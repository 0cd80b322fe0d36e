---------------------------- MODULE AgentRunLoop ----------------------------
(***************************************************************************)
(* One AgentRun and the Owner providers that execute it: the endpoints     *)
(* that start it, set its status and record its steps (conversations.py),  *)
(* the background task that a start adds, the providers and the events of  *)
(* a structured answer (owner_providers.py, owner/), the tool bridge       *)
(* (owner_tool_loop.py) and the ledger of ToolCalls (owner_tools.py).      *)
(*                                                                         *)
(* A background task has a database session of its own, without autoflush. *)
(* It holds no transaction while the provider's process runs.  Of every    *)
(* tool request the session commits the beginning (the registry of tools   *)
(* commits when it is seeded), and leaves the rest (the ToolCall, what the *)
(* tool wrote, the end of the step) to its next commit: that of the next   *)
(* request, or its last one.  An exception rolls back to the last commit   *)
(* and marks the run failed.  The provider's session log is a file, and    *)
(* knows of no rollback.                                                   *)
(*                                                                         *)
(* A definition introduced by "Variant" is a mistake one could make in the *)
(* code it stands before; no specification uses it.                        *)
(***************************************************************************)
EXTENDS Naturals, Sequences, FiniteSets

CONSTANTS Thread,         \* threads of the server's pool: HTTP requests in flight
          Providers,      \* bound: the provider kinds, and modes, in use
          StatusTargets,  \* bound: statuses asked of POST /agent-runs/{id}/status
          MaxExecutions,  \* bound: times the run is started
          MaxEvents,      \* bound: events in the answer of a provider
          MaxRequests,    \* bound: HTTP requests, other than starts
          Faults          \* bound: whether files and processes fail, and the server stops

ASSUME BoundAssumption == /\ MaxExecutions \in Nat /\ MaxEvents \in Nat \ {0} /\ MaxRequests \in Nat
                          /\ Faults \in BOOLEAN

VARIABLES run,            \* status of the AgentRun
          steps,          \* steps[i]: status of the step with index i, or "absent"
          calls,          \* the ToolCalls that are committed
          effects,        \* the ToolCalls whose writes are committed
          log,            \* tool results in the providers' session log
          execution,      \* execution[e]: the e-th start's background task
          request,        \* request[t]: what thread t has read and not yet written
          budget,         \* HTTP requests that may still be made
          lost,           \* background tasks that ended without their last commit
          adrift          \* whether, since a request last started the run or set its status
                          \* to another, a task of it was lost, or one set it under way by hand

db == <<run, steps, calls, effects>>
vars == <<run, steps, calls, effects, log, execution, request, budget, lost, adrift>>

-----------------------------------------------------------------------------
(* Types *)

AgentRunStatus == {"queued", "preparing_context", "running_model", "executing_tool",
                   "waiting_for_approval", "waiting_for_user", "waiting_for_worker",
                   "reviewing_worker_result", "retry_scheduled",
                   "completed", "failed", "cancelled"}
StartableStatuses == {"queued", "cancelled"}
UnderWay == {"running_model", "executing_tool"}
ToolCallStatus == {"created", "policy_checking", "waiting_for_approval", "running", "succeeded",
                   "failed", "cancelled", "rejected", "skipped_duplicate"}

\* The outcomes of a tool request.
CallStatus == {"succeeded", "failed", "rejected"}
StepStatus == {"absent", "running", "succeeded", "failed"}
Event == {"message", "tool", "error"}

Execution == 1 .. MaxExecutions
Index == 0 .. MaxEvents

\* The n-th tool request of an execution.
CallId == Execution \X (1 .. MaxEvents)

\* What a background task has in memory: the events to come, the number of
\* tool requests made, the status of the run as its session knows it, the
\* indexes of model steps that are added and not flushed, the index of the
\* step of the tool, and what it has flushed and not committed.
NoTransaction == [open |-> FALSE]
Transaction == [open : {TRUE}, call : CallStatus, effect : BOOLEAN]

Running == [phase : {"load", "model", "events", "tool"}, provider : Providers,
            todo : UNION {[1 .. n -> Event] : n \in 0 .. MaxEvents}, made : 0 .. MaxEvents,
            seen : AgentRunStatus, previous : AgentRunStatus,
            added : UNION {[1 .. n -> Index] : n \in 0 .. MaxEvents}, step : Index,
            pending : {NoTransaction} \union Transaction]
Over == [phase |-> "none"]
Unused == [phase |-> "unused"]

IdleThread == [op |-> "idle"]
Request == [op : {"start"}, seen : AgentRunStatus, provider : Providers]
             \union [op : {"status"}, seen : AgentRunStatus]
             \union [op : {"step"}, index : Index]

TypeOK == /\ run \in AgentRunStatus
          /\ steps \in [Index -> StepStatus]
          /\ calls \subseteq (CallId \X ToolCallStatus)
          /\ effects \subseteq CallId
          /\ log \subseteq (CallId \X CallStatus)
          /\ execution \in [Execution -> {Over, Unused} \union Running]
          /\ request \in [Thread -> {IdleThread} \union Request]
          /\ budget \in 0 .. MaxRequests
          /\ lost \subseteq Execution
          /\ adrift \in BOOLEAN

\* POST /agent-runs/{id}/status takes the statuses of the enumeration.
ASSUME TargetAssumption == StatusTargets \subseteq AgentRunStatus

Init == /\ run = "queued"
        /\ steps = [i \in Index |-> "absent"]
        /\ calls = {} /\ effects = {} /\ log = {}
        /\ execution = [e \in Execution |-> Unused]
        /\ request = [t \in Thread |-> IdleThread]
        /\ budget = MaxRequests
        /\ lost = {} /\ adrift = FALSE

-----------------------------------------------------------------------------
(* Sessions *)

\* A task with an open transaction holds SQLite's write lock.
Locked(e) == \E x \in Execution \ {e} :
               execution[x].phase = "events" /\ execution[x].pending.open

\* The ORM writes an attribute only when it differs from what it has loaded
\* or written itself.
Flush(stored, loaded, new) == IF new = loaded THEN stored ELSE new

\* (max or -1) + 1, in which the index 0 of a first step counts as none.
NextStepIndex ==
  LET used == {i \in Index : steps[i] # "absent"}
      max == CHOOSE i \in used : \A k \in used : k <= i
  IN  IF used = {} \/ used = {0} THEN 0 ELSE max + 1

\* Steps may be inserted at these indexes: uq_agent_run_step_index.
Insertable(indexes) ==
  /\ \A i \in DOMAIN indexes : indexes[i] \in Index /\ steps[indexes[i]] = "absent"
  /\ \A i, k \in DOMAIN indexes : indexes[i] = indexes[k] => i = k

\* Variant: what the open transaction has written to the run is overlooked.
StoredRunAsCommitted(x) == run

\* The status of the run as the open transaction of x leaves it so far.
StoredRun(x) == IF x.pending.open /\ x.seen # "executing_tool" THEN x.seen ELSE run

\* Variant: the step of the tool takes the outcome of its call as its status.
WithStepsAsCalled(x, inserted, status) ==
  [i \in Index |->
     IF \E k \in DOMAIN inserted : inserted[k] = i THEN status
     ELSE IF x.pending.open /\ i = x.step THEN x.pending.call ELSE steps[i]]

\* The steps, once the pending ones are written.
WithSteps(x, inserted, status) ==
  [i \in Index |->
     IF \E k \in DOMAIN inserted : inserted[k] = i THEN status
     ELSE IF x.pending.open /\ i = x.step
          THEN IF x.pending.call = "succeeded" THEN "succeeded" ELSE "failed"
          ELSE steps[i]]

\* The ToolCall of the last tool request, and what its tool has written.
CommitLedger(e, x) ==
  /\ calls' = IF x.pending.open
              THEN calls \union {<<<<e, x.made>>, x.pending.call>>} ELSE calls
  /\ effects' = IF x.pending.open /\ x.pending.effect
                THEN effects \union {<<e, x.made>>} ELSE effects

\* The last commit of a task, of a run that ends with the given status.
Conclude(e, x, status) ==
  /\ Insertable(x.added)
  /\ run' = Flush(StoredRun(x), x.seen, status)
  /\ steps' = WithSteps(x, x.added, "succeeded")
  /\ CommitLedger(e, x)
  /\ execution' = [execution EXCEPT ![e] = Over]

\* Variant: the exception is only logged.
RollBackOnly(e) ==
  /\ execution' = [execution EXCEPT ![e] = Over]
  /\ UNCHANGED <<run, steps, calls, effects>>

\* An exception of the provider: owner_provider_unhandled_exception.
RollBack(e) ==
  /\ run' = "failed"
  /\ execution' = [execution EXCEPT ![e] = Over]
  /\ UNCHANGED <<steps, calls, effects>>

-----------------------------------------------------------------------------
(* Providers *)

\* The answers that a provider may give, as events; a prompt is answered by
\* one message, the bridge spike by nothing, a script by one tool request.
Answers(provider) ==
  CASE provider = "structured_stdout" -> UNION {[1 .. n -> Event] : n \in 1 .. MaxEvents}
    [] provider = "prompt"            -> {<<"message">>}
    [] provider = "bridge_spike"      -> {<< >>}
    [] provider = "fake"              -> {<< >>, <<"tool">>}
    [] OTHER                          -> {}

\* Not connected, not implemented, an invalid script; the command is missing,
\* times out, fails, or answers nothing or what cannot be parsed.
MayFail(provider) == provider # "bridge_spike"

Load(e) == /\ execution[e].phase = "load"
           /\ execution' = [execution EXCEPT ![e].phase = "model", ![e].seen = run]
           /\ UNCHANGED <<db, log, request, budget, lost, adrift>>

ProviderAnswers(e) ==
  /\ execution[e].phase = "model"
  /\ \E events \in Answers(execution[e].provider) :
       execution' = [execution EXCEPT ![e].phase = "events", ![e].todo = events]
  /\ UNCHANGED <<db, log, request, budget, lost, adrift>>

ProviderFails(e) == /\ execution[e].phase = "model" /\ MayFail(execution[e].provider)
                    /\ ~Locked(e)
                    /\ Conclude(e, execution[e], "failed")
                    /\ UNCHANGED <<log, request, budget, lost, adrift>>

\* Something raises: the provider, the parser, the file system, or a commit
\* that waits too long for the lock; the handler's own commit succeeds.
ProviderRaises(e) == /\ Faults /\ execution[e].phase \in {"model", "events", "tool"} /\ ~Locked(e)
                     /\ RollBack(e)
                     /\ UNCHANGED <<log, request, budget, lost, adrift>>

\* The first read of the run, before the handler is in place, or the handler's
\* own commit waits too long for the lock: the task dies, and the run stays as
\* the last commit has left it, while the server goes on.
TaskLost(e) == /\ Faults /\ execution[e].phase \in {"load", "model", "events", "tool"}
               /\ execution' = [execution EXCEPT ![e] = Over]
               /\ lost' = lost \union {e} /\ adrift' = TRUE
               /\ UNCHANGED <<db, log, request, budget>>

AssistantMessage(e) ==
  /\ execution[e].phase = "events" /\ execution[e].todo # << >>
  /\ Head(execution[e].todo) = "message"
  /\ execution' = [execution EXCEPT ![e].todo = Tail(@),
                                    ![e].added = Append(@, NextStepIndex)]
  /\ UNCHANGED <<db, log, request, budget, lost, adrift>>

\* The error of a provider, or the end of its events; a step whose index is
\* taken raises at the commit.
Ends(e) ==
  LET x == execution[e]
  IN  /\ x.phase = "events" /\ ~Locked(e)
      /\ x.todo # << >> => Head(x.todo) = "error"
      /\ \/ Conclude(e, x, IF x.todo = << >> THEN "completed" ELSE "failed")
         \/ ~Insertable(x.added) /\ RollBack(e)
      /\ UNCHANGED <<log, request, budget, lost, adrift>>

-----------------------------------------------------------------------------
(* Tool requests *)

\* The status of the run and a step are flushed, and committed with what the
\* previous request left.
ToolRequest(e) ==
  LET x == execution[e]
      inserted == Append(x.added, NextStepIndex)
  IN  /\ x.phase = "events" /\ x.todo # << >> /\ Head(x.todo) = "tool" /\ ~Locked(e)
      /\ \/ /\ Insertable(inserted)
            /\ run' = Flush(StoredRun(x), x.seen, "executing_tool")
            /\ steps' = [WithSteps(x, x.added, "succeeded") EXCEPT ![NextStepIndex] = "running"]
            /\ CommitLedger(e, x)
            /\ execution' = [execution EXCEPT
                 ![e] = [x EXCEPT !.phase = "tool", !.todo = Tail(@), !.made = @ + 1,
                                  !.previous = x.seen, !.seen = "executing_tool", !.added = << >>,
                                  !.step = NextStepIndex, !.pending = NoTransaction]]
         \/ ~Insertable(inserted) /\ RollBack(e)
      /\ UNCHANGED <<log, request, budget, lost, adrift>>

\* An unknown tool or one that is not allowed is rejected.  A tool that fails
\* may have written before it did, and a list writes nothing.
ToolResults == {<<"rejected", FALSE>>, <<"failed", FALSE>>, <<"failed", TRUE>>,
                <<"succeeded", FALSE>>, <<"succeeded", TRUE>>}

\* Variant: the provider is told that the tool has done what was asked.
LogResultSucceeded(e, x, result) ==
  log' = IF x.provider = "structured_stdout"
         THEN log \union {<<<<e, x.made>>, "succeeded">>} ELSE log

\* What the provider is told of the call, in the log of its session.
LogResult(e, x, result) ==
  log' = IF x.provider = "structured_stdout"
         THEN log \union {<<<<e, x.made>>, result>>} ELSE log

\* Variant: the tool commits what it writes.
ToolCommits(e) ==
  LET x == execution[e]
  IN  /\ x.phase = "tool" /\ ~Locked(e)
      /\ \E result \in ToolResults :
           LET done == [x EXCEPT !.phase = "events", !.seen = x.previous,
                                 !.pending = [open |-> TRUE, call |-> result[1], effect |-> FALSE]]
           IN  /\ LogResult(e, x, result[1])
               /\ effects' = IF result[2] THEN effects \union {<<e, x.made>>} ELSE effects
               /\ execution' = [execution EXCEPT ![e] = done]
      /\ UNCHANGED <<run, steps, calls, request, budget, lost, adrift>>

\* The ToolCall, what the tool writes, the end of the step and the restored
\* status of the run; the loop goes on only when the call has succeeded.
ToolRuns(e) ==
  LET x == execution[e]
  IN  /\ x.phase = "tool" /\ ~Locked(e)
      /\ \E result \in ToolResults :
           LET done == [x EXCEPT !.phase = "events", !.seen = x.previous,
                                 !.pending = [open |-> TRUE, call |-> result[1],
                                              effect |-> result[2]]]
           IN  /\ LogResult(e, x, result[1])
               /\ IF result[1] = "succeeded"
                  THEN /\ execution' = [execution EXCEPT ![e] = done]
                       /\ UNCHANGED db
                  ELSE Conclude(e, done, "failed")
      /\ UNCHANGED <<request, budget, lost, adrift>>

-----------------------------------------------------------------------------
(* HTTP endpoints *)

Begin(t, r) == /\ request[t] = IdleThread
               /\ request' = [request EXCEPT ![t] = r]
               /\ UNCHANGED <<db, log, execution, lost, adrift>>

Finish(t) == request' = [request EXCEPT ![t] = IdleThread]

Writable == \A e \in Execution : ~(execution[e].phase = "events" /\ execution[e].pending.open)

\* The background task that a start adds.
NewExecution(provider) ==
  [phase |-> "load", provider |-> provider, todo |-> << >>, made |-> 0,
   seen |-> "running_model", previous |-> "running_model", added |-> << >>,
   step |-> 0, pending |-> NoTransaction]

\* POST /agent-runs/{id}/start
StartRead(t, provider) == /\ run \in StartableStatuses
                          /\ Begin(t, [op |-> "start", seen |-> run, provider |-> provider])
                          /\ UNCHANGED budget

StartWrite(t) ==
  LET r == request[t]
      unused == {e \in Execution : execution[e] = Unused}
  IN  /\ r.op = "start" /\ Writable
      /\ run' = Flush(run, r.seen, "running_model")
      /\ \E first \in unused :
           /\ \A k \in unused : first <= k
           /\ execution' = [execution EXCEPT ![first] = NewExecution(r.provider)]
      /\ Finish(t)
      /\ adrift' = FALSE
      /\ UNCHANGED <<steps, calls, effects, log, budget, lost>>

\* POST /agent-runs/{id}/status, for which every status is as good as another.
StatusRead(t) == /\ budget > 0
                 /\ Begin(t, [op |-> "status", seen |-> run])
                 /\ budget' = budget - 1

StatusWrite(t) == /\ request[t].op = "status" /\ Writable
                  /\ \E s \in StatusTargets :
                       /\ run' = Flush(run, request[t].seen, s)
                       /\ adrift' = IF s = request[t].seen THEN adrift ELSE s \in UnderWay
                  /\ Finish(t)
                  /\ UNCHANGED <<steps, calls, effects, log, execution, budget, lost>>

\* POST /agent-runs/{id}/steps
StepRead(t) == /\ budget > 0
               /\ Begin(t, [op |-> "step", index |-> NextStepIndex])
               /\ budget' = budget - 1

StepWrite(t) == /\ request[t].op = "step" /\ Writable
                /\ steps[request[t].index] = "absent"
                /\ \E s \in StepStatus \ {"absent"} :
                     steps' = [steps EXCEPT ![request[t].index] = s]
                /\ Finish(t)
                /\ UNCHANGED <<run, calls, effects, log, execution, budget, lost, adrift>>

\* POST /tool-calls/{id}/status, which sets any status of any ToolCall that is
\* there, as one of the owner tools is once it is committed.
SetCallStatus == /\ budget > 0 /\ Writable
                 /\ \E call \in calls, s \in ToolCallStatus :
                      calls' = (calls \ {call}) \union {<<call[1], s>>}
                 /\ budget' = budget - 1
                 /\ UNCHANGED <<run, steps, effects, log, execution, request, lost, adrift>>

\* A request that finds its index taken, or waits too long for the lock.
Refuse(t) == /\ request[t] # IdleThread
             /\ ~Writable \/ (request[t].op = "step" /\ steps[request[t].index] # "absent")
             /\ Finish(t)
             /\ UNCHANGED <<db, log, execution, budget, lost, adrift>>

-----------------------------------------------------------------------------
(* The server stops: what is not committed is gone, and no task comes back. *)

Stop == LET ended == {e \in Execution : execution[e].phase \notin {"unused", "none"}}
        IN
        /\ Faults /\ ended # {}
        /\ lost' = lost \union ended /\ adrift' = TRUE
        /\ execution' = [e \in Execution |-> IF e \in ended THEN Over ELSE execution[e]]
        /\ request' = [t \in Thread |-> IdleThread]
        /\ UNCHANGED <<db, log, budget>>

-----------------------------------------------------------------------------
Execute(e) == \/ Load(e)
              \/ ProviderAnswers(e)
              \/ ProviderFails(e)
              \/ ProviderRaises(e)
              \/ AssistantMessage(e)
              \/ Ends(e)
              \/ ToolRequest(e)
              \/ ToolRuns(e)

Next == \/ \E e \in Execution : Execute(e) \/ TaskLost(e)
        \/ \E t \in Thread : \/ \E p \in Providers : StartRead(t, p)
                             \/ StartWrite(t)
                             \/ StatusRead(t)
                             \/ StatusWrite(t)
                             \/ StepRead(t)
                             \/ StepWrite(t)
                             \/ Refuse(t)
        \/ SetCallStatus
        \/ Stop

\* A background task runs to its end: the provider's process has a timeout,
\* and a task waits for a lock no longer than its holder keeps it.
Fairness == \A e \in Execution : WF_vars(Execute(e))

Spec == Init /\ [][Next]_vars /\ Fairness

-----------------------------------------------------------------------------
(* Properties *)

\* What a tool wrote is in the database only together with the ToolCall that
\* says who asked for it, whatever is rolled back or lost in between: the
\* ledger and the effects of a call are one transaction
\* (request_owner_tool_call, run_owner_provider_background).
EffectsRecorded == \A id \in effects : \E s \in ToolCallStatus : <<id, s>> \in calls

\* What a step tells of a call, in the ledger or in the session log of the
\* provider, is what both say of it: the log is written before the ledger is,
\* and survives what the ledger loses, and no later run of a tool settles a call
\* a second time.  Only POST /tool-calls/{id}/status changes a ToolCall that is
\* there, and nobody tells the provider (request_owner_tool_call).
OneOutcomePerCall ==
  [][\/ SetCallStatus
     \/ \A new \in (calls' \ calls) \union (log' \ log), told \in calls' \union log' :
          new[1] = told[1] => new = told]_vars

\* A run is executing a tool or its model only for a time: its background task
\* ends it, whatever raises, whoever sets its status meanwhile, and however many
\* tasks the run has been given; unless a task of it is lost, or a request has
\* set it under way without one, after which nothing in the server comes back to
\* it (run_owner_provider_background, POST /agent-runs/{id}/status).
StartedRunEnds == run \in UnderWay ~> run \notin UnderWay \/ adrift

\* A run whose model or tool is running has a background task that is not over,
\* unless one was lost or a request has set that status: the last task to end
\* writes the end of the run, also when it had loaded a run that another task had
\* ended before; and a run that is started again after a loss, or after its status
\* was set by hand, is attended again (run_owner_provider_background, start_agent_run).
RunIsAttended == run \in UnderWay /\ ~adrift =>
                   \E e \in Execution : execution[e].phase \notin {"unused", "none"}

\* A tool result in the session log of a provider is the result of a ToolCall
\* that the ledger has, once the provider's execution has ended.
LoggedResultsAreRecorded ==
  \A entry \in log : LET e == entry[1][1]
                     IN  execution[e] = Over /\ e \notin lost => entry \in calls

=============================================================================
