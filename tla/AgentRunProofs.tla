--------------------------- MODULE AgentRunProofs ---------------------------
(***************************************************************************)
(* Theorems about AgentRunLoop for any number of threads, starts, events   *)
(* and requests, whatever fails.                                           *)
(***************************************************************************)
EXTENDS AgentRunLoop, SequenceTheorems, TLAPS

-----------------------------------------------------------------------------
(* The inductive invariant *)

\* A task has room for the events of its answer: each becomes a tool request
\* or a model step.  What it has pending is of a tool request it has made.
Fits(x) ==
  x \in Running => /\ x.phase \in {"load", "model"} => x.todo = << >> /\ x.made = 0 /\ x.added = << >>
                   /\ x.made + Len(x.added) + Len(x.todo) <= MaxEvents
                   /\ x.phase = "tool" \/ x.pending.open => x.made >= 1
                   /\ x.step = 0 /\ \A k \in DOMAIN x.added : x.added[k] = 0

Tasks == {Over, Unused} \union Running

TasksOK == execution \in [Execution -> Tasks] /\ \A e \in Execution : Fits(execution[e])

\* A run never has a step but the one with index 0.
StepsOK == steps \in [Index -> StepStatus] /\ \A i \in Index : i # 0 => steps[i] = "absent"

LedgerOK == /\ calls \subseteq (CallId \X ToolCallStatus) /\ effects \subseteq CallId
            /\ log \subseteq (CallId \X CallStatus)
            /\ EffectsRecorded

RestOK == /\ run \in AgentRunStatus
          /\ request \in [Thread -> {IdleThread} \union Request]
          /\ \A t \in Thread : request[t].op = "step" => request[t].index = 0
          /\ budget \in 0 .. MaxRequests
          /\ lost \subseteq Execution /\ adrift \in BOOLEAN

IInv == TasksOK /\ StepsOK /\ LedgerOK /\ RestOK

-----------------------------------------------------------------------------
(* Sequences, tasks and steps *)

\* Functions on 1 .. n, for some n up to k, are sequences of at most k elements.
LEMMA Bounded ==
  ASSUME NEW S, NEW k \in Nat, NEW s
  PROVE  s \in UNION {[1 .. n -> S] : n \in 0 .. k} <=> s \in Seq(S) /\ Len(s) \in 0 .. k
<1>1. ASSUME s \in UNION {[1 .. n -> S] : n \in 0 .. k}
      PROVE  s \in Seq(S) /\ Len(s) \in 0 .. k
  <2>1. PICK n \in 0 .. k : s \in [1 .. n -> S]
    BY <1>1
  <2>2. s \in Seq(S) /\ Len(s) = n
    BY <2>1
  <2> QED BY <2>2
<1>2. ASSUME s \in Seq(S), Len(s) \in 0 .. k
      PROVE  s \in UNION {[1 .. n -> S] : n \in 0 .. k}
  BY <1>2, LenProperties
<1> QED BY <1>1, <1>2

\* The events that a task has still to handle are a short sequence of events.
LEMMA TodoBounded == \A s : s \in UNION {[1 .. n -> Event] : n \in 0 .. MaxEvents}
                              <=> s \in Seq(Event) /\ Len(s) \in 0 .. MaxEvents
BY Bounded, BoundAssumption

\* The steps that a task has added are a short sequence of indices.
LEMMA AddedBounded == \A s : s \in UNION {[1 .. n -> Index] : n \in 0 .. MaxEvents}
                               <=> s \in Seq(Index) /\ Len(s) \in 0 .. MaxEvents
BY Bounded, BoundAssumption

\* An event becomes a tool request or a model step.
LEMMA EventUsed ==
  ASSUME NEW made \in Nat, NEW added \in Nat, NEW todo \in Nat, NEW k \in Nat,
         made + added + todo <= k, todo # 0
  PROVE  /\ made + (added + 1) + (todo - 1) <= k
         /\ made + 1 \in 0 .. k
         /\ (made + 1) + 0 + (todo - 1) <= k
OBVIOUS

\* A task in a phase of its work is a record of the kind Running.
LEMMA TaskKinds ==
  ASSUME TasksOK, NEW e \in Execution
  PROVE  /\ execution[e].phase \in {"load", "model", "events", "tool"} => execution[e] \in Running
         /\ execution[e].phase \notin {"unused", "none"} => execution[e] \in Running
         /\ Fits(execution[e])
BY DEF TasksOK, Tasks, Over, Unused, Running

\* The sequences of a task.
LEMMA TaskSequences ==
  ASSUME NEW x \in Running
  PROVE  /\ x.todo \in Seq(Event) /\ Len(x.todo) \in 0 .. MaxEvents
         /\ x.added \in Seq(Index) /\ Len(x.added) \in 0 .. MaxEvents
<1>1. /\ x.todo \in UNION {[1 .. n -> Event] : n \in 0 .. MaxEvents}
      /\ x.added \in UNION {[1 .. n -> Index] : n \in 0 .. MaxEvents}
  BY DEF Running
<1> QED BY <1>1, TodoBounded, AddedBounded

\* One task moves on, and the others stay.
LEMMA TaskMoves ==
  ASSUME TasksOK, NEW e \in Execution, NEW y \in Tasks, Fits(y),
         execution' = [execution EXCEPT ![e] = y]
  PROVE  TasksOK'
<1>1. execution' \in [Execution -> Tasks]
  BY DEF TasksOK
<1>2. \A f \in Execution : Fits(execution'[f])
  BY DEF TasksOK
<1> QED BY <1>1, <1>2 DEF TasksOK

\* The step numbers that the code computes are all the same.
LEMMA NextIndexIsZero == StepsOK => NextStepIndex = 0
BY DEF StepsOK, NextStepIndex

\* The outcomes of a tool request are statuses of a ToolCall.
LEMMA OutcomesAreStatuses == CallStatus \subseteq ToolCallStatus
BY DEF CallStatus, ToolCallStatus

\* A ToolCall and its effect are written together.
LEMMA LedgerCommitted ==
  ASSUME IInv, NEW e \in Execution, NEW x \in Running, Fits(x), CommitLedger(e, x),
         log' \subseteq (CallId \X CallStatus)
  PROVE  LedgerOK'
<1>1. LedgerOK
  BY DEF IInv
<1>2. CASE ~x.pending.open
  BY <1>1, <1>2 DEF LedgerOK, EffectsRecorded, CommitLedger
<1>3. CASE x.pending.open
  <2>0. x.pending \in {NoTransaction} \union Transaction
    BY DEF Running
  <2>a. x.pending # NoTransaction
    BY <1>3 DEF NoTransaction
  <2>1. x.pending.call \in ToolCallStatus /\ x.pending.effect \in BOOLEAN
    BY <2>0, <2>a, OutcomesAreStatuses DEF Transaction
  <2>2. <<e, x.made>> \in CallId
    BY <1>3 DEF Fits, Running, CallId
  <2>3. /\ calls' = calls \union {<<<<e, x.made>>, x.pending.call>>}
        /\ effects' \subseteq effects \union {<<e, x.made>>}
    BY <1>3 DEF CommitLedger
  <2>4. calls' \subseteq (CallId \X ToolCallStatus) /\ effects' \subseteq CallId
    BY <1>1, <2>1, <2>2, <2>3 DEF LedgerOK
  <2>5. EffectsRecorded'
    BY <1>1, <2>1, <2>3 DEF LedgerOK, EffectsRecorded
  <2> QED BY <1>1, <2>4, <2>5 DEF LedgerOK
<1> QED BY <1>2, <1>3

\* The steps that a task writes are the one with index 0.
LEMMA StepsWritten ==
  ASSUME StepsOK, NEW x \in Running, Fits(x), NEW s \in {"running", "succeeded"}
  PROVE  /\ WithSteps(x, x.added, s) \in [Index -> StepStatus]
         /\ \A i \in Index : i # 0 => WithSteps(x, x.added, s)[i] = "absent"
<1> DEFINE new(i) == IF \E k \in DOMAIN x.added : x.added[k] = i THEN s
                     ELSE IF x.pending.open /\ i = x.step
                          THEN IF x.pending.call = "succeeded" THEN "succeeded" ELSE "failed"
                          ELSE steps[i]
<1>1. ASSUME NEW i \in Index
      PROVE  new(i) \in StepStatus /\ (i # 0 => new(i) = "absent")
  BY DEF StepsOK, StepStatus, Fits
<1>3. WithSteps(x, x.added, s) = [i \in Index |-> new(i)]
  BY DEF WithSteps
<1> QED BY <1>1, <1>3
-----------------------------------------------------------------------------
(* The steps of a task *)

\* The last commit of a task.
LEMMA Concludes ==
  ASSUME IInv, NEW e \in Execution, NEW x \in Running, Fits(x),
         NEW status \in {"completed", "failed"}, Conclude(e, x, status),
         log' \subseteq (CallId \X CallStatus), UNCHANGED <<request, budget, lost, adrift>>
  PROVE  IInv'
<1>1. TasksOK'
  <2>1. Over \in Tasks /\ Fits(Over)
    BY DEF Tasks, Fits, Over, Running
  <2> QED BY <2>1, TaskMoves DEF IInv, Conclude
<1>2. StepsOK'
  BY StepsWritten DEF IInv, Conclude, StepsOK
<1>3. LedgerOK'
  BY LedgerCommitted DEF IInv, Conclude
<1>4. RestOK'
  BY DEF IInv, RestOK, Conclude, Flush, StoredRun, Running, AgentRunStatus
<1> QED BY <1>1, <1>2, <1>3, <1>4 DEF IInv

\* An exception.
LEMMA RollsBack ==
  ASSUME IInv, NEW e \in Execution, RollBack(e), UNCHANGED <<log, request, budget, lost, adrift>>
  PROVE  IInv'
<1>1. TasksOK'
  <2>1. Over \in Tasks /\ Fits(Over)
    BY DEF Tasks, Fits, Over, Running
  <2> QED BY <2>1, TaskMoves DEF IInv, RollBack
<1>2. StepsOK' /\ LedgerOK'
  BY DEF IInv, RollBack, StepsOK, LedgerOK, EffectsRecorded
<1>3. RestOK'
  BY DEF IInv, RestOK, RollBack, AgentRunStatus
<1> QED BY <1>1, <1>2, <1>3 DEF IInv

\* A step that only moves a task on.
LEMMA OnlyTask ==
  ASSUME IInv, NEW e \in Execution, NEW y \in Running, Fits(y),
         execution' = [execution EXCEPT ![e] = y],
         UNCHANGED <<db, log, request, budget, lost, adrift>>
  PROVE  IInv'
<1>1. TasksOK'
  BY TaskMoves DEF IInv, Tasks
<1>2. StepsOK' /\ LedgerOK' /\ RestOK'
  BY DEF IInv, StepsOK, LedgerOK, EffectsRecorded, RestOK, db
<1> QED BY <1>1, <1>2 DEF IInv

\* A task that loads its run keeps the invariant.
LEMMA LoadStep ==
  ASSUME IInv, NEW e \in Execution, Load(e)
  PROVE  IInv'
<1> DEFINE x == execution[e]
           y == [x EXCEPT !.phase = "model", !.seen = run]
<1>1. x \in Running /\ Fits(x)
  BY TaskKinds DEF IInv, Load
<1>2. y \in Running /\ Fits(y)
  BY <1>1 DEF Running, Fits, IInv, RestOK, Load
<1>3. execution' = [execution EXCEPT ![e] = y]
  BY DEF Load
<1> QED BY <1>2, <1>3, OnlyTask DEF Load
\* No answer has more events than MaxEvents.
LEMMA AnswersFit ==
  ASSUME NEW provider, NEW events \in Answers(provider)
  PROVE  events \in UNION {[1 .. n -> Event] : n \in 0 .. MaxEvents}
<1>1. CASE provider = "structured_stdout"
  BY <1>1, BoundAssumption DEF Answers
<1>2. CASE provider \in {"prompt", "bridge_spike", "fake"}
  <2>1. events = << >> \/ events = <<"message">> \/ events = <<"tool">>
    BY <1>2 DEF Answers
  <2>2. << >> \in Seq(Event) /\ Len(<< >>) = 0
    BY EmptySeq
  <2>3. \A v \in Event : <<v>> \in Seq(Event) /\ Len(<<v>>) = 1
    OBVIOUS
  <2>4. "message" \in Event /\ "tool" \in Event
    BY DEF Event
  <2>5. events \in Seq(Event) /\ Len(events) \in 0 .. 1
    <3>1. CASE events = << >>
      BY <2>2, <3>1
    <3>2. CASE events = <<"message">>
      BY <2>3, <2>4, <3>2
    <3>3. CASE events = <<"tool">>
      BY <2>3, <2>4, <3>3
    <3> QED BY <2>1, <3>1, <3>2, <3>3
  <2>6. Len(events) \in 0 .. MaxEvents
    BY <2>5, BoundAssumption
  <2> QED BY <2>5, <2>6, TodoBounded
<1>3. CASE provider \notin {"structured_stdout", "prompt", "bridge_spike", "fake"}
  BY <1>3 DEF Answers
<1> QED BY <1>1, <1>2, <1>3

\* So does one whose provider answers,
LEMMA ProviderAnswersStep ==
  ASSUME IInv, NEW e \in Execution, ProviderAnswers(e)
  PROVE  IInv'
<1> DEFINE x == execution[e]
<1>1. x \in Running /\ Fits(x)
  BY TaskKinds DEF IInv, ProviderAnswers
<1>2. PICK events \in Answers(x.provider) :
        execution' = [execution EXCEPT ![e] = [x EXCEPT !.phase = "events", !.todo = events]]
  BY DEF ProviderAnswers
<1> DEFINE y == [x EXCEPT !.phase = "events", !.todo = events]
<1>3. events \in UNION {[1 .. n -> Event] : n \in 0 .. MaxEvents}
  BY AnswersFit
<1>4. Len(events) \in 0 .. MaxEvents
  BY <1>3, TodoBounded
<1>5. y \in Running
  BY <1>1, <1>3 DEF Running
<1>6. Fits(y)
  BY <1>1, <1>4, <1>5 DEF Fits, ProviderAnswers
<1> QED BY <1>2, <1>5, <1>6, OnlyTask DEF ProviderAnswers

\* that writes a message of the assistant,
LEMMA AssistantMessageStep ==
  ASSUME IInv, NEW e \in Execution, AssistantMessage(e)
  PROVE  IInv'
<1> DEFINE x == execution[e]
           todo == Tail(x.todo)
           added == Append(x.added, 0)
           y == [x EXCEPT !.todo = todo, !.added = added]
<1>1. x \in Running /\ Fits(x)
  BY TaskKinds DEF IInv, AssistantMessage
<1>2. NextStepIndex = 0
  BY NextIndexIsZero DEF IInv
<1>3. /\ todo \in Seq(Event) /\ Len(todo) = Len(x.todo) - 1
      /\ Len(x.todo) \in 0 .. MaxEvents
  BY <1>1, TaskSequences, HeadTailProperties DEF AssistantMessage
<1>4. /\ added \in Seq(Index) /\ Len(added) = Len(x.added) + 1
      /\ Len(x.added) \in 0 .. MaxEvents
      /\ \A k \in DOMAIN added : added[k] = 0
  <2>1. 0 \in Index /\ x.added \in Seq(Index)
    BY <1>1, TaskSequences, BoundAssumption DEF Index
  <2>2. \A k \in 1 .. Len(x.added) : x.added[k] = 0
    BY <1>1, <2>1, LenProperties DEF Fits
  <2> QED BY <1>1, <2>1, <2>2, TaskSequences, AppendProperties, LenProperties
<1>5. Len(todo) \in 0 .. MaxEvents /\ Len(added) \in 0 .. MaxEvents
  BY <1>1, <1>3, <1>4, EmptySeq, BoundAssumption DEF Fits, Running, AssistantMessage
<1>6. y \in Running
  BY <1>1, <1>3, <1>4, <1>5, TodoBounded, AddedBounded DEF Running
<1>a. /\ x.made \in Nat /\ x.made + Len(x.added) + Len(x.todo) <= MaxEvents
      /\ x.pending.open => x.made >= 1
      /\ x.step = 0 /\ x.phase = "events"
  BY <1>1 DEF Fits, Running, AssistantMessage
<1>b. x.made + Len(added) + Len(todo) <= MaxEvents
  <2>1. Len(x.todo) \in Nat /\ Len(x.added) \in Nat /\ Len(x.todo) # 0 /\ MaxEvents \in Nat
    BY <1>1, <1>3, <1>4, TaskSequences, EmptySeq, BoundAssumption DEF AssistantMessage
  <2>2. x.made + (Len(x.added) + 1) + (Len(x.todo) - 1) <= MaxEvents
    BY <1>a, <2>1, EventUsed
  <2> QED BY <1>3, <1>4, <2>2
<1>c. /\ y.made = x.made /\ y.pending = x.pending /\ y.step = x.step /\ y.phase = x.phase
      /\ y.todo = todo /\ y.added = added
  BY <1>1 DEF Running
<1>7. Fits(y)
  BY <1>4, <1>a, <1>b, <1>c DEF Fits
<1>8. execution' = [execution EXCEPT ![e] = y]
  BY <1>2 DEF AssistantMessage
<1> QED BY <1>6, <1>7, <1>8, OnlyTask DEF AssistantMessage

\* whose provider reports an error,
LEMMA ProviderFailsStep ==
  ASSUME IInv, NEW e \in Execution, ProviderFails(e)
  PROVE  IInv'
<1>1. execution[e] \in Running /\ Fits(execution[e])
  BY TaskKinds DEF IInv, ProviderFails
<1>2. log' \subseteq (CallId \X CallStatus)
  BY DEF IInv, LedgerOK, ProviderFails
<1> QED BY <1>1, <1>2, Concludes DEF ProviderFails

\* that has handled every event,
LEMMA EndsStep ==
  ASSUME IInv, NEW e \in Execution, Ends(e)
  PROVE  IInv'
<1>1. execution[e] \in Running /\ Fits(execution[e])
  BY TaskKinds DEF IInv, Ends
<1>2. log' \subseteq (CallId \X CallStatus)
  BY DEF IInv, LedgerOK, Ends
<1>3. CASE Conclude(e, execution[e], IF execution[e].todo = << >> THEN "completed" ELSE "failed")
  BY <1>1, <1>2, <1>3, Concludes DEF Ends
<1>4. CASE RollBack(e)
  BY <1>4, RollsBack DEF Ends
<1> QED BY <1>3, <1>4 DEF Ends

-----------------------------------------------------------------------------
(* Tool requests *)

\* that records a tool request,
LEMMA ToolRequestStep ==
  ASSUME IInv, NEW e \in Execution, ToolRequest(e)
  PROVE  IInv'
<1> DEFINE x == execution[e]
           y == [x EXCEPT !.phase = "tool", !.todo = Tail(@), !.made = @ + 1,
                          !.previous = x.seen, !.seen = "executing_tool", !.added = << >>,
                          !.step = 0, !.pending = NoTransaction]
<1>1. x \in Running /\ Fits(x)
  BY TaskKinds DEF IInv, ToolRequest
<1>2. NextStepIndex = 0
  BY NextIndexIsZero DEF IInv
<1>3. CASE RollBack(e)
  BY <1>3, RollsBack DEF ToolRequest
<1>4. CASE /\ run' = Flush(StoredRun(x), x.seen, "executing_tool")
           /\ steps' = [WithSteps(x, x.added, "succeeded") EXCEPT ![0] = "running"]
           /\ CommitLedger(e, x)
           /\ execution' = [execution EXCEPT ![e] = y]
  <2>1. /\ Tail(x.todo) \in Seq(Event) /\ Len(Tail(x.todo)) = Len(x.todo) - 1
        /\ Len(x.todo) \in 1 .. MaxEvents /\ Len(x.added) \in 0 .. MaxEvents
    BY <1>1, TaskSequences, HeadTailProperties, EmptySeq DEF ToolRequest
  <2>2. << >> \in Seq(Index) /\ Len(<< >>) = 0 /\ \A k \in DOMAIN << >> : FALSE
    BY EmptySeq
  <2>3. /\ << >> \in UNION {[1 .. n -> Index] : n \in 0 .. MaxEvents}
        /\ Tail(x.todo) \in UNION {[1 .. n -> Event] : n \in 0 .. MaxEvents}
    <3>1. Len(Tail(x.todo)) \in 0 .. MaxEvents /\ 0 \in 0 .. MaxEvents
      BY <2>1, BoundAssumption
    <3> QED BY <2>1, <2>2, <3>1, TodoBounded, AddedBounded
  <2>a. x.made \in Nat /\ x.made + Len(x.added) + Len(x.todo) <= MaxEvents
    BY <1>1 DEF Fits, Running
  <2>4. /\ x.made + 1 \in 0 .. MaxEvents
        /\ (x.made + 1) + 0 + Len(Tail(x.todo)) <= MaxEvents
    <3>1. Len(x.todo) \in Nat /\ Len(x.added) \in Nat /\ Len(x.todo) # 0 /\ MaxEvents \in Nat
      BY <2>1, BoundAssumption
    <3>2. x.made + 1 \in 0 .. MaxEvents /\ (x.made + 1) + 0 + (Len(x.todo) - 1) <= MaxEvents
      BY <2>a, <3>1, EventUsed
    <3> QED BY <2>1, <3>2
  <2>5. y \in Running
    <3>1. 0 \in Index /\ "executing_tool" \in AgentRunStatus
      BY BoundAssumption DEF AgentRunStatus, Index
    <3> QED BY <1>1, <2>3, <2>4, <3>1 DEF Running
  <2>b. /\ y.made = x.made + 1 /\ y.pending = NoTransaction /\ y.step = 0 /\ y.phase = "tool"
        /\ y.todo = Tail(x.todo) /\ y.added = << >>
    BY <1>1 DEF Running
  <2>6. Fits(y)
    BY <2>2, <2>4, <2>a, <2>b DEF Fits, NoTransaction
  <2>7. TasksOK'
    BY <1>4, <2>5, <2>6, TaskMoves DEF IInv, Tasks
  <2>8. StepsOK'
    BY <1>1, <1>4, StepsWritten, BoundAssumption DEF IInv, StepsOK, StepStatus, Index
  <2>9. log' \subseteq (CallId \X CallStatus)
    BY DEF IInv, LedgerOK, ToolRequest
  <2>10. LedgerOK'
    BY <1>1, <1>4, <2>9, LedgerCommitted
  <2>11. RestOK'
    BY <1>1, <1>4 DEF IInv, RestOK, Flush, StoredRun, Running, AgentRunStatus, ToolRequest
  <2> QED BY <2>7, <2>8, <2>10, <2>11 DEF IInv
<1> QED BY <1>2, <1>3, <1>4 DEF ToolRequest

\* or whose tool runs.
LEMMA ToolRunsStep ==
  ASSUME IInv, NEW e \in Execution, ToolRuns(e)
  PROVE  IInv'
<1> DEFINE x == execution[e]
           done(result) == [x EXCEPT !.phase = "events", !.seen = x.previous,
                                     !.pending = [open |-> TRUE, call |-> result[1],
                                                  effect |-> result[2]]]
<1>1. x \in Running /\ Fits(x) /\ x.made \in 1 .. MaxEvents
  BY TaskKinds DEF IInv, ToolRuns, Fits, Running
<1>2. PICK result \in ToolResults :
        /\ LogResult(e, x, result[1])
        /\ IF result[1] = "succeeded"
           THEN /\ execution' = [execution EXCEPT ![e] = done(result)]
                /\ UNCHANGED db
           ELSE Conclude(e, done(result), "failed")
  BY DEF ToolRuns
<1>3. result[1] \in CallStatus /\ result[2] \in BOOLEAN
  <2>1. \E call \in CallStatus, effect \in BOOLEAN : result = <<call, effect>>
    BY Zenon DEF ToolResults, CallStatus
  <2> QED BY <2>1
<1>4. done(result) \in Running
  BY <1>1, <1>3 DEF Running, Transaction
<1>5. Fits(done(result))
  BY <1>1, <1>4 DEF Fits, ToolRuns
<1>6. <<e, x.made>> \in CallId
  BY <1>1 DEF CallId
<1>7. log' \subseteq (CallId \X CallStatus)
  BY <1>2, <1>3, <1>6 DEF LogResult, IInv, LedgerOK
<1>8. CASE result[1] = "succeeded"
  <2>1. TasksOK'
    BY <1>2, <1>4, <1>5, <1>8, TaskMoves DEF IInv, Tasks
  <2>2. StepsOK' /\ LedgerOK'
    BY <1>2, <1>7, <1>8 DEF IInv, StepsOK, LedgerOK, EffectsRecorded, db
  <2>3. RestOK'
    BY <1>2, <1>8 DEF IInv, RestOK, db, ToolRuns
  <2> QED BY <2>1, <2>2, <2>3 DEF IInv
<1>9. CASE result[1] # "succeeded"
  <2>1. Conclude(e, done(result), "failed")
    BY <1>2, <1>9
  <2> QED BY <1>4, <1>5, <1>7, <2>1, Concludes DEF ToolRuns
<1> QED BY <1>8, <1>9
-----------------------------------------------------------------------------
(* HTTP requests, and the server's stop *)

\* A step that leaves the tasks and the ledger alone.
LEMMA OnlyRows ==
  ASSUME IInv, RestOK', StepsOK', UNCHANGED <<calls, effects, log, execution>>
  PROVE  IInv'
BY DEF IInv, TasksOK, LedgerOK, EffectsRecorded

\* A request that begins has read the run, or the index 0 for its step.
LEMMA RequestBegins ==
  ASSUME IInv, NEW t \in Thread, NEW r \in Request, r.op = "step" => r.index = 0,
         Begin(t, r), budget' \in 0 .. MaxRequests
  PROVE  IInv'
<1>1. RestOK'
  BY DEF IInv, RestOK, Begin, db
<1>2. StepsOK'
  BY DEF IInv, StepsOK, Begin, db
<1> QED BY <1>1, <1>2, OnlyRows DEF Begin, db

\* What a thread has read, by the kind of its request.
LEMMA RequestKinds ==
  ASSUME IInv, NEW t \in Thread
  PROVE  /\ request[t].op = "start" => request[t].seen \in AgentRunStatus /\ request[t].provider \in Providers
         /\ request[t].op = "status" => request[t].seen \in AgentRunStatus
         /\ request[t].op = "step" => request[t].index = 0
BY DEF IInv, RestOK, Request, IdleThread

\* A request that ends leaves the others as they are.
LEMMA RequestEnds ==
  ASSUME RestOK, NEW t \in Thread, Finish(t)
  PROVE  /\ request' \in [Thread -> {IdleThread} \union Request]
         /\ \A u \in Thread : request'[u].op = "step" => request'[u].index = 0
BY DEF RestOK, Finish, IdleThread

\* Reading the run to start it keeps the invariant.
LEMMA StartReadStep ==
  ASSUME IInv, NEW t \in Thread, NEW p \in Providers, StartRead(t, p)
  PROVE  IInv'
<1> DEFINE r == [op |-> "start", seen |-> run, provider |-> p]
<1>1. r \in Request /\ r.op = "start"
  BY DEF IInv, RestOK, Request
<1>2. Begin(t, r) /\ budget' \in 0 .. MaxRequests
  BY DEF StartRead, IInv, RestOK
<1> QED BY <1>1, <1>2, RequestBegins

\* So does reading it to set its status,
LEMMA StatusReadStep ==
  ASSUME IInv, NEW t \in Thread, StatusRead(t)
  PROVE  IInv'
<1> DEFINE r == [op |-> "status", seen |-> run]
<1>1. r \in Request /\ r.op = "status"
  BY DEF IInv, RestOK, Request
<1>2. Begin(t, r) /\ budget' \in 0 .. MaxRequests
  BY BoundAssumption DEF StatusRead, IInv, RestOK
<1> QED BY <1>1, <1>2, RequestBegins

\* or to add a step;
LEMMA StepReadStep ==
  ASSUME IInv, NEW t \in Thread, StepRead(t)
  PROVE  IInv'
<1> DEFINE r == [op |-> "step", index |-> NextStepIndex]
<1>1. NextStepIndex = 0
  BY NextIndexIsZero DEF IInv
<1>2. r \in Request /\ r.index = 0
  BY <1>1, BoundAssumption DEF Request, Index
<1>3. Begin(t, r) /\ budget' \in 0 .. MaxRequests
  BY BoundAssumption DEF StepRead, IInv, RestOK
<1> QED BY <1>2, <1>3, RequestBegins

\* A start adds a task that has nothing behind it.
LEMMA NewIsRunning ==
  ASSUME NEW provider \in Providers
  PROVE  NewExecution(provider) \in Running /\ Fits(NewExecution(provider))
<1>1. /\ << >> \in UNION {[1 .. n -> Index] : n \in 0 .. MaxEvents}
      /\ << >> \in UNION {[1 .. n -> Event] : n \in 0 .. MaxEvents}
  <2>1. 0 \in 0 .. MaxEvents
    BY BoundAssumption
  <2> QED BY <2>1, EmptySeq, TodoBounded, AddedBounded
<1>2. "running_model" \in AgentRunStatus /\ 0 \in Index
  BY BoundAssumption DEF AgentRunStatus, Index
<1>3. NewExecution(provider) \in Running
  BY <1>1, <1>2 DEF NewExecution, Running, Index
<1>4. Fits(NewExecution(provider))
  BY EmptySeq, BoundAssumption DEF Fits, NewExecution, NoTransaction
<1> QED BY <1>3, <1>4

\* A start takes a place that was never used, and leaves the other tasks be.
LEMMA StartTakesUnused ==
  ASSUME IInv, NEW t \in Thread, StartWrite(t)
  PROVE  \E e \in Execution, y \in Running :
           /\ execution[e] = Unused
           /\ execution' = [execution EXCEPT ![e] = y] /\ execution'[e] = y
           /\ y.phase = "load" /\ Fits(y)
           /\ \A f \in Execution \ {e} : execution'[f] = execution[f]
<1> DEFINE y == NewExecution(request[t].provider)
<1>1. PICK e \in Execution : execution[e] = Unused /\ execution' = [execution EXCEPT ![e] = y]
  BY DEF StartWrite
<1>2. y \in Running /\ Fits(y) /\ y.phase = "load"
  BY RequestKinds, NewIsRunning DEF StartWrite, NewExecution
<1> HIDE DEF y
<1> QED BY <1>1, <1>2 DEF IInv, TasksOK

\* a start that writes and gives the run a task,
LEMMA StartWriteStep ==
  ASSUME IInv, NEW t \in Thread, StartWrite(t)
  PROVE  IInv'
<1>1. TasksOK'
  BY StartTakesUnused, TaskMoves DEF IInv, Tasks
<1>2. RestOK'
  <2>1. run' \in AgentRunStatus
    BY DEF StartWrite, Flush, IInv, RestOK, AgentRunStatus
  <2> QED BY <2>1, RequestEnds DEF StartWrite, IInv, RestOK
<1>3. StepsOK' /\ LedgerOK'
  BY DEF StartWrite, IInv, StepsOK, LedgerOK, EffectsRecorded
<1> QED BY <1>1, <1>2, <1>3 DEF IInv

\* a status that is written,
LEMMA StatusWriteStep ==
  ASSUME IInv, NEW t \in Thread, StatusWrite(t)
  PROVE  IInv'
<1>1. run' \in AgentRunStatus
  BY TargetAssumption DEF StatusWrite, Flush, IInv, RestOK
<1>2. adrift' \in BOOLEAN
  <2>1. PICK s \in StatusTargets :
          adrift' = IF s = request[t].seen THEN adrift ELSE s \in UnderWay
    BY DEF StatusWrite
  <2>2. CASE s = request[t].seen
    BY <2>1, <2>2 DEF IInv, RestOK
  <2>3. CASE s # request[t].seen
    <3>1. adrift' = (s \in UnderWay)
      BY <2>1, <2>3, Zenon
    <3>2. adrift' = TRUE \/ adrift' = FALSE
      BY <3>1
    <3> QED BY <3>2
  <2> QED BY <2>2, <2>3
<1>4. RestOK'
  BY <1>1, <1>2, RequestEnds DEF StatusWrite, IInv, RestOK
<1>3. StepsOK'
  BY DEF StatusWrite, IInv, StepsOK
<1> QED BY <1>3, <1>4, OnlyRows DEF StatusWrite

\* a step that is added,
LEMMA StepWriteStep ==
  ASSUME IInv, NEW t \in Thread, StepWrite(t)
  PROVE  IInv'
<1>1. request[t].index = 0
  BY RequestKinds DEF StepWrite
<1>2. StepsOK'
  BY <1>1 DEF StepWrite, IInv, StepsOK, StepStatus
<1>3. RestOK'
  BY RequestEnds DEF StepWrite, IInv, RestOK
<1> QED BY <1>2, <1>3, OnlyRows DEF StepWrite

\* a request that is refused,
LEMMA RefuseStep ==
  ASSUME IInv, NEW t \in Thread, Refuse(t)
  PROVE  IInv'
<1>1. RestOK'
  BY RequestEnds DEF Refuse, IInv, RestOK, db
<1>2. StepsOK'
  BY DEF Refuse, IInv, StepsOK, db
<1> QED BY <1>1, <1>2, OnlyRows DEF Refuse, db

\* a ToolCall whose status is set,
LEMMA SetCallStatusStep ==
  ASSUME IInv, SetCallStatus
  PROVE  IInv'
<1>1. PICK call \in calls, s \in ToolCallStatus : calls' = (calls \ {call}) \union {<<call[1], s>>}
  BY DEF SetCallStatus
<1>2. calls \subseteq (CallId \X ToolCallStatus)
  BY DEF IInv, LedgerOK
<1>3. calls' \subseteq (CallId \X ToolCallStatus)
  BY <1>1, <1>2
<1>4. EffectsRecorded'
  <2> SUFFICES ASSUME NEW id \in effects PROVE \E c \in ToolCallStatus : <<id, c>> \in calls'
    BY DEF EffectsRecorded, SetCallStatus
  <2>1. PICK c \in ToolCallStatus : <<id, c>> \in calls
    BY DEF IInv, LedgerOK, EffectsRecorded
  <2>2. CASE <<id, c>> = call
    BY <1>1, <2>2
  <2>3. CASE <<id, c>> # call
    BY <1>1, <2>1, <2>3
  <2> QED BY <2>2, <2>3
<1>5. LedgerOK'
  BY <1>3, <1>4 DEF SetCallStatus, IInv, LedgerOK
<1>6. RestOK'
  BY BoundAssumption DEF SetCallStatus, IInv, RestOK
<1>7. TasksOK' /\ StepsOK'
  BY DEF SetCallStatus, IInv, TasksOK, StepsOK
<1> QED BY <1>5, <1>6, <1>7 DEF IInv

\* a task that is lost,
LEMMA TaskLostStep ==
  ASSUME IInv, NEW e \in Execution, TaskLost(e)
  PROVE  IInv'
<1>1. TasksOK'
  <2>1. Over \in Tasks /\ Fits(Over)
    BY DEF Tasks, Fits, Over, Running
  <2> QED BY <2>1, TaskMoves DEF IInv, TaskLost
<1>2. RestOK'
  BY DEF TaskLost, IInv, RestOK, db
<1>3. StepsOK' /\ LedgerOK'
  BY DEF TaskLost, IInv, StepsOK, LedgerOK, EffectsRecorded, db
<1> QED BY <1>1, <1>2, <1>3 DEF IInv

\* and a stop of the server, which loses the tasks.
LEMMA StopStep ==
  ASSUME IInv, Stop
  PROVE  IInv'
<1>1. TasksOK'
  <2>1. Over \in Tasks /\ Fits(Over)
    BY DEF Tasks, Fits, Over, Running
  <2>2. \A e \in Execution : execution'[e] \in {Over, execution[e]}
    BY DEF Stop
  <2>3. \A e \in Execution : execution'[e] \in Tasks /\ Fits(execution'[e])
    BY <2>1, <2>2 DEF IInv, TasksOK
  <2>4. execution' = [e \in Execution |-> execution'[e]]
    BY DEF Stop
  <2> QED BY <2>3, <2>4 DEF TasksOK
<1>2. RestOK'
  BY DEF Stop, IInv, RestOK, db, IdleThread
<1>3. StepsOK' /\ LedgerOK'
  BY DEF Stop, IInv, StepsOK, LedgerOK, EffectsRecorded, db
<1> QED BY <1>1, <1>2, <1>3 DEF IInv

-----------------------------------------------------------------------------
(* Theorems *)

\* The invariant is inductive.
LEMMA StepKeepsInvariant ==
  /\ Init => IInv
  /\ IInv /\ [Next]_vars => IInv'
<1>1. Init => IInv
  <2> SUFFICES ASSUME Init PROVE IInv
    OBVIOUS
  <2>1. TasksOK
    BY DEF Init, TasksOK, Tasks, Fits, Unused, Running
  <2>2. StepsOK
    BY DEF Init, StepsOK, StepStatus
  <2>3. LedgerOK
    BY DEF Init, LedgerOK, EffectsRecorded
  <2>4. RestOK
    <3>1. adrift \in BOOLEAN
      BY DEF Init
    <3> QED BY <3>1, BoundAssumption DEF Init, RestOK, AgentRunStatus, IdleThread
  <2> QED BY <2>1, <2>2, <2>3, <2>4 DEF IInv
<1>2. IInv /\ [Next]_vars => IInv'
  <2> SUFFICES ASSUME IInv, [Next]_vars PROVE IInv'
    OBVIOUS
  <2>1. ASSUME NEW e \in Execution, Execute(e) PROVE IInv'
    <3>1. CASE Load(e)
      BY <3>1, LoadStep
    <3>2. CASE ProviderAnswers(e)
      BY <3>2, ProviderAnswersStep
    <3>3. CASE ProviderFails(e)
      BY <3>3, ProviderFailsStep
    <3>4. CASE ProviderRaises(e)
      BY <3>4, RollsBack DEF ProviderRaises
    <3>5. CASE AssistantMessage(e)
      BY <3>5, AssistantMessageStep
    <3>6. CASE Ends(e)
      BY <3>6, EndsStep
    <3>7. CASE ToolRequest(e)
      BY <3>7, ToolRequestStep
    <3>8. CASE ToolRuns(e)
      BY <3>8, ToolRunsStep
    <3> QED BY <2>1, <3>1, <3>2, <3>3, <3>4, <3>5, <3>6, <3>7, <3>8 DEF Execute
  <2>2. ASSUME NEW t \in Thread, NEW p \in Providers, StartRead(t, p) PROVE IInv'
    BY <2>2, StartReadStep
  <2>3. ASSUME NEW t \in Thread,
               \/ StartWrite(t) \/ StatusRead(t) \/ StatusWrite(t)
               \/ StepRead(t) \/ StepWrite(t) \/ Refuse(t)
        PROVE  IInv'
    BY <2>3, StartWriteStep, StatusReadStep, StatusWriteStep, StepReadStep, StepWriteStep, RefuseStep
  <2>4. CASE Stop
    BY <2>4, StopStep
  <2>5. CASE SetCallStatus
    BY <2>5, SetCallStatusStep
  <2>6. ASSUME NEW e \in Execution, TaskLost(e) PROVE IInv'
    BY <2>6, TaskLostStep
  <2>7. CASE UNCHANGED vars
    BY <2>7 DEF vars, db, IInv, TasksOK, StepsOK, LedgerOK, EffectsRecorded, RestOK
  <2> QED BY <2>1, <2>2, <2>3, <2>4, <2>5, <2>6, <2>7 DEF Next
<1> QED BY <1>1, <1>2

\* It holds in every state.
LEMMA InvariantHolds == Spec => []IInv
BY StepKeepsInvariant, PTL DEF Spec

\* The run, its steps, its ToolCalls, the tasks and the requests keep their
\* types, however many tasks the run is given and whatever fails.
THEOREM TypeCorrect == Spec => []TypeOK
<1>1. IInv => TypeOK
  BY DEF IInv, TasksOK, Tasks, StepsOK, LedgerOK, RestOK, TypeOK
<1> QED BY <1>1, InvariantHolds, PTL

\* What a tool wrote is never committed without the ToolCall that asked for
\* it (request_owner_tool_call, run_owner_provider_background).
THEOREM EffectsAreRecorded == Spec => []EffectsRecorded
<1>1. IInv => EffectsRecorded
  BY DEF IInv, LedgerOK
<1> QED BY <1>1, InvariantHolds, PTL

\* No AgentRun ever gets a second step: every number that the code computes
\* is 0, and uq_agent_run_step_index refuses it once there is one.
THEOREM OneStepOnly == Spec => [](\A i \in Index : i # 0 => steps[i] = "absent")
<1>1. IInv => \A i \in Index : i # 0 => steps[i] = "absent"
  BY DEF IInv, StepsOK
<1> QED BY <1>1, InvariantHolds, PTL

-----------------------------------------------------------------------------
(* Who moves a task, and to where *)

\* A task moves on its own, by the start that makes it, by its loss, or by the
\* server's stop; the other tasks stay, unless the server stops.
LEMMA WhoMoves ==
  ASSUME [Next]_vars
  PROVE  \/ UNCHANGED execution
         \/ \E e \in Execution : Execute(e)
         \/ \E e \in Execution : TaskLost(e)
         \/ \E t \in Thread : StartWrite(t)
         \/ Stop
BY DEF Next, vars, StartRead, StatusRead, StatusWrite, StepRead, StepWrite, Refuse, Begin,
       SetCallStatus

\* The steps of a task change no other task.
LEMMA OthersStay ==
  ASSUME TasksOK, NEW e \in Execution, Execute(e), NEW f \in Execution \ {e}
  PROVE  execution'[f] = execution[f]
<1>1. CASE Load(e)
  BY <1>1 DEF Load, TasksOK
<1>2. CASE ProviderAnswers(e)
  BY <1>2 DEF ProviderAnswers, TasksOK
<1>3. CASE AssistantMessage(e)
  BY <1>3 DEF AssistantMessage, TasksOK
<1>4. CASE ProviderFails(e) \/ ProviderRaises(e) \/ Ends(e)
  BY <1>4 DEF ProviderFails, ProviderRaises, Ends, Conclude, RollBack, TasksOK
<1>5. CASE ToolRequest(e)
  BY <1>5 DEF ToolRequest, RollBack, TasksOK
<1>6. CASE ToolRuns(e)
  <2>1. \E y : execution' = [execution EXCEPT ![e] = y]
    BY <1>6, Zenon DEF ToolRuns, Conclude
  <2> QED BY <2>1 DEF TasksOK
<1> QED BY <1>1, <1>2, <1>3, <1>4, <1>5, <1>6 DEF Execute

\* The ways in which a task x goes on as y.
Loaded(x, y) == y = [x EXCEPT !.phase = "model", !.seen = run]

Answered(x, y) == \E events \in Seq(Event) :
                    /\ Len(events) <= MaxEvents
                    /\ y = [x EXCEPT !.phase = "events", !.todo = events]

Messaged(x, y) == y = [x EXCEPT !.todo = Tail(@), !.added = Append(@, NextStepIndex)]

Requested(x, y) == y = [x EXCEPT !.phase = "tool", !.todo = Tail(@), !.made = @ + 1,
                                 !.previous = x.seen, !.seen = "executing_tool",
                                 !.added = << >>, !.step = NextStepIndex,
                                 !.pending = NoTransaction]

Ran(x, y, result) == y = [x EXCEPT !.phase = "events", !.seen = x.previous,
                                   !.pending = [open |-> TRUE, call |-> result[1],
                                                effect |-> result[2]]]

\* A step of a task ends it, or brings it one phase or one event further.
LEMMA TaskTurns ==
  ASSUME IInv, NEW e \in Execution, Execute(e)
  PROVE  /\ execution[e] \in Running
         /\ \/ execution'[e] = Over
            \/ Load(e) /\ Loaded(execution[e], execution'[e])
            \/ ProviderAnswers(e) /\ Answered(execution[e], execution'[e])
            \/ AssistantMessage(e) /\ Messaged(execution[e], execution'[e])
            \/ /\ ToolRequest(e) /\ Requested(execution[e], execution'[e])
               /\ CommitLedger(e, execution[e])
            \/ /\ ToolRuns(e) /\ UNCHANGED db
               /\ \E result \in ToolResults : /\ Ran(execution[e], execution'[e], result)
                                              /\ LogResult(e, execution[e], result[1])
<1> DEFINE x == execution[e]
           y == execution'[e]
<1>1. x \in Running
  <2>1. ASSUME ToolRequest(e) \/ ToolRuns(e)
        PROVE  x.phase \in {"load", "model", "events", "tool"}
    <3>1. x.phase = "tool" \/ x.phase = "events"
      BY <2>1, Zenon DEF ToolRequest, ToolRuns
    <3> QED BY <3>1
  <2>2. ASSUME \/ Load(e) \/ ProviderAnswers(e) \/ ProviderFails(e) \/ ProviderRaises(e)
               \/ AssistantMessage(e) \/ Ends(e)
        PROVE  x.phase \in {"load", "model", "events", "tool"}
    BY <2>2 DEF Load, ProviderAnswers, ProviderFails, ProviderRaises, AssistantMessage, Ends
  <2>3. x.phase \in {"load", "model", "events", "tool"}
    BY <2>1, <2>2 DEF Execute
  <2> QED BY <2>3, TaskKinds DEF IInv
<1>2. execution \in [Execution -> Tasks]
  BY DEF IInv, TasksOK
<1>3. ASSUME ProviderFails(e) \/ ProviderRaises(e) \/ Ends(e)
      PROVE  y = Over
  BY <1>2, <1>3 DEF ProviderFails, ProviderRaises, Ends, Conclude, RollBack
<1>4. ASSUME Load(e)
      PROVE  Loaded(x, y)
  BY <1>1, <1>2, <1>4 DEF Load, Loaded
<1>5. ASSUME ProviderAnswers(e)
      PROVE  Answered(x, y)
  <2>1. PICK events \in Answers(x.provider) :
          execution' = [execution EXCEPT ![e].phase = "events", ![e].todo = events]
    BY <1>5 DEF ProviderAnswers
  <2>2. y = [x EXCEPT !.phase = "events", !.todo = events]
    BY <1>1, <1>2, <2>1
  <2>3. events \in Seq(Event) /\ Len(events) <= MaxEvents
    <3>1. events \in Seq(Event) /\ Len(events) \in 0 .. MaxEvents
      BY AnswersFit, TodoBounded
    <3> QED BY <3>1, BoundAssumption
  <2> HIDE DEF x, y
  <2> QED BY <2>2, <2>3, Zenon DEF Answered
<1>6. ASSUME AssistantMessage(e)
      PROVE  Messaged(x, y)
  BY <1>1, <1>2, <1>6 DEF AssistantMessage, Messaged
<1>7. ASSUME ToolRequest(e), y # Over
      PROVE  Requested(x, y) /\ CommitLedger(e, x)
  BY <1>2, <1>7 DEF ToolRequest, RollBack, Requested
<1>8. ASSUME ToolRuns(e), y # Over
      PROVE  /\ UNCHANGED db
             /\ \E result \in ToolResults : Ran(x, y, result) /\ LogResult(e, x, result[1])
  <2> DEFINE done(result) == [x EXCEPT !.phase = "events", !.seen = x.previous,
                                       !.pending = [open |-> TRUE, call |-> result[1],
                                                    effect |-> result[2]]]
  <2>1. PICK result \in ToolResults :
          /\ LogResult(e, x, result[1])
          /\ \/ execution' = [execution EXCEPT ![e] = done(result)] /\ UNCHANGED db
             \/ Conclude(e, done(result), "failed")
    BY <1>8, Zenon DEF ToolRuns
  <2> HIDE DEF done
  <2>2. y = done(result) /\ UNCHANGED db
    BY <1>2, <1>8, <2>1 DEF Conclude
  <2>3. Ran(x, y, result)
    BY <2>2 DEF Ran, done
  <2> HIDE DEF x, y
  <2> QED BY <2>1, <2>2, <2>3
<1> HIDE DEF x, y
<1>9. \/ y = Over
      \/ Load(e) \/ ProviderAnswers(e) \/ AssistantMessage(e)
      \/ ToolRequest(e) /\ y # Over
      \/ ToolRuns(e) /\ y # Over
  BY <1>3 DEF Execute
<1> QED BY <1>1, <1>4, <1>5, <1>6, <1>7, <1>8, <1>9 DEF x, y

\* A loss ends its task, and the others stay.
LEMMA LossEnds ==
  ASSUME TasksOK, NEW e \in Execution, TaskLost(e)
  PROVE  /\ execution[e] \in Running /\ execution'[e] = Over
         /\ \A f \in Execution \ {e} : execution'[f] = execution[f]
BY TaskKinds DEF TaskLost, TasksOK

\* The server's stop ends every task that is under way.
LEMMA StopEnds ==
  ASSUME TasksOK, Stop, NEW e \in Execution
  PROVE  execution'[e] = IF execution[e] \in Running THEN Over ELSE execution[e]
BY DEF Stop, TasksOK, Tasks, Over, Unused, Running

-----------------------------------------------------------------------------
(* No task goes on for ever *)

\* What is left to a task: phases, and events of its answer.
Left(x) == CASE x.phase = "unused" -> 2 * MaxEvents + 5
             [] x.phase = "load"   -> 2 * MaxEvents + 4
             [] x.phase = "model"  -> 2 * MaxEvents + 3
             [] x.phase = "tool"   -> 2 * Len(x.todo) + 2
             [] x.phase = "events" -> 2 * Len(x.todo) + 1
             [] x.phase = "none"   -> 0

\* What the phases leave to a task.
LEMMA LeftIs ==
  ASSUME NEW x
  PROVE  /\ x.phase = "unused" => Left(x) = 2 * MaxEvents + 5
         /\ x.phase = "load" => Left(x) = 2 * MaxEvents + 4
         /\ x.phase = "model" => Left(x) = 2 * MaxEvents + 3
         /\ x.phase = "tool" => Left(x) = 2 * Len(x.todo) + 2
         /\ x.phase = "events" => Left(x) = 2 * Len(x.todo) + 1
         /\ x.phase = "none" => Left(x) = 0
BY DEF Left

\* A task that is under way has something left.
LEMMA LeftOfRunning ==
  ASSUME NEW x \in Running
  PROVE  Left(x) \in Nat \ {0} /\ Len(x.todo) \in Nat
<1>1. x.phase \in {"load", "model", "events", "tool"}
  BY DEF Running
<1>2. Len(x.todo) \in Nat
  BY TaskSequences
<1> QED BY <1>1, <1>2, LeftIs, BoundAssumption

\* Every step of a background task leaves it less to do, whatever the provider
\* answers, whatever its tools return and whoever else runs: no task has more than
\* 2 * MaxEvents + 5 steps, and none begins again (run_owner_provider_background).
THEOREM TasksAdvance ==
  Spec => [][\A e \in Execution :
               execution'[e] # execution[e] => Left(execution'[e]) < Left(execution[e])]_vars
<1>1. ASSUME IInv, Next, NEW e \in Execution, execution'[e] # execution[e]
      PROVE  Left(execution'[e]) < Left(execution[e])
  <2> DEFINE x == execution[e]
             y == execution'[e]
  <2>0. [Next]_vars
    BY <1>1
  <2>1. ASSUME x \in Running, y = Over
        PROVE  Left(y) < Left(x)
    BY <2>1, LeftIs, LeftOfRunning DEF Over
  <2>2. ASSUME NEW f \in Execution, Execute(f)
        PROVE  Left(y) < Left(x)
    <3>1. f = e
      BY <1>1, <2>2, OthersStay DEF IInv
    <3>2. x \in Running
      BY <1>1, <2>2, <3>1, TaskTurns
    <3>3. CASE Load(e) /\ Loaded(x, y)
      <4>1. x.phase = "load"
        BY <3>3, Zenon DEF Load
      <4>2. y.phase = "model"
        BY <3>2, <3>3 DEF Loaded, Running
      <4> QED BY <4>1, <4>2, LeftIs, BoundAssumption
    <3>4. CASE ProviderAnswers(e) /\ Answered(x, y)
      <4>1. x.phase = "model" /\ Left(x) = 2 * MaxEvents + 3
        BY <3>2, <3>4, LeftIs DEF ProviderAnswers
      <4>2. PICK events \in Seq(Event) :
              Len(events) <= MaxEvents /\ y = [x EXCEPT !.phase = "events", !.todo = events]
        BY <3>4, Zenon DEF Answered
      <4>3. y.phase = "events" /\ y.todo = events
        BY <3>2, <4>2 DEF Running
      <4>4. Left(y) = 2 * Len(events) + 1
        BY <4>3, LeftIs
      <4>5. Len(events) \in Nat
        OBVIOUS
      <4> QED BY <4>1, <4>2, <4>4, <4>5, BoundAssumption
    <3>5. ASSUME x.todo # << >>, x.phase = "events", y.todo = Tail(x.todo),
                 y.phase \in {"events", "tool"}
          PROVE  Left(y) < Left(x)
      <4>1. x.todo \in Seq(Event) /\ Len(x.todo) \in Nat /\ Len(x.todo) # 0
        BY <3>2, <3>5, TaskSequences, EmptySeq
      <4>2. Len(y.todo) = Len(x.todo) - 1
        BY <3>5, <4>1, HeadTailProperties
      <4>3. \/ Left(y) = 2 * Len(y.todo) + 1
            \/ Left(y) = 2 * Len(y.todo) + 2
        <5>1. CASE y.phase = "events"
          BY <5>1, LeftIs
        <5>2. CASE y.phase = "tool"
          BY <5>2, LeftIs
        <5> QED BY <3>5, <5>1, <5>2
      <4>4. Left(x) = 2 * Len(x.todo) + 1
        BY <3>5, LeftIs
      <4> QED BY <4>1, <4>2, <4>3, <4>4
    <3>6. CASE AssistantMessage(e) /\ Messaged(x, y)
      BY <3>2, <3>5, <3>6 DEF AssistantMessage, Messaged, Running
    <3>7. CASE ToolRequest(e) /\ Requested(x, y)
      <4>1. x.todo # << >> /\ x.phase = "events"
        BY <3>7, Zenon DEF ToolRequest
      <4>2. y.todo = Tail(x.todo) /\ y.phase = "tool"
        BY <3>2, <3>7 DEF Requested, Running
      <4> QED BY <3>5, <4>1, <4>2
    <3>8. ASSUME ToolRuns(e), NEW result \in ToolResults, Ran(x, y, result)
          PROVE  Left(y) < Left(x)
      <4>1. x.phase = "tool" /\ Left(x) = 2 * Len(x.todo) + 2 /\ Len(x.todo) \in Nat
        <5>1. x.phase = "tool"
          BY <3>8, Zenon DEF ToolRuns
        <5> QED BY <3>2, <5>1, LeftIs, LeftOfRunning
      <4>2. y.phase = "events" /\ y.todo = x.todo
        BY <3>2, <3>8 DEF Ran, Running
      <4>3. Left(y) = 2 * Len(x.todo) + 1
        BY <4>2, LeftIs
      <4> QED BY <4>1, <4>3
    <3> HIDE DEF x, y
    <3>9. \/ y = Over
          \/ Load(e) /\ Loaded(x, y)
          \/ ProviderAnswers(e) /\ Answered(x, y)
          \/ AssistantMessage(e) /\ Messaged(x, y)
          \/ ToolRequest(e) /\ Requested(x, y)
          \/ ToolRuns(e) /\ \E result \in ToolResults : Ran(x, y, result)
      BY <1>1, <2>2, <3>1, TaskTurns DEF x, y
    <3> QED BY <2>1, <3>2, <3>3, <3>4, <3>6, <3>7, <3>8, <3>9
  <2>3. ASSUME NEW t \in Thread, StartWrite(t)
        PROVE  Left(y) < Left(x)
    <3>1. PICK f \in Execution, z \in Running :
            /\ execution[f] = Unused /\ execution'[f] = z /\ z.phase = "load"
            /\ \A g \in Execution \ {f} : execution'[g] = execution[g]
      BY <1>1, <2>3, StartTakesUnused
    <3>2. f = e
      BY <1>1, <3>1
    <3> QED BY <3>1, <3>2, LeftIs, BoundAssumption DEF Unused
  <2>4. CASE Stop
    BY <1>1, <2>1, <2>4, StopEnds DEF IInv
  <2>5. ASSUME NEW f \in Execution, TaskLost(f)
        PROVE  Left(y) < Left(x)
    BY <1>1, <2>1, <2>5, LossEnds DEF IInv
  <2> QED BY <1>1, <2>0, <2>2, <2>3, <2>4, <2>5, WhoMoves
<1>2. IInv /\ [Next]_vars =>
        [\A e \in Execution :
           execution'[e] # execution[e] => Left(execution'[e]) < Left(execution[e])]_vars
  BY <1>1
<1> QED BY <1>2, InvariantHolds, PTL DEF Spec

-----------------------------------------------------------------------------
(* One transaction at a time *)

\* A task whose last tool request is not committed: it holds SQLite's write lock.
Open(x) == x.phase = "events" /\ x.pending.open

OneOpen == \A e, f \in Execution : Open(execution[e]) /\ Open(execution[f]) => e = f

\* Nothing is pending before the first tool request.
LEMMA NothingPending ==
  ASSUME TasksOK, NEW e \in Execution, execution[e].phase \in {"load", "model"}
  PROVE  execution[e] \in Running /\ ~execution[e].pending.open
BY TaskKinds DEF Fits, Running

\* A transaction is opened by the tool that runs, when no other task has one.
LEMMA OpensAlone ==
  ASSUME IInv, [Next]_vars, NEW e \in Execution, Open(execution'[e]), ~Open(execution[e])
  PROVE  \A f \in Execution \ {e} : execution'[f] = execution[f] /\ ~Open(execution[f])
<1> DEFINE x == execution[e]
           y == execution'[e]
<1>1. CASE UNCHANGED execution
  BY <1>1
<1>2. ASSUME NEW t \in Thread, StartWrite(t)
      PROVE  FALSE
  <2>1. PICK f \in Execution, z \in Running :
          /\ execution'[f] = z /\ z.phase = "load"
          /\ \A g \in Execution \ {f} : execution'[g] = execution[g]
    BY <1>2, StartTakesUnused
  <2> QED BY <2>1 DEF Open
<1>3. ASSUME Stop
      PROVE  FALSE
  BY <1>3, StopEnds DEF IInv, Open, Over
<1>6. ASSUME NEW g \in Execution, TaskLost(g)
      PROVE  FALSE
  BY <1>6, LossEnds DEF IInv, Open, Over
<1>4. ASSUME NEW g \in Execution, Execute(g)
      PROVE  g = e /\ ToolRuns(e)
  <2>1. g = e
    BY <1>4, OthersStay DEF IInv
  <2>2. x \in Running
    BY <1>4, <2>1, TaskTurns
  <2>3. ASSUME Load(e), Loaded(x, y) PROVE FALSE
    BY <2>2, <2>3 DEF Loaded, Open, Running
  <2>4. ASSUME ProviderAnswers(e), Answered(x, y) PROVE FALSE
    <3>1. ~x.pending.open
      BY <2>4, NothingPending DEF ProviderAnswers, IInv
    <3>2. y.pending = x.pending
      BY <2>2, <2>4 DEF Answered, Running
    <3> QED BY <3>1, <3>2 DEF Open
  <2>5. ASSUME AssistantMessage(e), Messaged(x, y) PROVE FALSE
    BY <2>2, <2>5 DEF Messaged, Open, Running
  <2>6. ASSUME ToolRequest(e), Requested(x, y) PROVE FALSE
    BY <2>2, <2>6 DEF Requested, Open, Running
  <2>7. y # Over
    BY DEF Open, Over
  <2> HIDE DEF x, y
  <2>8. \/ y = Over
        \/ Load(e) /\ Loaded(x, y)
        \/ ProviderAnswers(e) /\ Answered(x, y)
        \/ AssistantMessage(e) /\ Messaged(x, y)
        \/ ToolRequest(e) /\ Requested(x, y)
        \/ ToolRuns(e)
    BY <1>4, <2>1, TaskTurns DEF x, y
  <2> QED BY <2>1, <2>3, <2>4, <2>5, <2>6, <2>7, <2>8
<1>5. ASSUME ToolRuns(e), NEW f \in Execution \ {e}
      PROVE  execution'[f] = execution[f] /\ ~Open(execution[f])
  <2>1. execution'[f] = execution[f]
    BY <1>5, OthersStay DEF IInv, Execute
  <2>2. ~Locked(e)
    BY <1>5, Zenon DEF ToolRuns
  <2> QED BY <1>5, <2>1, <2>2 DEF Locked, Open
<1> QED BY <1>1, <1>2, <1>3, <1>4, <1>5, <1>6, WhoMoves

\* Of all the tasks of the run, one at most has a transaction open: the lock that it
\* holds from its tool to its next commit keeps every other tool from running
\* (request_owner_tool_call).
THEOREM OneTransaction == Spec => []OneOpen
<1>1. Init => OneOpen
  BY DEF Init, OneOpen, Open, Unused
<1>2. IInv /\ OneOpen /\ [Next]_vars => OneOpen'
  <2> SUFFICES ASSUME IInv, OneOpen, [Next]_vars, NEW e \in Execution, NEW f \in Execution,
                      Open(execution'[e]), Open(execution'[f])
               PROVE  e = f
    BY DEF OneOpen
  <2>1. CASE Open(execution[e]) /\ Open(execution[f])
    BY <2>1 DEF OneOpen
  <2>2. CASE ~Open(execution[e])
    BY <2>2, OpensAlone
  <2>3. CASE ~Open(execution[f])
    BY <2>3, OpensAlone
  <2> QED BY <2>1, <2>2, <2>3
<1> QED BY <1>1, <1>2, InvariantHolds, PTL DEF Spec

-----------------------------------------------------------------------------
(* One outcome per call *)

Told == calls \union log

\* What is told of a task's calls: of none before it is given a place, of none that
\* it has not made, of none whose tool still runs; and what the session log may
\* already say of the last one is what the ledger is going to say.
ToldOK(e) ==
  LET x == execution[e]
  IN  /\ x = Unused => \A a \in Told : a[1][1] # e
      /\ x \in Running =>
           /\ \A a \in Told : a[1][1] = e => a[1][2] <= x.made
           /\ x.phase = "tool" => \A a \in Told : a[1] # <<e, x.made>>
           /\ Open(x) => /\ \A a \in calls : a[1] # <<e, x.made>>
                         /\ \A a \in log : a[1] = <<e, x.made>> => a[2] = x.pending.call

ToldInv == \A e \in Execution : ToldOK(e)

\* What a step tells of a call is all that is told of it.
TellsTheSame == \A new \in (calls' \ calls) \union (log' \ log), told \in calls' \union log' :
                  new[1] = told[1] => new = told

\* Every entry is of a call, and of one of the statuses of a call.
LEMMA ToldKinds ==
  ASSUME IInv, NEW a \in Told
  PROVE  \E e \in Execution, n \in 1 .. MaxEvents, c \in ToolCallStatus : a = <<<<e, n>>, c>>
BY OutcomesAreStatuses DEF IInv, LedgerOK, Told, CallId

\* A step that tells nothing new leaves the tasks that stay as they are.
LEMMA NothingTold ==
  ASSUME ToldInv, NEW e \in Execution, UNCHANGED <<calls, log>>, execution'[e] = execution[e]
  PROVE  ToldOK(e)'
BY DEF ToldInv, ToldOK, Told

\* What is told of one task's call is nothing to another task.
LEMMA ToldOfAnother ==
  ASSUME ToldInv, NEW e \in Execution, NEW f \in Execution \ {e}, execution'[f] = execution[f],
         calls \subseteq calls', log \subseteq log',
         \A a \in Told' : a \in Told \/ a[1][1] = e,
         \A a \in calls' : a \in calls \/ a[1][1] = e,
         \A a \in log' : a \in log \/ a[1][1] = e
  PROVE  ToldOK(f)'
<1>1. ToldOK(f)
  BY DEF ToldInv
<1>2. \A a : a[1] = <<f, execution[f].made>> => a[1][1] # e
  OBVIOUS
<1> QED BY <1>1, <1>2 DEF ToldOK

\* A task that goes on and tells nothing, and has pending what it had or nothing.
LEMMA GoesOnQuietly ==
  ASSUME ToldInv, NEW e \in Execution, execution[e] \in Running, execution'[e] \in Running,
         UNCHANGED <<calls, log>>, execution'[e].made = execution[e].made,
         execution'[e].phase # "tool",
         \/ ~execution'[e].pending.open
         \/ Open(execution[e]) /\ execution'[e].pending = execution[e].pending
  PROVE  ToldOK(e)'
<1>1. execution'[e] # Unused
  BY DEF Running, Unused
<1> QED BY <1>1 DEF ToldInv, ToldOK, Told, Open

\* A task that is over has told all it knows.
LEMMA OverTellsNothing ==
  ASSUME NEW e \in Execution, execution'[e] = Over
  PROVE  ToldOK(e)'
BY DEF ToldOK, Over, Unused, Running

\* A step tells only of calls of e.
TellsOnlyOf(e) == /\ calls \subseteq calls' /\ log \subseteq log'
                  /\ \A a \in calls' : a \in calls \/ a[1][1] = e
                  /\ \A a \in log' : a \in log \/ a[1][1] = e

\* The last tool request of a task is settled in the ledger: the session log may
\* have said so before, and says nothing else.
LEMMA CommitTells ==
  ASSUME IInv, ToldInv, NEW e \in Execution, NEW x \in Running, CommitLedger(e, x),
         log \subseteq log',
         \A a \in log' : a \in log \/ (x.pending.open /\ a = <<<<e, x.made>>, x.pending.call>>),
         \A a \in calls : x.pending.open => a[1] # <<e, x.made>>,
         \A a \in log : x.pending.open /\ a[1] = <<e, x.made>> => a[2] = x.pending.call
  PROVE  /\ TellsTheSame /\ TellsOnlyOf(e)
         /\ \A a \in Told' : a \in Told \/ (x.pending.open /\ a = <<<<e, x.made>>, x.pending.call>>)
<1> DEFINE entry == <<<<e, x.made>>, x.pending.call>>
<1>1. /\ \A a \in calls' : a \in calls \/ (x.pending.open /\ a = entry)
      /\ calls \subseteq calls'
  BY DEF CommitLedger
<1>2. \A a \in log' : a \in log \/ (x.pending.open /\ a = entry)
  OBVIOUS
<1>3. entry[1] = <<e, x.made>> /\ entry[2] = x.pending.call /\ entry[1][1] = e
  OBVIOUS
<1>4. \A a \in Told : x.pending.open /\ a[1] = <<e, x.made>> => a = entry
  <2> SUFFICES ASSUME NEW a \in Told, x.pending.open, a[1] = <<e, x.made>> PROVE a = entry
    OBVIOUS
  <2>1. a[2] = x.pending.call
    BY DEF Told
  <2>2. a = <<a[1], a[2]>>
    BY ToldKinds
  <2> QED BY <2>1, <2>2
<1> HIDE DEF entry
<1>5. \A a \in Told' : a \in Told \/ (x.pending.open /\ a = entry)
  BY <1>1, <1>2 DEF Told
<1>6. TellsTheSame
  <2> SUFFICES ASSUME NEW new \in (calls' \ calls) \union (log' \ log), NEW told \in Told',
                      new[1] = told[1]
               PROVE  new = told
    BY DEF TellsTheSame, Told
  <2>1. x.pending.open /\ new = entry
    BY <1>1, <1>2
  <2> QED BY <1>3, <1>4, <1>5, <2>1
<1>7. TellsOnlyOf(e)
  BY <1>1, <1>2, <1>3 DEF TellsOnlyOf
<1> QED BY <1>5, <1>6, <1>7 DEF entry

\* A step that tells nothing tells of no other task.
LEMMA QuietTellsOnly ==
  ASSUME ToldInv, NEW e, UNCHANGED <<calls, log>>
  PROVE  TellsTheSame /\ TellsOnlyOf(e)
BY DEF TellsTheSame, TellsOnlyOf

\* The last commit of a task that is not in a tool.
LEMMA ConcludeTells ==
  ASSUME IInv, ToldInv, NEW e \in Execution, NEW status, Conclude(e, execution[e], status),
         UNCHANGED log, execution[e].phase \in {"model", "events"}
  PROVE  TellsTheSame /\ TellsOnlyOf(e)
<1> DEFINE x == execution[e]
<1>1. x \in Running
  BY TaskKinds DEF IInv
<1>2. CommitLedger(e, x)
  BY DEF Conclude
<1>3. x.pending.open => Open(x)
  BY NothingPending DEF IInv, Open
<1>4. /\ \A a \in calls : x.pending.open => a[1] # <<e, x.made>>
      /\ \A a \in log : x.pending.open /\ a[1] = <<e, x.made>> => a[2] = x.pending.call
  BY <1>1, <1>3 DEF ToldInv, ToldOK
<1>5. log \subseteq log' /\ \A a \in log' : a \in log
  OBVIOUS
<1> HIDE DEF x
<1> QED BY <1>1, <1>2, <1>4, <1>5, CommitTells

\* The tool request commits what the one before it has left, and is a new call.
LEMMA ToolRequestTells ==
  ASSUME IInv, ToldInv, NEW e \in Execution, ToolRequest(e),
         Requested(execution[e], execution'[e]), CommitLedger(e, execution[e])
  PROVE  TellsTheSame /\ TellsOnlyOf(e) /\ ToldOK(e)'
<1> DEFINE x == execution[e]
           y == execution'[e]
<1>1. x.phase = "events" /\ UNCHANGED log
  BY Zenon DEF ToolRequest
<1>2. x \in Running /\ x.made \in Nat
  <2>1. x \in Running
    BY <1>1, TaskKinds DEF IInv
  <2> QED BY <2>1 DEF Running
<1>3. /\ \A a \in calls : x.pending.open => a[1] # <<e, x.made>>
      /\ \A a \in log : x.pending.open /\ a[1] = <<e, x.made>> => a[2] = x.pending.call
      /\ \A a \in Told : a[1][1] = e => a[1][2] <= x.made
  BY <1>1, <1>2 DEF ToldInv, ToldOK, Open
<1>4. log \subseteq log' /\ \A a \in log' : a \in log
  BY <1>1
<1>5. y.phase = "tool" /\ y.made = x.made + 1 /\ y.pending = NoTransaction
  BY <1>2 DEF Requested, Running
<1> HIDE DEF x, y
<1>6. /\ TellsTheSame /\ TellsOnlyOf(e)
      /\ \A a \in Told' : a \in Told \/ (x.pending.open /\ a = <<<<e, x.made>>, x.pending.call>>)
  BY <1>2, <1>3, <1>4, CommitTells DEF x
<1>7. \A a \in Told' : a[1][1] = e => a[1][2] \in Nat /\ a[1][2] <= x.made
  <2> SUFFICES ASSUME NEW a \in Told', a[1][1] = e
               PROVE  a[1][2] \in Nat /\ a[1][2] <= x.made
    OBVIOUS
  <2>1. CASE a \in Told
    BY <1>3, <2>1, ToldKinds
  <2>2. CASE a = <<<<e, x.made>>, x.pending.call>>
    BY <1>2, <2>2
  <2> QED BY <1>6, <2>1, <2>2
<1>8. ~Open(y) /\ y # Unused
  BY <1>5 DEF Open, Unused
<1>9. \A a \in Told' : /\ a[1][1] = e => a[1][2] <= y.made
                       /\ a[1] # <<e, y.made>>
  BY <1>2, <1>5, <1>7
<1> QED BY <1>6, <1>8, <1>9 DEF ToldOK, y

\* The tool runs once: the provider is told its result, and the ledger is told with
\* the next commit, or with this step when it is the last.
LEMMA ToolRunsTells ==
  ASSUME IInv, ToldInv, NEW e \in Execution, ToolRuns(e)
  PROVE  TellsTheSame /\ TellsOnlyOf(e) /\ ToldOK(e)'
<1> DEFINE x == execution[e]
           done(result) == [x EXCEPT !.phase = "events", !.seen = x.previous,
                                     !.pending = [open |-> TRUE, call |-> result[1],
                                                  effect |-> result[2]]]
<1>1. x.phase = "tool" /\ x \in Running /\ x.made \in Nat
  <2>1. x.phase = "tool"
    BY Zenon DEF ToolRuns
  <2>2. x \in Running
    BY <2>1, TaskKinds DEF IInv
  <2> QED BY <2>1, <2>2 DEF Running
<1>2. PICK result \in ToolResults :
        /\ LogResult(e, x, result[1])
        /\ \/ execution' = [execution EXCEPT ![e] = done(result)] /\ UNCHANGED db
           \/ Conclude(e, done(result), "failed")
  BY Zenon DEF ToolRuns
<1> DEFINE z == done(result)
           entry == <<<<e, x.made>>, result[1]>>
<1>3. /\ z \in Running /\ z.made = x.made /\ z.phase = "events"
      /\ z.pending.open /\ z.pending.call = result[1]
  <2>1. result[1] \in CallStatus /\ result[2] \in BOOLEAN
    <3>1. \E call \in CallStatus, effect \in BOOLEAN : result = <<call, effect>>
      BY Zenon DEF ToolResults, CallStatus
    <3> QED BY <3>1
  <2> QED BY <1>1, <2>1 DEF Running, Transaction
<1>4. PICK added \in SUBSET {entry} : log' = log \union added
  <2>1. log' = log \union {entry} \/ log' = log \union {}
    BY <1>2 DEF LogResult
  <2> HIDE DEF entry
  <2> QED BY <2>1
<1>5. /\ \A a \in Told : a[1] # <<e, x.made>>
      /\ \A a \in Told : a[1][1] = e => a[1][2] <= x.made
  BY <1>1 DEF ToldInv, ToldOK
<1> HIDE DEF x, z, done
<1>6. CASE Conclude(e, z, "failed")
  <2>1. CommitLedger(e, z)
    BY <1>6 DEF Conclude
  <2>2. TellsTheSame /\ TellsOnlyOf(e)
    <3>1. log \subseteq log' /\ \A a \in log' : a \in log \/ a = <<<<e, z.made>>, z.pending.call>>
      BY <1>3, <1>4
    <3>2. /\ \A a \in calls : a[1] # <<e, z.made>>
          /\ \A a \in log : a[1] # <<e, z.made>>
      BY <1>3, <1>5 DEF Told
    <3> HIDE DEF entry
    <3> QED BY <1>3, <2>1, <3>1, <3>2, CommitTells
  <2>3. execution'[e] = Over
    BY <1>6 DEF Conclude, IInv, TasksOK
  <2> QED BY <2>2, <2>3, OverTellsNothing
<1>7. CASE execution' = [execution EXCEPT ![e] = z] /\ UNCHANGED db
  <2>1. execution'[e] = z /\ UNCHANGED calls
    BY <1>7 DEF IInv, TasksOK, db
  <2>2. \A a \in Told' : a \in Told \/ a = entry
    BY <1>4, <2>1 DEF Told
  <2>3. entry[1] = <<e, x.made>> /\ entry[1][1] = e /\ entry[1][2] = x.made
    OBVIOUS
  <2> HIDE DEF entry
  <2>4. TellsTheSame
    <3> SUFFICES ASSUME NEW new \in (calls' \ calls) \union (log' \ log), NEW told \in Told',
                        new[1] = told[1]
                 PROVE  new = told
      BY DEF TellsTheSame, Told
    <3>1. new = entry
      BY <1>4, <2>1
    <3> QED BY <1>5, <2>2, <2>3, <3>1
  <2>5. TellsOnlyOf(e)
    BY <1>4, <2>1, <2>3 DEF TellsOnlyOf
  <2>6. \A a \in Told' : a[1][1] = e => a[1][2] <= x.made
    BY <1>1, <1>5, <2>2, <2>3
  <2>7. \A a \in calls' : a[1] # <<e, x.made>>
    BY <1>5, <2>1 DEF Told
  <2>8. \A a \in log' : a[1] = <<e, x.made>> => a = entry
    BY <1>4, <1>5 DEF Told
  <2>9. entry[2] = result[1]
    BY DEF entry
  <2>10. z # Unused
    BY <1>3 DEF Unused
  <2> QED BY <1>3, <2>1, <2>4, <2>5, <2>6, <2>7, <2>8, <2>9, <2>10 DEF ToldOK
<1> QED BY <1>2, <1>6, <1>7 DEF z

\* The steps of a task.
LEMMA ExecuteTells ==
  ASSUME IInv, ToldInv, NEW e \in Execution, Execute(e)
  PROVE  ToldInv' /\ TellsTheSame
<1> DEFINE x == execution[e]
           y == execution'[e]
<1>1. x \in Running /\ y \in Tasks
  <2>1. IInv'
    <3>1. Next
      BY DEF Next
    <3> QED BY <3>1, StepKeepsInvariant
  <2> QED BY <2>1, TaskTurns DEF IInv, TasksOK
<1>2. TellsTheSame /\ TellsOnlyOf(e) /\ ToldOK(e)'
  <2>1. CASE ProviderFails(e) \/ ProviderRaises(e) \/ Ends(e)
    <3>1. y = Over
      BY <2>1 DEF ProviderFails, ProviderRaises, Ends, Conclude, RollBack, IInv, TasksOK
    <3>2. UNCHANGED log
      BY <2>1 DEF ProviderFails, ProviderRaises, Ends
    <3>3. \/ UNCHANGED calls
          \/ /\ \E status : Conclude(e, x, status)
             /\ x.phase \in {"model", "events"}
      BY <2>1 DEF ProviderFails, ProviderRaises, Ends, RollBack
    <3>4. TellsTheSame /\ TellsOnlyOf(e)
      BY <3>2, <3>3, ConcludeTells, QuietTellsOnly
    <3> QED BY <3>1, <3>4, OverTellsNothing
  <2>2. ASSUME y \in Running, UNCHANGED <<calls, log>>, y.made = x.made, y.phase # "tool",
               \/ ~y.pending.open
               \/ Open(x) /\ y.pending = x.pending
        PROVE  TellsTheSame /\ TellsOnlyOf(e) /\ ToldOK(e)'
    BY <1>1, <2>2, GoesOnQuietly, QuietTellsOnly
  <2>3. CASE Load(e)
    <3>1. ~x.pending.open /\ Loaded(x, y) /\ UNCHANGED <<calls, log>>
      <4>1. Loaded(x, y)
        BY <2>3 DEF Load, Loaded, IInv, TasksOK
      <4> QED BY <2>3, <4>1, NothingPending DEF Load, IInv, db
    <3>2. /\ y.made = x.made /\ y.phase = "model" /\ y.pending = x.pending
      BY <1>1, <3>1 DEF Loaded, Running
    <3>3. y \in Running
      BY <1>1, <3>2 DEF Tasks, Over, Unused
    <3> QED BY <2>2, <3>1, <3>2, <3>3
  <2>4. CASE ProviderAnswers(e)
    <3>1. ~x.pending.open /\ UNCHANGED <<calls, log>>
      BY <2>4, NothingPending DEF ProviderAnswers, IInv, db
    <3>2. PICK events : y = [x EXCEPT !.phase = "events", !.todo = events]
      <4>1. PICK events : execution' = [execution EXCEPT ![e].phase = "events", ![e].todo = events]
        BY <2>4 DEF ProviderAnswers
      <4>2. y = [x EXCEPT !.phase = "events", !.todo = events]
        BY <1>1, <4>1 DEF IInv, TasksOK
      <4> HIDE DEF x, y
      <4> QED BY <4>2, Zenon
    <3>3. y.made = x.made /\ y.phase = "events" /\ y.pending = x.pending
      BY <1>1, <3>2 DEF Running
    <3>4. y \in Running
      BY <1>1, <3>3 DEF Tasks, Over, Unused
    <3> QED BY <2>2, <3>1, <3>3, <3>4
  <2>5. CASE AssistantMessage(e)
    <3>1. x.phase = "events" /\ Messaged(x, y) /\ UNCHANGED <<calls, log>>
      BY <2>5 DEF AssistantMessage, Messaged, IInv, TasksOK, db
    <3>2. y.made = x.made /\ y.phase = "events" /\ y.pending = x.pending
      BY <1>1, <3>1 DEF Messaged, Running
    <3>3. y \in Running
      BY <1>1, <3>2 DEF Tasks, Over, Unused
    <3> QED BY <2>2, <3>1, <3>2, <3>3 DEF Open
  <2>6. CASE ToolRequest(e)
    <3>1. CASE RollBack(e)
      <4>1. y = Over /\ UNCHANGED calls
        BY <3>1 DEF RollBack, IInv, TasksOK
      <4>2. UNCHANGED log
        BY <2>6, Zenon DEF ToolRequest
      <4> QED BY <4>1, <4>2, QuietTellsOnly, OverTellsNothing
    <3>2. CASE ~RollBack(e)
      <4>1. Requested(x, y) /\ CommitLedger(e, x)
        BY <2>6, <3>2 DEF ToolRequest, Requested, IInv, TasksOK
      <4> QED BY <2>6, <4>1, ToolRequestTells
    <3> QED BY <3>1, <3>2
  <2>7. CASE ToolRuns(e)
    BY <2>7, ToolRunsTells
  <2> QED BY <2>1, <2>3, <2>4, <2>5, <2>6, <2>7 DEF Execute
<1>3. ASSUME NEW f \in Execution \ {e}
      PROVE  ToldOK(f)'
  <2>1. execution'[f] = execution[f]
    BY OthersStay DEF IInv
  <2> QED BY <1>2, <2>1, ToldOfAnother DEF TellsOnlyOf, Told
<1> QED BY <1>2, <1>3 DEF ToldInv

\* A status that is set by hand changes no call's identity.
LEMMA SetCallStatusTells ==
  ASSUME ToldInv, SetCallStatus
  PROVE  ToldInv'
<1>1. PICK call \in calls, s \in ToolCallStatus : calls' = (calls \ {call}) \union {<<call[1], s>>}
  BY DEF SetCallStatus
<1>2. \A a \in calls' : \E b \in calls : a[1] = b[1]
  BY <1>1
<1>3. UNCHANGED <<execution, log>>
  BY DEF SetCallStatus
<1>4. \A a \in Told' : \E b \in Told : a[1] = b[1]
  BY <1>2, <1>3 DEF Told
<1> SUFFICES ASSUME NEW e \in Execution PROVE ToldOK(e)'
  BY DEF ToldInv
<1>5. ToldOK(e)
  BY DEF ToldInv
<1>6. ASSUME execution[e] = Unused
      PROVE  \A a \in Told' : a[1][1] # e
  BY <1>4, <1>5, <1>6 DEF ToldOK
<1>7. ASSUME execution[e] \in Running
      PROVE  /\ \A a \in Told' : a[1][1] = e => a[1][2] <= execution[e].made
             /\ execution[e].phase = "tool" => \A a \in Told' : a[1] # <<e, execution[e].made>>
             /\ Open(execution[e]) => \A a \in calls' : a[1] # <<e, execution[e].made>>
  BY <1>2, <1>4, <1>5, <1>7 DEF ToldOK
<1> QED BY <1>3, <1>5, <1>6, <1>7 DEF ToldOK, Open

\* What a provider is told of a tool call, and what the ledger is told of it later,
\* is one and the same, whatever fails between the tool and the commit and however
\* often the run is started; only POST /tool-calls/{id}/status writes a ToolCall
\* again (request_owner_tool_call, execute_tool_request, update_tool_call_status).
THEOREM CallsHaveOneOutcome == Spec => OneOutcomePerCall
<1>1. Init => ToldInv
  BY DEF Init, ToldInv, ToldOK, Told, Unused, Running
<1>2. IInv /\ ToldInv /\ [Next]_vars => ToldInv' /\ [SetCallStatus \/ TellsTheSame]_vars
  <2> SUFFICES ASSUME IInv, ToldInv, [Next]_vars PROVE ToldInv' /\ (SetCallStatus \/ TellsTheSame)
    OBVIOUS
  <2>1. ASSUME NEW e \in Execution, Execute(e) PROVE ToldInv' /\ TellsTheSame
    BY <2>1, ExecuteTells
  <2>2. CASE UNCHANGED <<calls, log>> /\ ~\E e \in Execution : Execute(e)
    <3>1. TellsTheSame
      BY <2>2, QuietTellsOnly
    <3>2. ASSUME NEW e \in Execution
          PROVE  ToldOK(e)'
      <4>1. CASE execution'[e] = execution[e]
        BY <2>2, <4>1, NothingTold
      <4>2. ASSUME NEW t \in Thread, StartWrite(t), execution'[e] # execution[e]
            PROVE  ToldOK(e)'
        <5>1. PICK f \in Execution, z \in Running :
                /\ execution[f] = Unused /\ execution'[f] = z /\ z.phase = "load" /\ Fits(z)
                /\ \A g \in Execution \ {f} : execution'[g] = execution[g]
          BY <4>2, StartTakesUnused
        <5>2. f = e
          BY <4>2, <5>1
        <5>3. \A a \in Told' : a[1][1] # e
          BY <2>2, <5>1, <5>2 DEF ToldInv, ToldOK, Told
        <5>4. z # Unused /\ ~Open(z) /\ z.phase # "tool"
          BY <5>1 DEF Unused, Open
        <5> QED BY <5>1, <5>2, <5>3, <5>4 DEF ToldOK
      <4>3. ASSUME Stop \/ \E f \in Execution : TaskLost(f)
            PROVE  ToldOK(e)'
        <5>1. execution'[e] = Over \/ execution'[e] = execution[e]
          BY <4>3, StopEnds, LossEnds DEF IInv
        <5> QED BY <4>1, <5>1, OverTellsNothing
      <4> QED BY <2>2, <4>1, <4>2, <4>3, WhoMoves
    <3> QED BY <3>1, <3>2 DEF ToldInv
  <2>3. CASE SetCallStatus
    BY <2>3, SetCallStatusTells
  <2>4. \/ UNCHANGED <<calls, log>>
        \/ SetCallStatus
        \/ \E e \in Execution : Execute(e)
    BY DEF Next, vars, db, StartRead, StartWrite, StatusRead, StatusWrite, StepRead, StepWrite,
           Refuse, Begin, TaskLost, Stop
  <2> QED BY <2>1, <2>2, <2>3, <2>4
<1>3. [SetCallStatus \/ TellsTheSame]_vars =>
        [\/ SetCallStatus
         \/ \A new \in (calls' \ calls) \union (log' \ log), told \in calls' \union log' :
              new[1] = told[1] => new = told]_vars
  BY DEF TellsTheSame
<1> QED BY <1>1, <1>2, <1>3, InvariantHolds, PTL DEF Spec, OneOutcomePerCall

-----------------------------------------------------------------------------
(* A started run is attended *)

Terminal == {"completed", "failed"}

\* The end of the task x writes the status of the run: it has not loaded the run as
\* one that had ended, or its open transaction has put that status back.
WritesEnd(x) == /\ x \in Running
                /\ x.phase = "load" \/ x.seen \notin Terminal \/ Open(x)

AttendedInv == ~adrift /\ run \in UnderWay => \E e \in Execution : WritesEnd(execution[e])

\* The last commit of a task leaves a status that ends the run, or the one that is
\* there when the task has loaded a run that had ended and has nothing open.
LEMMA ConcludeEnds ==
  ASSUME NEW e, NEW x, NEW status \in Terminal, Conclude(e, x, status)
  PROVE  \/ run' \notin UnderWay
         \/ run' = run /\ x.seen \in Terminal /\ ~x.pending.open
BY DEF Conclude, Flush, StoredRun, Terminal, UnderWay

\* A task that moves on leaves the run in its care.
LEMMA ExecuteKeepsCare ==
  ASSUME NEW e \in Execution, Execute(e)
  PROVE  adrift' = adrift
<1>1. CASE ToolRequest(e) \/ ToolRuns(e)
  BY <1>1, Zenon DEF ToolRequest, ToolRuns
<1> QED BY <1>1 DEF Execute, Load, ProviderAnswers, ProviderFails, ProviderRaises,
                    AssistantMessage, Ends

\* A witness other than the task that moves stays one.
LEMMA OtherAttends ==
  ASSUME IInv, NEW e \in Execution, Execute(e), ~WritesEnd(execution[e]),
         \E f \in Execution : WritesEnd(execution[f])
  PROVE  \E f \in Execution : WritesEnd(execution[f])'
<1>1. PICK f \in Execution : WritesEnd(execution[f])
  OBVIOUS
<1>2. execution'[f] = execution[f]
  BY <1>1, OthersStay DEF IInv
<1> QED BY <1>1, <1>2 DEF WritesEnd, Open

\* The steps of a task.
LEMMA ExecuteAttends ==
  ASSUME IInv, AttendedInv, NEW e \in Execution, Execute(e), ~adrift', run' \in UnderWay
  PROVE  \E f \in Execution : WritesEnd(execution[f])'
<1> DEFINE x == execution[e]
           y == execution'[e]
<1>1. ~adrift /\ execution \in [Execution -> Tasks]
  BY ExecuteKeepsCare DEF IInv, TasksOK
<1>2. x \in Running
  BY TaskTurns
<1>3. ASSUME run' = run, ~WritesEnd(x)
      PROVE  \E f \in Execution : WritesEnd(execution[f])'
  BY <1>1, <1>3, OtherAttends DEF AttendedInv
<1>4. ASSUME run' = run, WritesEnd(x) => WritesEnd(y)
      PROVE  \E f \in Execution : WritesEnd(execution[f])'
  BY <1>3, <1>4 DEF WritesEnd, Open
<1>5. ASSUME NEW status \in Terminal, Conclude(e, x, status), x.phase \in {"model", "events"}
      PROVE  \E f \in Execution : WritesEnd(execution[f])'
  <2>1. run' = run /\ x.seen \in Terminal /\ ~x.pending.open
    BY <1>5, ConcludeEnds
  <2>2. ~WritesEnd(x)
    BY <1>5, <2>1 DEF WritesEnd, Open
  <2> QED BY <1>3, <2>1, <2>2
<1>6. ~RollBack(e)
  BY DEF RollBack, UnderWay
<1>7. CASE ProviderFails(e) \/ ProviderRaises(e) \/ Ends(e)
  <2>1. \E status \in Terminal : Conclude(e, x, status)
    BY <1>6, <1>7 DEF ProviderFails, ProviderRaises, Ends, Terminal
  <2>2. x.phase \in {"model", "events"}
    BY <1>6, <1>7 DEF ProviderFails, ProviderRaises, Ends
  <2> QED BY <1>5, <2>1, <2>2
<1>8. CASE Load(e)
  <2>1. y.seen = run /\ y.phase = "model" /\ run' = run
    BY <1>1, <1>2, <1>8 DEF Load, Running, db
  <2>2. y \in Running
    <3>1. IInv'
      BY <1>8, LoadStep
    <3> QED BY <2>1, <3>1 DEF IInv, TasksOK, Tasks, Over, Unused
  <2> QED BY <1>4, <2>1, <2>2 DEF WritesEnd, UnderWay, Terminal
<1>9. CASE ProviderAnswers(e)
  <2>1. PICK events : y = [x EXCEPT !.phase = "events", !.todo = events]
    <3>1. PICK events : execution' = [execution EXCEPT ![e].phase = "events", ![e].todo = events]
      BY <1>9 DEF ProviderAnswers
    <3>2. y = [x EXCEPT !.phase = "events", !.todo = events]
      BY <1>1, <1>2, <3>1
    <3> HIDE DEF x, y
    <3> QED BY <3>2, Zenon
  <2>2. x.phase = "model" /\ run' = run
    BY <1>9 DEF ProviderAnswers, db
  <2>3. y.seen = x.seen /\ y.phase = "events"
    BY <1>2, <2>1 DEF Running
  <2>4. y \in Running
    <3>1. IInv'
      BY <1>9, ProviderAnswersStep
    <3> QED BY <2>3, <3>1 DEF IInv, TasksOK, Tasks, Over, Unused
  <2> QED BY <1>4, <2>2, <2>3, <2>4 DEF WritesEnd, Open
<1>10. CASE AssistantMessage(e)
  <2>1. Messaged(x, y) /\ x.phase = "events" /\ run' = run
    BY <1>1, <1>10 DEF AssistantMessage, Messaged, db
  <2>2. y.seen = x.seen /\ y.phase = x.phase /\ y.pending = x.pending
    BY <1>2, <2>1 DEF Messaged, Running
  <2>3. y \in Running
    <3>1. IInv'
      BY <1>10, AssistantMessageStep
    <3> QED BY <2>1, <2>2, <3>1 DEF IInv, TasksOK, Tasks, Over, Unused
  <2> QED BY <1>4, <2>1, <2>2, <2>3 DEF WritesEnd, Open
<1>11. CASE ToolRequest(e)
  <2>1. Requested(x, y)
    BY <1>1, <1>6, <1>11 DEF ToolRequest, Requested
  <2>2. y.seen = "executing_tool" /\ y.phase = "tool"
    BY <1>2, <2>1 DEF Requested, Running
  <2>3. y \in Running
    <3>1. IInv'
      BY <1>11, ToolRequestStep
    <3> QED BY <2>2, <3>1 DEF IInv, TasksOK, Tasks, Over, Unused
  <2> QED BY <2>2, <2>3 DEF WritesEnd, Open, Terminal
<1>12. CASE ToolRuns(e)
  <2> DEFINE done(result) == [x EXCEPT !.phase = "events", !.seen = x.previous,
                                       !.pending = [open |-> TRUE, call |-> result[1],
                                                    effect |-> result[2]]]
  <2>1. PICK result \in ToolResults :
          \/ execution' = [execution EXCEPT ![e] = done(result)]
          \/ Conclude(e, done(result), "failed")
    BY <1>12, Zenon DEF ToolRuns
  <2> DEFINE z == done(result)
  <2>2. z.pending.open /\ z.phase = "events"
    BY <1>2 DEF Running
  <2> HIDE DEF z, done
  <2>3. ~Conclude(e, z, "failed")
    BY <2>2, ConcludeEnds DEF Terminal
  <2>4. y = z
    BY <1>1, <2>1, <2>3 DEF z
  <2>5. y \in Running
    <3>1. IInv'
      BY <1>12, ToolRunsStep
    <3> QED BY <2>2, <2>4, <3>1 DEF IInv, TasksOK, Tasks, Over, Unused
  <2> QED BY <2>2, <2>4, <2>5 DEF WritesEnd, Open
<1> QED BY <1>7, <1>8, <1>9, <1>10, <1>11, <1>12 DEF Execute

\* A run whose model or tool is running has a task that will write its end, however
\* many tasks it was given and in whatever order they load it, end and fail: unless,
\* since a request last started it or set another status, a task was lost or such a
\* status was set by hand (run_owner_provider_background, start_agent_run,
\* update_agent_run_status).
THEOREM StartedRunIsAttended == Spec => []RunIsAttended
<1>1. Init => AttendedInv
  BY DEF Init, AttendedInv, UnderWay
<1>2. IInv /\ AttendedInv /\ [Next]_vars => AttendedInv'
  <2> SUFFICES ASSUME IInv, AttendedInv, [Next]_vars, ~adrift', run' \in UnderWay
               PROVE  \E f \in Execution : WritesEnd(execution[f])'
    BY DEF AttendedInv
  <2>1. ASSUME NEW e \in Execution, Execute(e)
        PROVE  \E f \in Execution : WritesEnd(execution[f])'
    BY <2>1, ExecuteAttends
  <2>2. ASSUME NEW t \in Thread, StartWrite(t)
        PROVE  \E f \in Execution : WritesEnd(execution[f])'
    <3>1. PICK f \in Execution, z \in Running : execution'[f] = z /\ z.phase = "load"
      BY <2>2, StartTakesUnused
    <3> QED BY <3>1 DEF WritesEnd
  <2>3. ASSUME UNCHANGED <<run, execution, adrift>>
        PROVE  \E f \in Execution : WritesEnd(execution[f])'
    BY <2>3 DEF AttendedInv, WritesEnd, Open
  <2>4. ASSUME NEW t \in Thread, StatusWrite(t)
        PROVE  \E f \in Execution : WritesEnd(execution[f])'
    <3>1. PICK s \in StatusTargets :
            /\ run' = Flush(run, request[t].seen, s)
            /\ adrift' = IF s = request[t].seen THEN adrift ELSE s \in UnderWay
      BY <2>4 DEF StatusWrite
    <3>2. UNCHANGED <<run, adrift>>
      BY <3>1 DEF Flush
    <3> QED BY <2>3, <2>4, <3>2 DEF StatusWrite
  <2>5. ~Stop /\ \A e \in Execution : ~TaskLost(e)
    BY DEF Stop, TaskLost
  <2>6. \/ \E e \in Execution : Execute(e)
        \/ \E t \in Thread : StartWrite(t) \/ StatusWrite(t)
        \/ UNCHANGED <<run, execution, adrift>>
    BY <2>5 DEF Next, vars, db, StartRead, StatusRead, StepRead, StepWrite, Refuse, Begin,
                SetCallStatus
  <2> QED BY <2>1, <2>2, <2>3, <2>4, <2>6
<1>3. IInv /\ AttendedInv => RunIsAttended
  <2> SUFFICES ASSUME IInv, AttendedInv, ~adrift, run \in UnderWay
               PROVE  \E e \in Execution : execution[e].phase \notin {"unused", "none"}
    BY DEF RunIsAttended
  <2>1. PICK e \in Execution : execution[e] \in Running
    BY DEF AttendedInv, WritesEnd
  <2> QED BY <2>1 DEF Running
<1> QED BY <1>1, <1>2, <1>3, InvariantHolds, PTL DEF Spec

=============================================================================
