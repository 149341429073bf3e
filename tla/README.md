# RiskAgent-BackEnd in TLA+

TLA+ specifications of RiskAgent-BackEnd: how a plan becomes a graph and the graph
is executed, what a run answers, saves and is remembered by, the tools it calls,
the budgets and breakers that limit it, the events, schedules, questions and
messages that reach it, the agents that watch, and the skills and memory that
outlive it. Each part is a module whose actions are the operations of the
Python code; TLC checks it on small instances, and the TLA+ proof system proves
the safety properties of every part for all values of its constants.

Paths below are relative to the repository. The implementation is
`src/riskagent_backend/`, abbreviated `rb/`; its documents are under `docs/` and
`src/docs/`. The file `PROJECT.json` maps every definition to the lines it
models, and lists the hazards of the code with the properties about them.

## How to run

    tlasany MessageBus.tla                              # parse
    tlc -workers 2 -config MCEvents.cfg MCEvents        # model-check
    tlapm EventProofs.tla                               # check the proofs

Each `MC*.cfg` names its module; `MCRuntimeTaskShared.cfg` and
`MCRuntimeTaskTrace.cfg`, for instance, are configurations of `MCRuntimeTask`. A
comment `Mutant` marks a definition that no action uses: it is a plausible mistake
in the operator next to it, and putting it in that operator's place makes TLC
find the property it is meant for violated. That every property has such a
mutant is the evidence that it speaks about the code.

| module | what it is |
| --- | --- |
| `AdmissionPolicy` | abstract: sliding window and slots with a perfect memory |
| `ProactiveBudget` | `ProactiveBudgetManager` and the life of a system-event run around it |
| `DependencyOrder` | abstract: steps finish after what they depend on, and are reset with what depends on them |
| `TaskGraphExecutor` | `execute` and the calls that resume it |
| `TaskGraphContract` | from the orchestrator's answer to the graph that is executed: gates, cycles, replans |
| `RunReport` | approvals through a run, its answer, the context it saves, and the runs that resume it |
| `RunTrace` | the trace of a run, what a client is told before and after a restart, the evaluation and its gate |
| `ToolExecutor` | tool steps on the event loop, their commands in worker threads, the run's call budget |
| `RuntimeTask` | the task record, and the run that writes it through its stages |
| `ProactiveAgent` | the monitor loop of an agent, its beliefs and intentions |
| `MessageBus` | events: acceptance, publication, the moderator, arbitration, the history |
| `MessageDelivery` | messages between agents, with subscribers that await |
| `CronManager` | schedules, the loop that triggers them, start and stop |
| `AgentQuestions` | the ReAct loop of an agent and the questions it asks the user |
| `SkillStore` | skills with their indexes and rows, runs that use and change them, the governor |
| `MemoryStore`, `MemoryReading` | what runs write to the memory; what plans, pages and resumes read |
| `SessionSegments` | the segments a long run is cut into |
| `OrderedItems` | operators: some items of a list, and a stable sort, by their places; used by `TaskGraphContract`, `MemoryReading` and `SessionSegments` |
| `LlmClient` | a question to the model: attempts, tries, cache, embeddings, the replaced resolver |
| `CostGovernance` | usage tracker, cost breaker and token buckets |
| `Perception` | sources, rules, filter, escalation |
| `*Proofs` | the proofs of `ProactiveBudget`, `TaskGraphExecutor` with `TaskGraphContract`, `RunReport` with `RunTrace`, `ToolExecutor`, `RuntimeTask`, `ProactiveAgent` |
| `EventProofs` | the proofs of `CronManager`, `AgentQuestions`, `MessageDelivery`, `MessageBus` |
| `ServiceProofs` | the proofs of `LlmClient`, `MemoryStore`, `MemoryReading`, `CostGovernance`, `SkillStore`, `SessionSegments`, `Perception` |
| `MC*` | values of the constants for TLC; `MCWorkflow`, `MCEvents` and `MCServices` check several modules in one run |

## The system

A request reaches the back end through the REST BFF, a chat gateway, a cron task,
or an agent that noticed something. A *workflow run* recognises the intent,
plans a *task graph*, has it reviewed, executes it and reviews the result.
Everything runs on one asyncio event loop, except tool commands and the
perception's collection, which run in threads.

    REST BFF --submit--> RuntimeTaskStore <---- marks -------------+
                                                                   |
    gateway, cron, agents --events--> MessageBus, ProactiveBudget  |
                                            |  accepted, admitted  |
                                            v                      |
              workflow run: intent, plan (TaskGraphContract), review
                 |        ^                  |                  |
      skills, memory,     | questions        v                  v
      segments, model     | (AskUser)   TaskGraphExecutor    RunReport, RunTrace:
      with its limits     |             (waves, gather)      answer, context, trace
                          v                  |
                         user                v
                                execute_agent_command in threads

    perception --signals--> agent monitor: beliefs, intentions --events--> MessageBus

### Components

| component | state | operations | what makes it hard | what makes it correct |
| --- | --- | --- | --- | --- |
| Proactive budget (`rb/governance/proactive_budget.py`, `start_from_event`) | timestamps, reservations, active runs, failures, circuit deadline | `evaluate_and_reserve`, `release_run`, `_cleanup` | runs suspend between the two while others come and go; old entries are forgotten; a run may leave by an exception | limits hold in every window and order; an open circuit stays open to its deadline; slots come back |
| Task graph contract (`rb/contracts/task_graph.py`, the planning stage) | the plan and the graph of a run | normalise, validate, append a replan | cycles, unknown and missing ids, plans that bring a graph of their own | what is executed can finish; a revision ends what it revises |
| Task graph executor (`rb/orchestration/task_graph_executor.py`) | completed, skipped, remaining, outputs, statuses, resume state | `execute`, resume requests | waves of concurrent steps, conditional edges, resumes in the middle of the graph, decisions that change | nothing runs before its dependencies or outlives them; gates and routes hold after any resumes; no false success; no stall on a good graph |
| Tool steps (`node_executors.py`, `tool_executor.py`) | attempt of each step, threads, run counters | `execute_with_retry`, `execute_once`, `execute_agent_command`, `_reserve_budget` | two nested retry loops, a timeout that cannot stop its thread, counters shared by threads without a lock | no unapproved side effect; a late answer settles nothing; calls are bounded |
| Workflow resume and result builder (`workflow_resume.py`, `workflow_result_builder.py`, memory stages) | approval records, receipts, the saved context | answer, save, decide, resume | a decision travels through a saved context and is read by two gates of a later run | an answer says what was done and allowed; a decision unlocks its own step only |
| Runtime task store and run (`services/runtime_task_store.py`, `rest_bff_service.py`, the `workflow_*` stages) | task records, steps, graph nodes, attached `asyncio.Task` | submit, start, sync, mark, fail, finalize | three vocabularies of statuses, two views of one task, runs that share a record, replans, failures at any stage | a failure stays visible; nothing is left running; both views agree; a submitted task settles on its outcome |
| Run trace and evaluation (`observability/run_trace.py`, `eval/core/`) | traces in memory and in files | snapshot, load, evaluate, gate | writes that fail, restarts, traces that a resume carries on | the same is told before and after a restart; what is evaluated is what was answered |
| BDI agents (`proactive_agents/base.py`, `roles.py`) | beliefs, intentions, monitor task | start, stop, perceive, deliberate, act, clean up | the loop suspends in three places; a window of five beliefs; marks that decide what is forgotten | one alert for a belief; what is lost was crowded out; alerts settle |
| Message bus and events (`message_bus.py`, `contracts/event.py`, `moderator.py`) | subscriptions, histories | publish, send, arbitrate, `_accept_system_event` | check, await, publish; live lists of subscribers | an event is recorded once and after its cause; everyone hears |
| Question manager and ReAct loop (`question_manager.py`, `base.py`) | open questions, the step of each run | ask, answer, cancel, time out, clear | an answer races the timeout, a cancellation and a cleanup | what the agent heard and what is shown agree |
| Cron scheduler (`scheduling/cron_manager.py`) | tasks, last triggers, loop task | create, pause, delete, tick, start, stop | a tick longer than its interval; start during stop | one loop, spaced triggers, nothing due is forgotten |
| Skills (`skills/`) | skills, indexes, rows, usage | retrieve, rate, revise, propose, clean, merge, restore | several writers that await an embedding in between | each use counts once; revisions stay; what is injected is fit |
| Memory (`memory/`) | lists, index, table, contexts | append, save, clean up, restore, retrieve, summarize, segment | two calls of one write, time to live, restarts of the process and of Redis | cleanup spares the live; an index finds its contexts; readers are not misled |
| LLM client, cache, tokens (`llm/`) | cache, the process's resolver | ask with attempts and tries, call directly, embed | calls that overlap, fail, leave for want of a key and are cancelled, also while they end | the resolver comes back, or it is known why not, and names can be resolved |
| Cost breaker and governance (`governance/cost_circuit_breaker.py`, `llm/token_tracker.py`, ...) | usage records, cooldown, buckets | record, check, consume | three levels over one window, refill over idle time | no level is passed; buckets give what they refill |
| Perception (`perception/`) | rules | collect, filter, escalate | overlapping thresholds, services that do not answer | the event is the worst of what was seen |
| Gateway (`gateway/`) | known adapters | verify, parse, start a run | redelivery under the same message id | (input of the bus and of the task record) |
| Contracts, data access and services, MCP tools and prompts, base agent, refinement loop, knowledge base, command line and server | rows, texts | validation, queries, output | I/O | not state |

`PROJECT.json` lists each with its sources, says what is modelled or why it is not.

## The modules and the code

### ProactiveBudget, AdmissionPolicy

The manager lives on the event loop and has no `await` inside, so each of its
methods is one step. `Admit` and `Refuse` are `evaluate_and_reserve` with the
`_cleanup` at its start and the blocked result `start_from_event` makes of a
refusal; the reasons are tried in the order of the code (`Refusal`). `Moderated`
and `Finish` are the resumptions of `start_from_event` after the moderator and
after `_run_internal`, the latter with `release_run`. `Abort` is any way out of
`start_from_event` between reservation and release: there is no `finally`.
`Tick` is the clock.

A deque of timestamps is the set of its runs with `reservedAt`, since run ids are
fresh. `release_run` does not clean up first, and neither does `Release`: a
circuit that has expired is reopened by one failure when no event came in
between. The cost circuit breaker, asked last, is a Boolean here and modelled in
`CostGovernance`.

`AdmissionPolicy` states what callers may rely on, without deques: an admission
needs room in the window that ends now and a free slot, and nothing is ever
forgotten. `ImplementsPolicy` is that the pruning manager is never more generous.

### TaskGraphContract

`Orchestrate` is the planning stage: `NormalizeOutput` fills missing ids and builds the
graph from the steps, or keeps the one the answer brought (`NormalizeTaskGraph`), and
`Accepted` is the gates of `normalize_orchestrator_result` with the depth-first search
for cycles: `Visit` is a call of `visit`, `VisitAll` a loop over steps that ends at the
first one found on a cycle, and `HasCycle` the recursive function of all loops. Edges are a set, as
no reader of them depends on their order or counts them twice, and a loop takes its steps in an
arbitrary order. `CriticAccepts`, `CriticRejects` and `Revise`
are the verdict on the base plan and the second plan, which `AppendReplan` renames and
hangs behind every terminal step; `RuntimeReplan` is the third plan, after a failed
execution. What is executed is always rebuilt from the steps (`foreign` remembers
that another graph was validated). `PlansCanFinish` measures what is executed by reference
definitions that know nothing of the search: no set of steps waits for itself, and every way
back from a step of the second plan leads to all the steps that end the first.

### TaskGraphExecutor, DependencyOrder

One behaviour is one run: the first call of `execute` and those that resume it.
`Start` is a call up to its first wave, with the state the call before returned
and the reset of `_should_resume_node`; `Launch` splits the ready steps by their
conditions; `StepEnds` is one coroutine under `asyncio.gather`; `Collect` folds
the results in list order, so that the last result of a kind keeps its mark;
`Stall` is `task_graph_stalled`. `Resume` includes the decision
`apply_approval_decision_to_resume_request` writes into the graph. A data
condition (`truthy:`, `equals:` ...) is a verdict chosen when it is evaluated; the
contents of outputs, receipts and traces are left out. Graphs need not be valid:
`execute` normalizes and does not validate, so cycles and unknown parents are
among the inputs.

`_should_resume_node` walks up the parents recursively; `Affected` is the least
set around the target closed under dependents, which is the same set and is
defined without recursion.

`DependencyOrder` promises that groups of steps finish after everything they
depend on and that a reset takes with it what was built on the steps reset.

### RunReport, RunTrace

`RunReport` is what `TaskGraphExecutor` leaves out: the approval that a step and a command
ask for (`GateShut`, `ApprovalState`), the records and receipts they leave (`Fold`), the answer
made of them (`AnswerTo`), the context that is saved (`ContextOf`), and the run that is started
from it, with or without a decision (`Resumed`, `ResumeRun`). `StartRun`, `Wave`, `RuntimeReplanned`
and `FinishRun` are the stages of a run, one wave at a time; a step completes, fails or is
blocked. A step whose timeout fires has failed and leaves no receipt and no record, while the
command in its thread may have its effect all the same (`Acted`). The failure told of last has a
class or, where an agent itself says that it failed, none, and only one with a class other than
`permission` is replanned (`MayReplan`). A plan on which the executor would stall is excluded
(`PlanAssumption`): that a well-founded graph does not is shown of `TaskGraphExecutor`.

`RunTrace` extends it by what is kept: `RecordTrace` is `save_snapshot` with its cache and its
file, and the settling of the task's record; `Restart` loses the cache and the
records. `TaskDetail` and `ShownGraph` are what `get_task_detail` and
`get_task_graph` make of a record or, without one, of the persisted context. The
second half is the evaluation as functions of snapshots (`CaseSucceeds`, `BehaviorOf`,
`GatePasses`), against every set of the traces written so far.

### ToolExecutor

`Begin`, `Answered` and `TimedOut` are `execute_with_retry` and `execute_once` on
the event loop; `PolicyRefusal` with the other gates (`Check`), `ReadBudget`, `WriteBudget` and
`HandlerEnds` are `execute_agent_command` in the thread of one attempt.
`asyncio.to_thread` cannot be cancelled once the thread has begun: `TimedOut` lets it
run on, beside the thread of the next attempt. `_reserve_budget` reads and writes a
plain dict, so it is two steps, and two threads may both be between them. A command
is what the gates read of it; a handler may return any error, or be given up at
its `timeout_ms`; both retry loops use the step's `retry_budget`, as the code does.
Gates that read the command alone are one step. `admitted`, `raced` and
`handled` are history variables.

### RuntimeTask

A record is what `GET /api/tasks/{id}` and `/graph` show: status, graph status,
the step list, the graph's nodes, the current agent and whether an
`asyncio.Task` is attached. Each operation of `RuntimeTaskStore` is a function of
the record (`Running`, `Synced`, `Started`, `Ended`, `Finalized`, `Failed`), with the
normalisation of its vocabulary (`TaskStatus`, `StepStatus`, `GraphStatus`), and each
stage of a run is an action that applies them in the code's order. The store's
lock is an `asyncio.Lock` and no operation waits while it holds it, so an operation
is one step. `Raise` is a stage that fails, `LoseResult` the failure to write the
run trace afterwards.

A submitted run has an id of its own; `start_from_event` uses the id of its event,
so a redelivered message, or a cron task that fires again, starts a second run on
the same record. Runs that were not submitted are never finalized. Inside
`execute` this module keeps only the order of the callbacks; which steps may form
a wave is the business of `TaskGraphExecutor`, and any subset is allowed here.

### ProactiveAgent, Perception

The loop suspends in the worker thread that collects signals, in
`start_from_event` for the intention being executed, and in its sleep. So
`Perceive` is one step: the beliefs of the round, `_deliberate`, and `_act` up to
its first `await`; `Settle` is the return of `start_from_event`, with the next
intention or, after the last, the cleanup. `TaskBelief` is a task handled by the
same agent meanwhile, `StopBackgroundMonitor` a cancellation at any suspension,
which leaves the intention in hand `executing` for ever. A belief is its number in
the order of `add_belief`; its age stands for `processed_at` and stops at the
retention. Roles differ in what they record of a round: each signal (`watcher`:
intent, orchestrator and critic), the escalation (`engineer`), or both
(`analyst`). Whether the budget admits the event does not matter to the
intention: `start_from_event` returns a blocked result and `_act` takes it for a
completion.

`Perception` is where those signals come from: the readings of the five sources
with a service that answers or does not (`DockerReadings` ...), which sources a monitor
collects (`SourcesOf`, `Look`, `Collect`), where one that cannot be made ends the perception and one
that cannot be read is left out, the default rules in their order, the filter and the
escalation (`Filter`, `Severity`, `RateReadings`). A value is its class with
respect to the thresholds.

### MessageBus, MessageDelivery

A call of `start_from_event` or of `arbitrate_conflict` keeps the event loop until it
suspends, so `holder` is the call that is being run. Publishing suspends only in a
subscriber that awaits (`Awaited`), and the event is appended to the history after its
subscribers have returned (`NotifyEventSubscribers`, `RecordEvent`). `FromCaller`, `FromGateway`,
`FromCron` and `ArbitrateConflict` begin a call with the lookup of
`_accept_system_event`; `AskTieBreaker` and `Moderate` are the moderator, with its rules in
`Preferred` and `Selectable` and the events it publishes in `Announcements`; `FinishRun` takes the
related history for the run trace. `IsRelated` has all five clauses of `_is_related_event`: what a
caller's own event names as its correlation, its cause or in its payload is chosen by `EventLinks`, and
what the moderator names follows from the event it decides about (`CorrelationOf`, `MentionsOf`).

`MessageDelivery` is `send`: the message enters the history, then the callbacks of the
receiver or of a broadcast are called one after the other from the live list,
while other sends and subscriptions happen whenever one awaits.

### CronManager

`ParseNaturalLanguage` and the two tables of the source give the expression of a description,
`EstimateInterval` the interval that is all the loop goes by, `ValidateCronExpression`
what is refused. `ScheduleTick` is one turn of the loop, which
collects the due tasks once; `ProcessTask` triggers one of them, whose callback is awaited under
a semaphore (`CallbackReturns`). `StopScheduler` and `StopReturns` are the two halves of `stop`, with the
end of the cancelled loop, `LoopCancelled`, between them, and a `start` may come
there (`restarted` remembers it).

### AgentQuestions

`run_with_react` is `RunWithReact`, then in each step `TakeAction`, or `AskUser`,
`CallbacksNotified` and `AskReturns`, and `FinalAnswer`. `TimerFires` is the timer of
`wait_for`, which wins even over an answer that has just woken the run;
`SubmitAnswer`, `CancelQuestion`, `AnswerAges` and `ClearAnswered` are the question manager;
`RunCancelled` is the cancellation of the agent's own task. `Outcome` is what `ask_user`
returns or raises. A question is identified by its run and step.

### SkillStore

A write (`Write`, `Indexed`) changes the store at once and, with a vector store, awaits an
embedding before it is indexed; rows are written by background tasks that may
fail and end in any order. A run is `Inject`, `Finish`, `Rate`, `ApplyRevision` or
`Propose`; the governor is `StartCleanup`, `Clean`, `StartMerge`, `Merge`; `Delete` and
`Restart` with `Restore` complete it. `InMemory` and `Row` keep the two versions of a skill
apart, and `Disturb` counts the passes and faults against their bound.

### MemoryStore, MemoryReading, SessionSegments

A run writes to the memory in the order of the workflow (`Operation`, `Stages`: the intents if there are
several, the plan, working memory, summary and result, the approvals, the context; `Start`,
`AwaitApproval`, `Push`, `WriteHash`), one Redis call at a time, and any call may fail (`WriteFails`), which
ends its operation only. `StartCleaning`, `Scan` and `RemoveNext` are
`cleanup_expired`, `StartRestore` and `RestoreNext` the restore from the table,
`DayPasses` is time to live, `ProcessRestarts` and `RedisRestarts` are crashes.

`MemoryReading` extends it by three readers as functions of the state: `PlanningMemory`, the page of a
task (`CollectMemoryItems`), and `ResumePayload`. `retrieve_for_planning` asks for the run its task names, and
no task names one, so the board and the private memory of a plan are those of all runs of the session;
the page and the resume payload ask for one run. `DegradedMemory` is what a plan has when the memory
fails, and `ContextOf` what a resumed run is given: the plan's memory merged with the payload
(`WithResume`), and the payload itself, which `apply_resume_context` hands to the orchestrator and the agents. They change
nothing, so they are checked in every state instead of being actions; what changes between two
of the Redis calls of one reader is left out. A list is read by the places of its items
(`OrderedItems`): a filter keeps some of them, a sort orders them by a number and, where these are
equal, by place, as Python's does.

`SessionSegments` is the callback that asks after every reported step whether a segment
is full and closes it with a summary, a link and its ends.

### LlmClient, CostGovernance

`Refused` and `Ask` are the checks of `ask_json`, for a key and with the governor, and the beginning of its
attempts; `CallDirectly` is a caller of `chat_completions` that goes past them, as the skill injector does,
and `Embed` an embedding. `Post` is the beginning of a call: the resolver is replaced (`ApplyDnsPatch`),
then the headers are built, which raises without a key (`HasKey`), and only then begins the `try` whose
`finally` puts the resolver back. `Answered`, `Embedded`, `TryFails` and `TryAgain` are the tries, with the cache of
deterministic calls. A call that is decided (`Decided`) awaits the end of its session and only then
restores the resolver and returns (`Closed`, `RestoreDns`, `Settled`); other calls may run in between. `AskCancelled`
cancels the caller: during the tries that leads to the same end, during the end itself it skips the
restore. `stranded` remembers the clients whose call left without it, `crossed` that a call ended while
another client had the resolver.

`CostGovernance` has two parts: `RecordUsage` and `Check` with the windows, alerts and cooldown,
and `TryConsume` with the refill of a bucket. `Audit` begins, at any moment, to
count what a bucket gives from then on.

## What is checked

| run | configuration | distinct states | properties and what they show |
| --- | --- | --- | --- |
| *budget* | `MCProactiveBudget.cfg` | 197,557 | `TokenBound`, `QuietWhileOpen`, `ImplementsPolicy`, `SlotReturned`. Three runs admitted, refused, finished and aborted in any order over five instants: the limits hold in every sliding window, the circuit keeps quiet, every granted slot is given back unless the run is aborted, and the bookkeeping implements a policy with perfect memory. |
| *budget_abort* *(counterexample)* | `MCProactiveBudgetAbort.cfg` | – | `FailureIsolated`. A run that leaves `start_from_event` by an exception keeps its slot, and later events are refused for concurrency that is not there. |
| *graph* | `MCWorkflow.cfg` | 617,955 | `RoutesHonoured`, `GateHolds`, `HonestCompletion`, `ResumeKeepsSuccess`, `ImplementsOrder`, `StallsOnlyOnBadGraph`, `CallReturns` of the executor; `PlansCanFinish` of the plans on their way to a graph; `AnswersAreHonest` of runs with approvals and the runs that resume them; `TraceTellsTheRun` of their traces, of what a client is told of them, and of their evaluation. |
| *graph_fallback* *(counterexample)* | `MCTaskGraphFallback.cfg` | – | `FailureBranchRuns`. A step behind an `on_failure` edge is never run: the executor stops at the failure, and a failed parent is not terminal for the ready check. |
| *tool* | `MCToolExecutor.cfg` | 232,000 | `SettledByItsAttempt`, `HandlerCallBound`, `EffectsApproved`, `StepSettles`. Two concurrent tool steps with retries and timeouts, their abandoned threads running on, and every command the gates can tell apart. |
| *tool_race* *(counterexample)* | `MCToolExecutorRace.cfg` | – | `CallLimit`. Two threads read the run budget before either writes it, and both calls are admitted with a limit of one. |
| *agent* | `MCProactiveAgent.cfg` | 303,569 | `OneAlertPerBelief`, `UnheardWereCrowded`, `AlertsSettle`. One agent of each role over rounds of up to three signals with a window of two, tasks adding beliefs in between, stops, restarts and cleanups at any point. |
| *agent_repeat* *(counterexample)* | `MCProactiveAgentRepeat.cfg` | – | `SignalDeliveredOnce`. The same signal, seen again in the next round, is a new belief, and by then its earlier intention is no longer pending: it is delivered again. |
| *events* | `MCEvents.cfg` | 207,426 | `FailureStays`, `SettledTruly`, `EverySubmissionSettles` of a submitted task with every plan of up to three steps, review, runtime replan, failing stage and lost result; `HistoryHolds` of the bus; `EveryoneHears` of messages; `LoopKeepsTime`, `DueIsTriggered` of the cron scheduler; `QuestionsSettle` of an agent and the question manager. |
| *runtime_shared* | `MCRuntimeTaskShared.cfg` | 1,890,886 | `NoOrphanStep`, `ViewsAgree`. Two runs on one record (a redelivered message) beside a submitted one, each of which may resume, replan and raise: no step is left running, and the step list and the graph agree. |
| *runtime_trace* *(counterexample)* | `MCRuntimeTaskTrace.cfg` | – | `SettledIsShownEnded`. The run trace cannot be written after the run, the result has no top-level status, and the task is finalized as pending. |
| *services* | `MCServices.cfg` | 432,160 | `UsesCountedOnce`, `SkillsStaySound` of the skills; `ContextsFound`, `CleanupSparesTheLive`, `ReadersAreServed` of the memory; `SegmentsTellTheRun`; `DnsRestoredUnlessLeft` of the model's clients; `LimitsHold` of the breaker and the buckets; `EventTellsTheWorst` of a round of perception. |

*graph*, *events* and *services* each hold several components that share no state. A
behaviour chooses one (`about`) in its first state and the others stay as they
begin, so that the state space is the sum of the components and not their
product, and each property sees all behaviours of its component.

The bounds are chosen so that each hazard occurs.

- *budget*: three runs against two slots, a burst limit of two and windows of two
  and three instants, so that a window fills, slides past an entry exactly as
  old as itself and refills; two failures open the circuit, for two instants,
  with the third run in flight; estimates of 1 and 3 against a budget of 4 meet it exactly
  and overshoot it.
- *graph*: all acyclic graphs of three steps with every routing condition, and five
  graphs with every kind of step, data branches, a cycle, an unknown parent and
  a list whose order is not the order of dependency; three calls are a first one,
  a resume, and a resume that contradicts it. Plans of two and three steps in every
  shape of parents and kinds, with ids that are missing, repeated or look like those a
  replan gives, entries that are no steps, and answers with a graph of their own. Nine run plans
  with approvals of steps, of commands and of both, over three runs in a row, or two with two
  faults (a write that fails, a restart).
- *tool*: two steps with one retry each reach four threads at once against limits of two calls and
  one side effect.
- *agent*: rounds of up to three signals against a window of two (the code has an
  unbounded round and a window of five), so that signals leave the window
  unheard, and come back when later ones are cleaned up after one tick.
- *events*: one submitted task with every plan of three steps and all results; two events and
  two calls, of which one conflict and two types with subscribers that await, where one event correlates with
  the other or mentions it or does not; two cron tasks,
  two loops, a semaphore of one and a clock of two ticks with intervals of one and two; one asker over
  three steps; two messages, one receiver beside the broadcast, and two callbacks.
- *runtime_shared*: two runs on one record and a submitted one, plans of two steps.
- *services*: two skills, one seeded, with two concurrent runs, or one run and two passes or
  faults; memory lists of two entries, three entries of one run without a fault or two of two runs
  with one, and pages and hits of two; two questions with two attempts of two tries over two
  prompts, with both keys, the one of the embeddings only, or none; breaker windows of 1, 2 and 4 over a clock of five; buckets of two; segments of three
  steps with summaries of two out of eight.

Bounds that are the model's own, and not the code's: `Horizon`, `CronHorizon` and
`CostHorizon` (clocks), `MaxCalls` (calls of `execute`), `MaxBatch` and `MaxBeliefs` (the
agent's rounds), `ReportBounds`, `SkillBounds` and `MemoryBounds` (runs and faults), `MaxUsage`,
`MaxRecords`, `StepBound`, and the sizes of the sets. The proofs do without all of them but the
guards, which hold for any value of the bound. Symmetry is used for interchangeable runs in
*runtime_shared*, and for runs, questions and prompts in *services*; both check safety only.

### Properties

*Budget.* `TokenBound`: no window, wherever it ends, holds more tokens than allowed,
although entries are forgotten. `QuietWhileOpen`: between the failure that
opened the circuit and its deadline nothing was admitted. `ImplementsPolicy` includes the
limits on concurrency and bursts. `SlotReturned`: a granted slot is given back
unless its run is aborted.

*Plan and graph.* `PlansCanFinish`: whatever the plans were, what is executed has distinct
steps and can be gone through to its end, and a revision comes after everything it
revises; the exceptions are stated (a graph of its own, a plan with names like a
replan's). `RoutesHonoured`, `GateHolds`: what completed did so along its conditions and under an
approval that still stands, after any resume and any change of decision. `HonestCompletion`:
"completed" means every step was completed or skipped. `StallsOnlyOnBadGraph`: a
well-founded graph never stalls. `ResumeKeepsSuccess`: a resume at the step that blocked or
failed forgets nothing completed. `CallReturns`: every call returns.

*Answer and trace.* `AnswersAreHonest`: an answer that waits shows the open record of the step
it stopped at and leaves a context that resumes there; a decision unlocks its step only, over any
chain of resumes; a completed answer has a receipt of every effect. `TraceTellsTheRun`: a client is
told the same before and after a restart, and the evaluation passes only what completed.

*Tools.* `EffectsApproved`: no handler is called for an unapproved side effect or
a step that ends blocked. `SettledByItsAttempt`: a late answer settles nothing.
`HandlerCallBound`: the two loops multiply, and no further. `StepSettles`: a step
ends even if its timeout never fires.

*Runtime.* `NoOrphanStep`: a step shown running is being run. `ViewsAgree`: step
list and graph tell one story. `FailureStays`: a failed or blocked step keeps its
task failed until it is replanned or over. `SettledTruly`: a settled task shows
the outcome of its run. `EverySubmissionSettles`: every submitted task settles.

*Agent and perception.* `OneAlertPerBelief`: one alert for a belief. `UnheardWereCrowded`: an
unheard signal has a whole window of beliefs after it. `AlertsSettle`: waiting alerts are executed
unless the monitor is stopped. `EventTellsTheWorst`: neither the order of the rules nor a milder
reading of another source hides the severest one.

*Events.* `HistoryHolds`: an event is recorded once, unless a subscriber of its type
awaits, causes come first, and a run's trace takes its own events, and others only if their callers tied
them to its event. `EveryoneHears`: whoever
listened when a message was sent hears it once, a reply finds its request, and reading finds what was heard.
`LoopKeepsTime`: at most one loop runs and it keeps the intervals, unless a start came during a
stop. `DueIsTriggered`: what is due is triggered. `QuestionsSettle`: what an agent heard and what the
manager shows agree.

*Services.* `UsesCountedOnce`: each run that used a skill counts once. `SkillsStaySound`: a revision
stays in the history, what is injected is active and confident, and nothing low stays active.
`CleanupSparesTheLive`: what a cleanup removes has expired. `ContextsFound`: an index names no run
without a context, unless Redis was lost. `ReadersAreServed`: readers get each entry once and no hit pushes
out a relevant one; pages and resume payloads show the run they are of, and all of it as long as the lists are no longer than what is
read (`AllRead`); a resumed plan keeps what it had and gains what the resumed run has, also when the memory failed;
its board shows another run only if the resumed one has nothing to show. `SegmentsTellTheRun`: segments split the steps
of a run without gap or overlap, and summarize what matters. `DnsRestoredUnlessLeft`: whoever has
the resolver replaced has a call under way, and with none under way the process has its own; a call
that left for want of a key, or was cancelled while its session closed, is the only one to leave a resolver
behind, and it still resolves; all this until a call ends while a later client has the resolver. `LimitsHold`: no level the tracker covers is
passed, no check passes in a cooldown, and a bucket gives no more than it holds and refills.

### Fairness

Liveness is checked under weak fairness of what the event loop, the thread
scheduler or a timeout brings about, and of nothing else. The event loop resumes
a coroutine whose awaited result is there (`Step` of the budget, `InCall`, `Begin`,
`Answered`, `MonitorStep`, the `Prepare`, `Perform` and `Conclude` of a submitted run, and the
`StopReturns`, `LoopCancelled`, `ScheduleTick`, `ProcessTask` and `CallbackReturns` of the cron
loop). What these wait for ends: `call_llm` has a request timeout, a handler its `timeout_ms`, the
collection thread returns, a callback starts a run that ends, and a sleep is over. Threads are scheduled
(`Thread`). Nothing is fair that nobody is obliged to do: aborting, timing out a
step, resuming a run, starting or stopping a monitor or the scheduler, giving an
agent a task, advancing a clock. In particular `StepSettles` does not rest on the
step's own timeout, `SlotReturned` says nothing of an aborted run, and `DueIsTriggered`
nothing of a stopped scheduler.

`CHECK_DEADLOCK FALSE` is set where behaviours end: *budget* (the clock ends at
`Horizon`), *graph*, *events*, *services* and *runtime_shared* (runs, calls and bounds end),
*tool* (steps settle), and the counterexamples of these modules. *agent* keeps the deadlock check: a
monitor can always be stopped or started.

## Disagreements with the documents

Five runs check what a document or a test says of the program and end in a
counterexample, which is a behaviour of the code.

- `FailureIsolated` (*budget_abort*): `docs/phases/phase-7-scheduling-gateway.md:65`
  says one failing cron task does not affect the others. `start_from_event`
  has no `finally` between reservation and release; a run that leaves by an
  exception keeps its slot for ever, and with `PROACTIVE_MAX_CONCURRENT_RUNS` such
  runs every later event is refused.
- `FailureBranchRuns` (*graph_fallback*): `docs/ARCHITECTURE.md:318` lists `on_failure`
  among the conditions. A wave with a failure ends the call, and a failed
  parent is not terminal for the ready check: such a step never runs.
- `CallLimit` (*tool_race*): `docs/decisions/ADR-004-tool-governance.md:43-48` says calls over the
  budget do not enter execution. `_reserve_budget` reads and writes without a
  lock, in threads.
- `SignalDeliveredOnce` (*agent_repeat*): RFC-006 (line 375) has the same anomaly
  delivered once in five rounds. An intention is compared with pending ones only, and
  `_act` settles it within its round; the test of that name replaces `_act`.
- `SettledIsShownEnded` (*runtime_trace*): `docs/ARCHITECTURE.md:2819` says a task is updated when
  it is over. If the run trace cannot be written the result has no status at its
  top level, and the task polls as pending.

Met on the way, and stated here rather than as runs. The models follow the code in
each of them, and properties that would be false because of one say so in their statement
(`unless`).

*Plans, graphs, runs.* The executor, the snapshot and an appended replan rebuild the
graph from the plan's steps, so a graph of the orchestrator's own is validated and never
executed. A plan the critic rejects is executed before its replan, since "critic_rejected"
is true as a condition. An appended graph is not validated again, and ids such as
"rp1_s1" may collide. A finalize step with a parent waits for that parent only, where
ADR-002 has it wait for all branches. A wave with several unsuccessful steps reports the
last in list order only. After a runtime replan the new graph runs without the state of
the old one, whose receipts and records are gone from the answer, and a task that was
shown failed turns back to running. Runs that were not submitted are never finalized.

*Approvals and answers.* `persist_approval_memory` reads a key the records do not have, so every
approval is remembered as pending. The record of a step's approval stays pending after
the approval, so a completed run answers that it is not approved. A rejected or
expired approval is answered as pending. A decision cannot answer `ask_human`. One
saved context can be resumed twice, and runs an approved effect twice.

*Traces and evaluation.* `save_snapshot` caches a trace before it writes the file; if that
fails, the task is pending until a restart shows it completed. The failure of a run is
its first bad step, and a resumed run inherits the trace of the one before, so a
successful one names an error. `resume_success_rate` scores 0 for each case without a
resume, and is a blocking metric. The rate of successes can be met by a failed case.

*Tools.* Two retry loops multiply, where ADR-004 speaks of one budget (`HandlerCallBound`
states the product).

*Agents and perception.* The belief list has no bound, since informative and task beliefs
are never processed and so never cleaned up, where RFC-006 expects ten to fifteen. An
intention whose event the budget refused is marked completed. `_collect_and_filter`
returns all signals, so normal readings become beliefs. No default rule is about a
service of docker, Prometheus or k8s that does not answer, and docker without containers
reports itself unavailable.

*Events and questions.* A run trace holds whatever events their callers correlated with its event or
named it in. A duplicate event is not published again, but its workflow runs
again. Subscribers to broadcasts are told of every message, and those of one agent of no
broadcast. "Every N minutes" runs hourly, "every N hours" and "every N days" daily,
a work-day schedule weekly, and three in the afternoon written with the word for each day is three in the
morning; ranges such as 5-1 are valid. A start while a stop is awaiting leaves a loop nobody
can stop. An answer that arrives in the loop turn of the timer is a timeout, and one that
begins like the text of a timeout ends the run as one. A cancelled asker leaves its question
pending, and a question that was never answered is never cleared. `run_with_react`
succeeds with a fallback even if every call of the model failed.

*Skills.* A merge may archive an active skill for an inactive one that is more confident. A stale
pass of the cleanup may take a skill from archived back to deprecated. A proposal over a
retired skill raises its confidence and leaves it retired. Confidence and deletion are
not persisted, and rows may end in another order than they were handed over. After a failed embedding the
two indexes disagree.

*Memory and segments.* Rows lose their tier on a restore, which reverses their order and repeats
entries. The index never forgets what expired. Entries that should last die with
the expiry of their list's key. `update_run_context` is a read and a write with an await between them. `list_recent`
reads twice its limit of all runs before it filters. A resumed run's memory is added to
the hits of its plan without dedupe or threshold. No task carries a `run_id`, so `retrieve_for_planning` reads the board
and the private memory of the whole session, of which a resumed run's plan keeps the board if its own run has
nothing to show. `private_memory_enabled=False` keeps private memory out of the plan, but a resumed run's is
handed to the orchestrator and the agents in the resume context all the same. Steps after the last full segment
get no checkpoint, and a resumed run begins a chain of its own.

*Model and limits.* Every error status is retried, where a comment speaks of 5xx and 429. A
charge of the governor pays for up to nine requests. The cache ignores the format asked
for and keeps answers that cannot be parsed. Two clients that end crosswise leave the
process with a replaced resolver. So does a call without a key, since `_apply_dns_patch` comes before `_build_headers`,
which raises, and the `try` comes after it (`llm_client.py:212-234`, and 374-396 in `embed`); only `ask_json` checks the
key first. And so does a call that is cancelled while its `finally` awaits `client.close()`, which comes before
`_restore_dns` (327-330, 502-505). All three levels of the cost breaker are compared with one hour (KI-012).

## What is proved

Every theorem holds for all values of the constants that satisfy the module's
assumptions: any number of runs, steps, tasks, questions, loops, subjects and retries, any limits and
windows. The assumptions are those the code justifies: settings are positive
(`positive_env_int`), the sets of runs of the budget and of steps of a run are finite,
graphs are made of the executor's kinds and conditions but need not be acyclic, run plans of the kinds
of steps there are (`PlanAssumption`), answers are lists of any length of typed items, whose ids are
names of steps or none, and for a replan there is a name no step has (`ContractAssumption`), and a
submitted task shares its record with no other run (`submit_task` makes up the id). Names that
the model gives to what the code leaves unnamed are assumed to be apart: the ids the bus
makes for its own events and those of callers, a client and the process's own resolver.

Each module has one inductive invariant (`IInv`, `CronInv`, `AskInv`, `DeliveryIInv`, `BusIInv`, ...), proved from its initial predicate
and for each action; the properties follow from it.

*Budget.* `ConcurrencySafe`, `TokensSafe`, `BurstSafe`, `CircuitQuiet`, `CircuitHolds`, `TypeCorrect`,
and `Refinement` (the manager implements `AdmissionPolicy`). The bounds are not
inductive alone. `Slots` says a slot is held exactly by the runs between
reservation and release and by the aborted ones; `Remembered`, that the deque
holds every admission of the window that ends now, although `_cleanup` drops
entries: it drops none that a later window could still cover. `Deadline` limits how
far ahead the circuit may be open, which makes its deadline grow only. `TokensSafe` is
`TokenBound`; `RememberedTokens` is `Remembered` for the deque of tokens. The tokens of a set of runs are
counted as a set of units, so that a sum is a cardinality.

*Graph.* `OrderSafe`, `OutputsSafe`, `RoutesSafe`, `GateSafe`, `CompletionHonest`,
`NoStall`, `ResumePrecise`, `TypeCorrect`, and `Refinement` (waves and resumes
implement `DependencyOrder`). `CallShape` ties a call's locals together (what
remains is what is not terminal, a wave is ready and part of it), `Statuses` the status map to the
terminal sets, and `WaveRoutes` and `WaveGates` state the routes and gates
already for the steps of a wave, before their results are folded. `Marks` says the
step a run is resumed from by default is not terminal, so that its
dependents are not either and the reset takes no success. The lemma about
`Affected` (it is closed under dependents, and within every closed set around the
target) carries the resume steps.

*Plan.* `PlansFinish` is `PlansCanFinish`, by `PlansIInv`: a base plan under review or revised has passed the
gates and its graph is sound (`PlanIsSound`). `SearchIsExact` is about the search alone, for every set of steps and of
edges: it finds a cycle if and only if some set of steps waits for itself. That the recursive
function exists is proved first (`SearchExists`), by induction on what a loop has before it (`Ahead`), which
shrinks with each call because a call marks its step. What the search tells (`TellsStep`) is then proved by the same
induction: a loop that found no cycle has visited only steps that wait for visited ones. From there, a
valid graph is sound (`ValidIsSound`), and what `AppendReplan` does to two sound graphs is sound (`AppendedCanFinish`):
no edge leads from the second plan back, since its ids are prefixed by a name no step of the first has. That the
second plan comes after all of the first is `NothingGoesOn`: in a set of steps closed under
what they wait for, a step of the second leads to an entry of it, which waits for every terminal step of the first.

*Answer.* `AnswersHonest` is `AnswersAreHonest`, by `ReportIInv`. An answer is honest because the run it is made
of is sound, and so is every context that was saved (`RunSound`): a step or command that is approved was
granted (`StepsGranted`), a record is of a step that has an approval of its level, and one that is open although its step
is done is the step's own and was granted (`RecordsTell`), an effect of a step that is done has a successful receipt
(`EffectsReceived`), and a blocked run names a step with an open record (`StopTold`). `Progresses` says
that a run goes on only while nothing has stopped it, and has completed only with nothing left. What a
resume takes back (`Dependents`) is the target and what comes after it, so that the target's open record is
again one of a step that is not done.

*Trace.* `TraceTold` is `TraceTellsTheRun`, by `TraceIInv`, which is `ReportIInv` and what is kept of the runs. `RunTold` says of a run that
resumes no other that its items are those of the steps that are over and tell what became of them; `ItemsTell` proves of
`Items` that a wave adds one for each of its steps. A snapshot of such a run names a failure just where
it did not complete (`SnapshotsTellTruly`). `FilesKept` says a run is traced before the next begins, `FirstTold` that
only the first resumes no other, `LastTold` that the last trace is that of the last answer, and
`SettledTold` that the context of the first run, once saved, shows what its record showed. For the gate, the total of a metric that is all or nothing counts
the runs that have it (`TotalCounts`, by induction on the sets of runs); well resumed runs have completed.

*Tools.* `ApprovedOnly`, `SettledSafe`, `CallsBounded`, `BudgetExact`, `TypeCorrect`. `Gated` says every
thread past the gates, and every step whose handler was called, has a command the gates let
through, and that only a gate blocks a step; `NotAhead`, that there is no command for an attempt the step
has not come to, so a late answer is always of an earlier attempt; `Fresh`, that without
an overlap a thread between reading and writing holds the current counters and is
alone there. `CallsBounded` is `HandlerCallBound`: `CallsAccounted` charges the calls of a step
to the attempts that are over and to the tries of the command of the attempt it is in.

*Runtime.* `OrphanFree`, `ViewsCorrect`, `FailureVisible`, `TypeCorrect`, by `Inductive`.
`WaveWhileExecuting` says a step is in a wave only while its run executes it,
`OutcomeTells` that a call whose status is still completed has no failed step,
`Registered` that a run that began has a record. Most of the proof is lemmas about
the store's operations as functions of a record: each keeps the type and the agreement of the
two views, and shows a step running only if its argument says so.
`SettledCorrect` proves `SettledTruly` on top of that: `CompletedAll` (a run that is over and says
completed has left no step undone), `RaisedIsOver` and `RaisedIsShown` (a run that raised does
nothing more, and its graph is shown failed), and what `finalize_task` makes of a record, carried
to the end by the fact that a submitted run is alone on its record.

*Agent.* `AlertedOnce`, `MarksHonest`, `EscalationsSafe`, `LossExplained`, `TypeCorrect`.
`OneAlertPerBelief` becomes inductive with `SourcesMarked`: a belief that an
intention came from is marked for as long as it is held, and its number is never
given again. One predicate of the two lists, `Lists`, is kept by each piece of a
round, by a lemma of its own.

*Cron.* `CronInvariant`, and `TimeIsKept`, which is `LoopKeepsTime`. That a task is triggered at most once in its
interval is not in the guard of a trigger: a loop triggers what it collected earlier. `CollectedStayDue` says
that what is still in a queue has waited for its interval and goes on waiting, which needs
`LoopIsHeld`, that no second loop triggers it meanwhile, and that in turn
`StoppedWhileStopping`. All three fail once a start came during a stop.

*Questions.* `AskInvariant`, and `QuestionsAgree`, which is `QuestionsSettle`. `NothingAhead` says the
questions of later steps were not asked, `Waited` that the question of a run that waits was asked and is
not timed out, `NoLongerPending` that whoever was woken or answered is not pending, and
`TimeoutIsLast` that a run hears nothing after a timeout. What others do to a question is one
predicate of its old and new state, `Settles`.

*Messages.* `DeliveryInvariant`, and `EveryoneIsTold`, which is `EveryoneHears`. `Progress` says of a send
under way that exactly the callbacks before its position in the list have heard the message;
`Once`, that no callback is twice in a list or in two, which makes that position meaningful while the
lists grow; `Meant`, that whoever hears a message subscribed to one of its two lists.

*Events.* `BusInvariant`, and `HistoryIsTold`, which is `HistoryHolds`. `CallTold` says how far each call is
in what it publishes: its event, then the decision, then the resolution, and which of them the
history holds. `Held` says that only the call with the event loop is between two
suspensions, so that what it found missing in the history still is when it records it, unless the
subscriber awaits. `EventsTold` ties an event that carries a run to the event the run began with;
`SnapshotTold` is the property of one run trace (an event correlated with the root by the
moderator was caused by it or by an event its caller tied to it), and a trace is never outdated since the history only grows.

*Model.* `DnsRestored` is `DnsRestoredUnlessLeft`. `ResolversChained` says that, as long as a call only ends
while its own client has the resolver, each client that replaced it saved another one, from the client
installed now down to the process's own, and no two saved the same. A client that is left behind stays
in that chain: whoever comes after it saves it and puts it back. `PatchedUnderWay` says that only a call
between its first request and its end has saved a resolver, or one that is over and stranded.

*Memory.* `ContextsStay` is `ContextsFound`. `RunsHaveWork` says what an operation has left to write is the end
of its list, `ContextsPrecede` that a run that is about to write the index has its context.
`TheLiveStay` is `CleanupSparesTheLive`: what a pass of the cleanup has found is expired at a day that has
come (`DoomedExpired`) and stays so, for time only goes on; it is removed by value, so what goes from the list
is equal to what was found, however the list has changed in between.

*Reading.* `ReadersServed` is `ReadersAreServed`. Its invariant, `ReadersIInv`, says only that the lists hold entries and
that the index is finite: the readers are right about any such lists, whatever pushes, restores
and restarts did to them. `Sorts` proves of the stable sort that it gives each item once, in the order of the keys, and
`ItemsAtTells` that a filter keeps the order; `FirstTakes` and `DedupeTells` (each id once, and all of them) are what a
reader adds to that. `HitsAreRelevant` then counts: the recent entries and what the index is asked for are together no more than
the hits of a plan, if it may have two, and these fewer than the candidates that are scored, so none that is relevant is cut. `BothOnce` and
`PagesInOrder` are the page. `ResumeAdds` is the resume, of any plan, and `BoardTells` that a board of thirty shows all of a
run that has no more.

*Perception.* `TellsTheWorst` is `EventTellsTheWorst`. Of the default rules it needs one fact, `RulesInOrder`: a rule
before another one about the same metric is as severe, and none is about what the cluster rates itself. So the first
rule that matches is the worst (`FilterTellsTheWorst`), and `CollectedSignals` carries over to all lists of readings,
also of services that do not answer and of perceptions that end before their first source, that only the cluster rates what it reads.

*Limits.* `LimitsStay` is `LimitsHold`. `RateAccount` is the account of a bucket: what it gave since one counts,
with what it still has, is within its capacity and what was refilled by its last change. `TripsHeld` says a
level in its cooldown stays marked, since a check resets only the levels before the
first that refuses; `RecordsCover`, that the tracker forgets nothing its window covers. The tokens of a set
of records are counted as a set of units, as in the budget.

*Skills.* `SkillBaseHolds`, `SkillsSound`, which is `SkillsStaySound`, and `UsesCounted`, which is
`UsesCountedOnce`. `SkillBase` says what may be on its way to the store: nothing that is low and active
(`LowOnesRetired`); what the governor still has to write only retires a skill (`GovernorRetires`); and without
a vector store the copies are the store and nothing is on its way (`CopiesAgree`). `UsesTold` says that what a run has left to rate is the end of what it
tracked, and what it rated the rest, so that a skill's count and the runs that rated it stay equal.

*Segments.* `SegmentsTold` is `SegmentsTellTheRun`, for segments and summaries of any length. `SegmentsIInv` says of each
segment where it begins and ends and that its summary is that of these steps, and of the open one that
it has the steps after the last end. By `Sorts`, a step that is left out comes after all that are named (`SummaryTells`), and
that the chain, whose indices grow, is the list itself (`SortKeeps`).

Some of these theorems are about invariants no run lists, because another property of the run
implies them or needs them (`ConcurrencyBound`, `BurstBound`, `CircuitNotShortened`, `NothingRunsEarly`,
`OutputsGrounded`, `SerialBudgetExact`, `AlertBehindMark`, `EscalationsHeard` and the type invariants).

### What is only model-checked

- Liveness: `SlotReturned`, `CallReturns`, `StepSettles`, `EverySubmissionSettles`,
  `AlertsSettle`, `DueIsTriggered`. The proof system has no rules for fairness here.

## What is not modelled

- The remote ends: LLM answers, MySQL, Redis, Chroma, chat platforms. Where an
  answer changes control, or a call may fail, it is a choice of the model.
- Data: prompts, titles, texts and scores, contents of outputs, SQL and
  arithmetic on its rows, HTTP and signatures, rendering.
- In the executor: `on_node_started` and `on_node_completed` raising (their effect on
  the record is in `RuntimeTask`), and the order in which coroutines of a wave interleave
  inside a step.
- In the agent: the back-off after ten consecutive errors, which no shipped perception raises;
  a caller of `add_intention` other than `_deliberate`, of which there is none; monitors that
  outlive a replaced workflow singleton.
- `_RUN_BUDGET_STATE` is never cleared: what that costs in memory is left out.
- In the memory: the private lists of more than one agent, and kinds that nothing writes (`analysis`).
- In the model's client: a client that several calls share or that brings a session of its own. Callers
  make one for a single call; the skill store could be given one for all its embeddings, which the
  workflow does not do.
- In the task record: runs are not cancelled by the BFF, which has no operation for it.
- The context compressor: the ReAct loop sends two messages, and it protects six, so it
  never compresses. The remediation manager, `check_recursion` and the segment chain's
  readers, which only tests call.
- The judge, the older scores and the reports of the evaluation, which compare texts or format numbers.
- The other components of the inventory that `PROJECT.json` marks as not modelled, with
  the reason for each.

## Plan

What the first plan set out to model is there. What would add most next:

1. `ProactiveAgent` composed with `ProactiveBudget` and `MessageBus`: agents, whose events are
   accepted, moderated and admitted, as the source of the calls.
2. The approvals of `RunReport` inside the waves of `TaskGraphExecutor`, with a refinement from
   the composed module to `RunReport`.
