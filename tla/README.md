# GeeGooAgent in TLA+

GeeGooAgent is a Go agent runtime for stock analysis: chat turns (a ReAct loop of
model calls and tool calls) that reach it through HTTP, an IM gateway or a
terminal, and scheduled workflows. This directory holds its formal models, the
TLC configurations that check them on small instances, and TLAPS proofs of the
results that matter most. The reference is the code under `src/`.

- [Inventory](#inventory): parts, state, operations, interactions, what is hard
- [Modules](#modules): what models what, and how it corresponds to the code
- [Runs](#runs): what is checked, with which bounds
- [Fairness](#fairness)
- [Proofs](#proofs)
- [Where code and documentation disagree](#where-code-and-documentation-disagree)
- [Seen while modelling](#seen-while-modelling)
- [Not modelled](#not-modelled)
- [Plan](#plan)

## Inventory

### Parts, their state and operations

| Part | State | Operations | What makes it correct |
|---|---|---|---|
| Agent loop (`internal/agent`, `internal/cognition/plan_policy.go`) | the session's messages and pending plan, the turn's tool context, round and retry counters | `RunTurn`: answer a pending plan, then rounds of model call, read-only calls, plan gate or writes; quality retry; budget summary | a write runs only with the consent the plan gate promises; a refused plan stays refused; nothing runs twice unless a turn was lost; histories stay acceptable to a provider; a turn ends |
| Message ordering (`internal/llm/messages.go`) | none | `SanitizeMessages` | what is sent is an ordering a provider accepts |
| IM gateway (`internal/gateway`) | dedup cache, a mutex per chat, the Agent mutex, the clarify hub, the session map | `handleInbound`, `runAgentTurn`, the clarify call, `TryAdd` | one turn at a time on the Agent; a turn never saves over another; a waiter in the hub is alive; no event is left behind |
| HTTP requests (`internal/runtimeapi`) | `chatMu`, `gatewayMu`, and the shared Agent's gateway, progress sink, plan gate and approval function | `chatStream`, `chatPlan`, `chatFlowResume`, `chatCompletions`, evaluation turns, the clarify call of a stream | a turn uses its own gateway, sink and approval; a plan is answered once; no turn is lost; others are served while one waits for its user |
| HTTP clarify hub (`runtimeapi/clarify*.go`) | a FIFO of waiters per session | wait, answer, automatic pick | an answer reaches the question it was given for |
| Live state (`chatsession/live.go`, `sessionEventsStream`) | the last 40 events of a session | emit, end turn, poll | a poller sees every event once |
| Session store (`internal/chatsession`) | sessions in SQL: messages, plan, step records | load, save, sync from the runtime session | a save keeps what was there |
| Workflow runner (`internal/workflow/runner.go`) | the working state with its completed step keys, checkpoints | phase A, phase B per stock, `processStep` with one retry, resume | a finished step is not repeated; one stock's failure does not stop the others |
| Supervisor (`internal/workflow/supervisor.go`) | none | verdict over a working state | a pass verdict means every check holds |
| Scheduler and job store (`internal/scheduler`, `internal/jobstore`) | running set, retry counts, timers; the jobs file | cron tick, execute, retry, record verdict | at most two retries, no overlap, no lost record |
| Evaluation jobs (`runtimeapi/dashboard_eval_job_run.go`) | jobs and items in SQL, the job mutex, cancel functions | run, cancel, one chat turn per item | jobs are serial; nothing they set on the Agent stays |
| Multi-tenant gateway (`internal/gateway/multitenant`, `platforms/feishu/adapter.go`) | a slot with a connection per user, the locks of the IM gateway, the Agent's model gateway | list, sync, stop; dial, hang up; handle | one live connection per bot, which follows the database; a tenant's turn runs on its owner's model |
| Memory (`internal/memory`) | working, evidence, facts, episodes, chunks | apply a tool result, recall, consolidate | no observation is lost |
| LLM gateway (`internal/llm`) | none | chat, stream, retry policy | bounded retries |
| Compression (`internal/prompt`) | none | cut a history | no tool message without its call |

### How they interact

A request handler loads a session from the store, sets up the one shared Agent
and calls `Agent.Run`, which works on an in-memory session and returns; the
handler copies the result back and saves. The Agent is shared by everything in
the process, and gateway, sink, plan gate and approval are fields of it: who
holds which mutex while he sets, uses and resets them is the central question of
the system. Two kinds of turn stop in the middle and wait for their user: a held
plan ends the turn and lives on in the session's metadata, and a clarify call
blocks inside the tool, for up to ten minutes, having given its lock away.
Scheduled workflows call tools directly and share nothing with chats but the
stores; the scheduler runs them and reads their verdict. Live state is a file that
the turns of a session write and the events stream of another request polls.

### What is hard

Interleavings around the two kinds of waiting (locks given back in the middle of
a turn, sessions and plans read before a lock and used after it, lock order),
the shared fields of the Agent, timeouts that race answers, redelivered
messages, crashes and failed saves between a tool's effect and the record of it,
goroutines that outlive the turn that started them, files written by several
writers that share no lock, and call budgets and caches at their limits.
`PROJECT.json` lists each hazard at its line with the properties that watch it.

## Modules

| Module | Role |
|---|---|
| `WriteConsent` | abstract specification: what the plan gate promises about writes |
| `SerialTurns` | abstract specification: the turns of a stored session take effect one at a time |
| `TurnLoop` | one session and its turns, in detail; refines `WriteConsent` |
| `ChatHistory` | `SanitizeMessages` as a fold, and what a provider requires |
| `Compression` | what a compaction makes of a history: cut, summary, repair |
| `ModelRequests` | what the loop sends to the model: `TurnLoop` with `Compression` and `ChatHistory` |
| `TurnLoopProofs` | theorems about `TurnLoop` and `ModelRequests` |
| `IMGateway` | the IM gateway: dedup, locks, clarify hub, sessions; refines `SerialTurns` |
| `TenantGateway` | the gateway of many users' bots, on top of `IMGateway`: sync loop, connections, owners' models |
| `IMGatewayProofs` | theorems about `IMGateway` and `TenantGateway` |
| `SessionRequests` | the HTTP requests on the shared Agent; refines `SerialTurns` where the runs and theorems say |
| `SessionRequestsProofs` | theorems about `SessionRequests` |
| `WorkflowRunner` | a workflow session with its saves, crash and resume, and the supervisor |
| `WorkflowRunnerProofs` | theorems about `WorkflowRunner` |
| `JobScheduler` | cron ticks, retries, deferrals and the job file |
| `JobSchedulerProofs` | theorems about `JobScheduler` |
| `ClarifyQueue` | the questions of one HTTP session: waiters, answers, timers |
| `ClarifyQueueProofs` | theorems about `ClarifyQueue` |
| `LiveEvents` | the live state file, its publishers and its poller |
| `ToolBatch` | the parallel `ExecuteBatch`, composed with `LiveEvents` |
| `ToolBatchProofs` | theorems about `ToolBatch` |
| `EvalJobs` | evaluation jobs: goroutines, rows, cancel requests |
| `EvalJobsProofs` | theorems about `EvalJobs` |
| `MC*` | small instances for TLC |

A definition named `Action_Something` right before `Action` is a plausible bug of
that action (a dropped guard, a missing reset); for each checked property there is
one that TLC finds to violate it, so that no property holds for lack of cases.

### TurnLoop

`pc` follows a turn through the loop: `start` (the pending plan is answered),
`round` (head of the loop), `llm` (the model is called), `gate` (the read-only
calls of `applyToolRound` have run, its writes have not), `mutate`
(`ExecuteBatch` over writes), `ended` (result returned, not yet saved), `idle`.

| Action | Code |
|---|---|
| `Submit` | the handler loads the session and `RunTurn` appends the user's message |
| `ResumePlan`, `CancelPlan`, `BeginTurn` | `runPreparedTurn`, lines 429-443: yes, no, anything else |
| `FailTurn`, `CallLLM`, `BudgetExhausted` | the round loop: cancelled, next round, `finishBudgetExhausted` |
| `LLMError`, `LLMReply`, `EvalRetry`, `LLMTools` | the outcomes of `runRound` |
| `Hold`, `Proceed` | the two ends of `applyToolRound` |
| `RunWrite`, `AskAndRun`, `SkipWrite`, `AppendResults` | `ExecuteBatch` and `appendToolResults` |
| `Save`, `LoseTurn` | `SyncChatFromRuntime` and `Save`; a crash, or a save that fails |
| `Cancel` | the client goes away |

A tool call is a pair of the message that proposed it and a tool, so call ids are
fresh as they are in the code. A history entry keeps role and calls. The order in
which the writes of a batch run is left open. `confirmed`, `dropped`, `ran`,
`twice` and `losses` are history variables for the properties.

Under `Consent`, `TurnLoop` implements `WriteConsent`: `asked` is the plan in
memory (the stored one between turns), `grant` is the standing permission of a
turn that is pre-approved, not interactive, or was started by a confirmation.

### IMGateway

Every inbound event is a handler with a `pc` of its own: `lock`, `deliver` (chat
lock held, hub not yet asked), `agent` (session loaded, wants `agentMu`), `run`
(in `Agent.Run`), then through a clarify call `asked` (chat lock released, not
registered), `wait`, `timeout`, `relock`, and `reply`. The locks are variables
that name their holder. `TimeOut` stays possible after an answer arrived, as in
Go's `select`. The dedup cache is its FIFO of ids.

`IMGateway` implements `SerialTurns`: a turn takes effect when `Reply` saves its
session. Plans are part of a session's contents there, so the mapping has none.
The runs check the refinement; `HistoryKept`, that no turn of a session is ever
gone from it, is weaker and only proved, here and for `SessionRequests`.

### TenantGateway

`geegoo gateway` runs `multitenant.Runner`; the `Runner` of `internal/gateway`
has the same handlers for one bot. `TenantGateway` therefore extends
`IMGateway`: its variables are the locks, hub and sessions the tenants share.

| Action | Code |
|---|---|
| `List`, `Sync`, `StopAll` | `Runner.Run`: every eight seconds `syncTenants` reads all credentials, then, under `mu`, stops outdated slots and starts missing ones; the end of the loop |
| `Signal` | the process is told to stop: the loop's context is cancelled, and each connection's with it |
| `Dial`, `Hangup`, `Fail` | `Connect` of the Feishu adapter, a goroutine per slot: client made and started; context cancelled; the client gives up |
| `Change`, `Arrive` | the database and the platform, external |
| `TakeAgent`, `LeaveAgent` | `applyOwnerFeishuGateway` and its restore, with the lock actions of `IMGateway` |
| `Elsewhere` | the rest of `handleOwned`: steps of `IMGateway` |

Connections of a user are numbered as they are made. `table` is the slot map, `at`
and `open` what became of each connection, `credOf` its fingerprint. `Disconnect`
may miss a client that `Connect` has just made: `a.ws` is read without the lock.

### SessionRequests

Every request is of one of five kinds (`Kind`), and the constants say which
session, which gateway (its user's settings), which text and which
`X-Approve-Writes` it has. `queued` waits for `chatMu`; `ready` has set what its
handler sets on the Agent (`SetAgent`); `begin` has swapped the gateway; `run` is
in the loop; `asked` waits for its user without `chatMu`; `restore` and `save`
are the way out. A turn is what `TurnLoop` makes of it: it answers the loaded
plan first and may hold a plan of its own. Requests of kind `plan` and `flow`
load before they queue, as the code does; `completion` takes no lock.

`SessionRequests` implements `SerialTurns` where no request loads early and askers
have a session to themselves: `turns` and `plan` are the stored session's, and
`took` is the plan a turn answered, once that turn is in a stored session.

### Compression

`Compactions(h, first, last)` is the set of histories `compressAt` may leave of
`h` for `first` and `last` protected messages: `Cuts` are the places
`determineCut` may choose when the token counts are any, `Align` moves a cut out
of a message's results, `Repair` is `sanitizeToolPairs`. `Each` makes one tool
message per call, in any order: `Split` does it to the results of a batch, as
`appendToolResults` does, and `Repair` to the placeholders of missing results.
`ModelRequests` applies `Compactions` to every history of the agent loop, twice
over, before `Sanitize`. A configured count of protected messages is taken only if
it is positive (`config.go:399-404`), which is what `ModelRequestsAssumption` says;
`ProtectFirst` leaves the system prompt out and may therefore be 0.

### WorkflowRunner

A session has a working state in memory (`mem`), the one last saved (`disk`) and
the status of its latest checkpoint (`cp`); these are saved at different moments
and each save may fail. A save is `os.WriteFile` (`infra/state.go:42`), which
truncates the file and fills it: one that fails, or that the process dies in, may
leave a file that `Load` refuses (`state.go:60`). That is `torn` for the working
state and "unreadable" for the checkpoint, until a later save goes through; `disk`
is the last complete one. A resume needs both files (`app.go:1179-1192`): without
them it returns an error and the session's steps are lost. `at` is the step. The
report service is external: it counts the `reports` of a stock, and a create may
be carried out although the answer is an error.

| Action | Code |
|---|---|
| `Start` | `runSkillWithSteps`: new session, working state saved |
| `Dispatch`, `StepRefused` | `processStep` up to the tool call; the context is cancelled, or the arguments cannot be built |
| `Apply` | `WorkingStore.Apply` of the answer, saved; a failed save fails the step; then the execution log, whose save of the same state may fail unseen |
| `Conclude` | log, checkpoint, then mark the key, skip an optional step, try once more, or fail |
| `ConcludeAgain` | the retry's answer: its save error is ignored and no checkpoint follows |
| `BeginPhaseB`, `NextStock`, `StocksDone`, `Finish` | the rest of `Run`; `Return` attaches the verdict |
| `Cancel`, `Crash`, `Resume` | the context; the process, between two saves or in one; `ResumePreMarketContext` |

Steps are identified by their place, as the code's step keys are by their name.
Saves of one state in a row (the two of `finalizePhaseA` and phase B) are one.
`created`, `lost` and `checked` are history variables: creates carried out, those
the session has no record of, and whether its own check found no report.

### JobScheduler

A cron tick that the running set lets through starts a chain: the tick, then
retries and deferrals, one at a time, each fired by a timer outside `runJob`.
`exec`, `truncate`, `write`, `decide` are one execution with its record; `retry`
and `deferred` wait for a timer. `RecordSkillVerdict` is three steps: read the
file, truncate it, fill it (`SaveJobs` is an `os.WriteFile`, `jobs.go:63`). Each may
fail, and `recordRun` drops the error (`scheduler.go:137`): the file then keeps the
older verdict or, truncated, cannot be read. What two overlapping writers leave
may not be readable either. `unrecorded` is a history variable, the jobs whose
latest verdict has no successful record. The skill's run is its verdict; `WorkflowRunner` is what produces it.

### ClarifyQueue

A call is two goroutines, `caller` (`waitClarifyWithAutoPick`, with its timer) and
`waiter` (`WaitWithRecommend`), and two channels of capacity one, `ch` and `done`.
`Take` is `Answer` under the lock, `Send` the send after it. A request looks at
the oldest question (`Look`), then answers whichever is the oldest by then
(`Post`, `SendPost`). The queue is a set with the number each waiter got when it
was appended.

### ToolBatch and LiveEvents

`ToolBatch` has the turns of one session one after the other, and under them the
goroutines of their batches, which may outlive their turn. It is the parallel
branch of `ExecuteBatch`: only batches of two or more calls that are all safe to
run beside others get there (`tool_exec.go:207`). Writes, clarify calls and
delegated tasks never are (`spec.go:131-139`), so that the branch's second
semaphore, for delegates, is never taken and not in the model. A goroutine takes a
slot, looks at the context, emits `tool_start`, runs, emits `tool_done`.
`Loop.emit` is a nil check (`LookForSink`) and a call
(`CallSink`) that read the sink twice. `LiveEvents` has the state file: `OpenEmit`
reads it and opens it for writing, `FillEmit` fills it, `Poll` is a tick of the
events stream. `Emit` and `EndTurn` drop the errors of both (`live.go:66`, 73, 92): a
file that cannot be read counts as an empty list, one that cannot be opened
loses the event (`DropEmit`), and one that cannot be filled the list (`lost`).

### EvalJobs

Each job has its row and items in the database, a goroutine with its count and
context, and an entry in the table of cancel functions. `Register` to `Leave` are
`runEvalJob` in its order; `CancelJob` and `CancelRow` are the two halves of a
cancel request; any statement may fail and only `Create` looks at the error.

## Runs

Model values stand for tools, messages, requests, users, sessions and jobs.

| Run | Shows | Bounds |
|---|---|---|
| `turn_loop` | consent, refusal, no second run without a loss, tool messages answer calls, refinement of `WriteConsent` | one read-only tool and two interchangeable writes, 3 turns (propose, answer, see what is left), 1 model call each, 1 lost turn |
| `turn_loop_gate_off` | with the gate off, provider ordering of every request, compacted up to twice with any cut; every turn ends | 2 turns of 2 calls, 1 quality retry, 1 lost turn; 0 to 2 protected messages before and 1 or 2 behind the cut |
| `im_gateway` | dedup, waiters, no turn saved over another (refinement of `SerialTurns`), progress but for one deadlock | 4 events on 2 chats, one of them redelivered, cache of 2 ids, 1 question per turn |
| `im_gateway_returns` (violation) | the deadlock | 2 events on one chat |
| `tenant_gateway` | whose model a turn uses, one live connection per bot, table and connections follow the database | 2 users with 2 credentials, an event for each bot, any first contents of the database; 2 inputs of changes, incomplete lists, failures and events together; a shutdown at any time |
| `session_streams` | own gateway and sink, plans answered once, no turn saved over another (refinement of `SerialTurns`), others served | 5 streams, two of which ask, three on one session |
| `session_plans` | the early loaders, an evaluation and an anonymous completion leave the turns under `chatMu` their approval | 6 requests on one session, 1 refused save |
| `workflow_runner` | duplicates and unchecked creates have a cause, a resume finds all completed steps but one, what "completed" and "pass" promise | the post-market workflow on two stocks, one of which may have a report already; any save may fail or break off, 1 crash, 1 resume |
| `job_scheduler` | retry budget, the job file, termination | two jobs, one waiting for synthesis; 2 and 1 ticks, 1 retry per tick, 1 crash; any read or write of the file may fail |
| `clarify_queue` | no sender blocks, answers reach their call, unanswered only for a cause, oldest first, every call returns | two turns with two and one questions, one without choices; 1 request |
| `tool_events` | whose events a sink carries, the polled events in order and complete | a batch of 2 calls and a second turn, a list of 5 events; up to 2 reads, opens or writes of the file fail |
| `eval_jobs` | status and cases agree, a cancellation holds, jobs end | 2 jobs of 2 cases, 2 cancel requests, 1 failing statement, 1 crash |

The bounds are small because the hazards are: each needs at most three actors
(two that interleave and one that would notice), one question, one loss. The
call budget is 1 where plans are at issue (a resumed turn has a second batch
within it) and 2 where termination is. Two writes are needed for a plan that is
partly run when its turn is lost; they are symmetric. `session_streams` has each
asking stream on a session of its own, which is what `SerialTurns` needs there;
it has users only: overlapping clarify calls may leave a user's gateway on the
Agent (see below), which is what a request without a user then runs on. Two
inputs are what a race of the tenants needs: credentials replaced and withdrawn
while a connection is dialled, or one change and a list that lacks it; and two
events are two turns on one Agent. Two stocks are needed for one that
fails while the other goes on; two ticks of a job for a retry that outlives the
next one's reset; the list of events holds the events of the first turn where it
is not cancelled, and is cut in the second; two failures of its file are one that
loses the list and one that meets the list begun anew. What the proofs state for
every value is checked here for a small one; only the liveness properties rest on
the bounds alone.

Deadlock checking is off for the agent loop, the gateways and the HTTP requests:
events, requests and turns are finite in number, and the system stops when they
are done; what may not stop early is stated as liveness. The other modules have a stuttering action for
states in which all is over (`Quiet`, `Over`, `Settled`, `Terminated`) and are
checked for deadlock. That a workflow run ends is not stated as a property: its
steps are finite in number, each is tried at most twice, and it is never stuck.

## Fairness

- `TurnLoop`: the loop's own steps. Model and tool calls run under timeouts and
  every error path returns. Users, clients, crashes and failing saves owe nothing.
- `IMGateway`: each handler's steps, the clarify timer included (the tool's
  timeout is ten minutes, `tools/spec.go:44`). Nothing is assumed of mutexes:
  handlers are finite, so a mutex is in the end free for good or never.
- `TenantGateway`: the loop's steps, and that of the connections which could dial or
  hang up one does; each has two such steps, so in the end all do. A list that
  fails is a step not taken; that not every list fails is an assumption about the
  database. Handlers, users and the platform owe nothing.
- `SessionRequests`: what the server does of its own accord. Nobody has to send a
  request, and no user has to answer: a stream that asked may stay there for ever,
  and the others must be served nevertheless.
- `JobScheduler`: each chain's steps, timers included, and that the synthesis
  model gets ready at some time. Without the second a deferred job defers itself
  for ever, which is what the code does.
- `ClarifyQueue`: the two goroutines of each call, timers included, and the
  handler of a request that has come. Nobody has to answer.
- `ToolBatch`: the turn, each goroutine (tools end within their execution
  timeout), and a connected poller. Weak fairness of one goroutine does not
  promise it a slot against others; the calls are finite in number.
- `EvalJobs`: each goroutine and each cancel request that has begun.

## Proofs

Checked by TLAPS for all values of the constants that satisfy the assumptions
named in the modules. Three lemmas carry each development: the invariant holds
initially, each action preserves it (one step per action), and it implies the
property.

`TurnLoopProofs`
- `TypeCorrect`: `TypeOK`, and with it that the call budget is never exceeded.
- `Consented`, `StaysRejected`, `RunsOnce`: `MutationConsent`,
  `RejectedStaysRejected` and `RerunOnlyAfterLoss`, from the invariant `TurnInv`.
  None is inductive alone: that a refused plan stays refused needs that call ids
  are fresh (`Fresh`), that a new plan is not the stored one (`NewPlanIsNew`) and
  where plans and unfinished writes can be at all (`PlanPlaces`).
- `ResultsAnswer`: `ResultsAnswerCalls`, of the turn's history and the stored one.
  Calls without an answer are exactly those of the batch at hand and of a held plan
  (`Pending`), call ids in a history are known ones (`Known`), and so the tool
  message that a batch appends names calls before it that no other one names.
- `Implements`: `Spec => Consent!Spec`. Each action is an abstract one or a
  stutter; `Save` and `LoseTurn` are `Settle`.
- `RequestsWellFormed`: `RequestWellFormed` with the plan gate off, for histories of
  any length, any cuts and any number of protected messages. A request is well
  formed if each message may follow the one before it given the calls still open
  (`Link`, `Chain`). `Split`, `Repair`, `Compactions` and `Sanitize` are followed
  through as functions on chains (`ReachSplit`, `ReachRepair`, `ReachCompact`,
  `SanitizedIsFormed`): each result of a batch stays behind its calls, a cut does
  not fall among a message's results, and what a cut leaves without an answer gets
  a placeholder. The folds and `FlattenSeq` are recursive functions of the
  library, unfolded one step at a time; the inductions are over a position in one
  given history, by the least counterexample. The invariant `RequestInv` says that
  the history of a turn is a chain in every state of the loop, and one with no
  call open where the model is called. `~PlanGate` is needed: with the gate on TLC
  refutes the property (see below). The tools are assumed finite in number, since
  the results of a batch are put in a sequence.

`IMGatewayProofs`
- `Serialised`: `OneTurn` (no run checks it on its own); locks are held where `pc` says so (`LocksHeld`).
- `WaitersLive`: `WaiterIsLive`. It needs that only one handler is in a clarify
  call, hence `LocksHeld` again: a later wait of the same chat would overwrite.
- `HistoryIsKept`: `HistoryKept` although the chat lock is open during a clarify
  call; the argument is that `agentMu` is not, so the session a turn loaded is
  still the stored one (`LoadedIsStored`).
- `DedupHolds`: `DedupWindow`, for any size of the cache: the cache is the end of
  the sequence of accepted ids (`CacheIsEnd`), so an id that has left it has at
  least a cacheful of newer ones behind it.
- `GatewayIsSerial`: `Spec => Serial!Spec`, from `LoadedIsStored`, and that a turn in
  a stored session is over (`SavedIsOver`): what a turn saves is what is stored
  and itself, and it saves once. `TenantsAreSerial`: the same of `TenantSpec`.
- `TenantsShareGateway`: `TenantSpec => Spec`. Every step of the many-tenant gateway
  is one of `IMGateway` or leaves its variables alone, so the results above hold
  across tenants.
- `OneConnection`: `LiveIsInTable`, because connections are numbered as they are
  made (`Numbered`) and a stop cancels the context whether or not it finds the
  client. `OwnersGateway`: `OwnersModel`, because whoever swaps the gateway found the
  Agent's own there (`SwapsFromBase`), and that because `agentMu` is kept during a
  clarify call.

`SessionRequestsProofs`
- `SessionTypes`: `TypeOK`. `StepMutex`: `chatMu` is held exactly where `pc` says
  so, by any request that takes it, whatever completions do.
- `AgentIsOwn`: `AgentIsMine`, if no request is a completion and each comes from a
  user (`AllLocked`, `AllUsers`). Both are needed: without one or the other the
  Agent is shared with a request that does not set or does not hold it. The
  invariant adds to mutual exclusion that nobody's sink is set while `chatMu` is
  free (`SinkOfHolder`), which is why a request that sets none reports to none.
- `HoldersApproval`: `HoldersOwnApproval` with the plan gate on, for all kinds of
  request; the gate is off only while an evaluation holds `chatMu` (`GateOfEval`).
  With the gate off in the configuration it does not hold (see below).
- `PlansOnce`: `PlanAnsweredOnce`, if a request that reads its session before
  `chatMu` shares it with no other (`EarlyAlone`); `KeepsHistory`: `HistoryKept`, if
  in addition a stream that may ask its user has its session to itself
  (`AskersAlone`). Completions may share anything. TLC refutes either property
  without its hypotheses, which is what "HTTP requests" below is about. No session
  in a request's hands is older than the stored one (`Fresh`); a plan in a session
  is the request that proposed it, over by then, and no stored one is settled
  (`PlansHeld`, `Unsettled`), although saves may be refused in between.
- `SessionsAreSerial`: `Spec => Serial!Spec` under the same two hypotheses. The
  session in a turn's hands is the stored one but for what the turn itself did to
  it (`InHand`), and a turn in a stored session is over (`TurnsOver`), so that its
  answer no longer changes. `SavedAnswersOnce` is a consequence, proved of the
  abstract specification (`PlansOfTurns`) and carried over by the refinement: no
  plan is answered by two turns that are in a stored session.

`WorkflowRunnerProofs`
- `RunnerTypes`: `TypeOK`. It needs that a step's place is one of the list it is
  in (`Positions`) and that an answer fits its tool (`AnswersFit`): together `TInv`.
- `StepLoss`: `AtMostOneStepLost`, which is about resumes and the state in memory
  when the run ended or died. The invariant (`Kept`) is finer: after each complete
  save of the working state the two are level, and a key is marked at most once
  before the next one, because a step whose first save fails does not go on. Only a
  resume reads the file (`ResumeOnly`), and one whose file broke off is refused, so
  the last complete save is what it goes on from. It holds for every list of steps
  and whatever saves fail or break off. `torn` is kept apart from the rest of the
  state (`Types`, `TornOK`, `ButFiles`), which the other proofs do not look at.
- `Duplicates`: `DuplicatesHaveCause`; `CheckedFirst`: `CreatedAfterCheck`;
  `PassDelivers`: `PassMeansDelivered`; `NoneForgotten`: `NoStockForgotten`.

The last four speak of crashes, resumes and overlapping sessions, so each action
is first reduced to what it does to the session that takes it (`Moves`; the
other sessions see only that the service may hold more reports), and then each
property has one invariant, of the state in memory and of the one on disk:
- the walk (`WalkInv`): the steps before the one at hand are complete, it is not,
  and no stock has a key or a status before phase A is complete;
- creates (`CreateInv`): a create is on record (the stock's status or the key of
  the step), in flight, or counted as lost, and at its step there is none yet;
- checks (`CheckInv`): a completed check has found no report, or there is one and
  its stock is skipped, the latter unless a save failed;
- the phase (`PhaseInv`): "done" in the working state, which a resume believes,
  has every listed stock reported or skipped;
- truth (`PassInv`): a status agrees with what the service holds, and a verdict
  was given for such a state;
- settling (`SettleInv`): unless a save failed, the disk has the statuses the
  running session believes in, and every stock the loop has passed has a final one.

Their hypotheses are about the step lists, which are constants, and hold of the
lists in the code: at most one and at least one create per stock (`OneCreate`,
`SomeCreate`) and a check of today's reports before it and before a look at the
daily reports (`ListFirst`) in `premarket/stock.go:23-75` and
`postmarket/workflow.go:17-53`; the trading day asked for before the stocks
(`ChecksFirst`, `postmarket/workflow.go`; the pre-market phase A does not ask).
`ChecksPhase` is what `intraday_stock` lacks, and `PassDelivers` does not speak of
it. `~Backfill` excludes a run for another date than today: there "done" may be a
non-trading day's, and a resume settles nothing (see below). That no stock has the
code `"A"` (`BotsAssumption`) keeps the step keys of phase A apart from those of
stocks. The run's instance satisfies all of these.

`JobSchedulerProofs`
- `SchedulerTypes`; `TicksExclude`: `TicksExclusive` (no run checks it on its own).
- `RetriesBounded`: `RetryBudget`. Not inductive alone, since a tick resets a count
  that older chains still read: while a chain of a job is alive, the retries so
  far and all that the count still allows fit into the budget (`Budget`).
- `FileHonest`: `HonestFile`, with records that fail in any way. With no overlap there
  is one record at a time, and it writes on top of what it has read (`FileInv`): a
  record that fails leaves its own jobs unrecorded and the verdicts of the others
  as they were, or an unreadable file, over which no record can write.

`ToolBatchProofs`
- `BatchTypes`; `Settled`: `BatchSettled` (proved only); `EventsStayHome`: `OwnEvents`. A goroutine
  that is alive beside another turn belongs to a cancelled one, because the only
  way out of the spawning loop past `wg.Wait` is the early return (`Batches`).
- `StreamInOrder`: `InOrderOnce`, for any length of the list, on a second invariant
  (`LiveInv`) from the emitter to the client. No event is emitted twice, because
  whoever emits it is past it then and for ever (`Past`, `Emissions`); while one
  publisher writes at a time the file, or the copy its writer holds, is the end of
  what was emitted, cut or not (`Listed`, with `EndGrows`); what was pushed is in
  order, and none of it lies behind the place the poller goes on from (`Pushed`). A
  failing read or write only ever makes the list shorter, its end being empty too.

`ClarifyQueueProofs`
- `QueueTypes`; `NeverBlocks`: `AnswerNeverBlocks`; `AnswersArrive`: `UsersAnswer`;
  `UnansweredOnlyFor`: `UnansweredHasCause`. One invariant carries all: a waiter is
  taken by at most one sender (`TakenOnce`), and what is in a channel was sent by
  the one who took it (`Route`).
- `OldestIsAnswered`: `OldestFirst`. Calls are numbered as they enter the queue
  (`Numbered`), and one that is there no more was taken or has ended (`Departed`):
  an answer that was matched with the oldest question therefore goes to a younger
  one only for one of the causes listed.

`EvalJobsProofs`
- `JobTypes`; `VerdictsAgree`: `VerdictAgrees`. Until someone cancels, the
  goroutine's count tells of exactly the cases off its list (`Good`); a verdict it
  is about to record, and a recorded one, agree with the items.
- `Cancelled`: `CancelHolds`. Between start and verdict a job whose row is cancelled,
  or is about to be, has a context that says so, or the request came before there
  was one to cancel (`Settling`). In the first case the goroutine begins no case
  and records "cancelled"; the second is the exception `CancelHolds` makes.

Only model-checked: liveness (`TurnEnds`, `AllHandled`, `ServedWhileOthersAsk`,
`ChainsEnd`, `CallsReturn`, `StreamCatchesUp`, `JobsEnd`,
`FollowsDatabase`), which needs fairness and `ENABLED` and is beyond the provers
at hand. All invariants, action properties and refinements of the runs are stated
by a theorem, some under the hypotheses above. Induction over data is possible only
where it is over the positions of one history, as in `RequestsWellFormed`; the
library's induction theorems, which take an operator, are not used so.

## Where code and documentation disagree

One run is answered by TLC with a counterexample (`findings`): in the IM gateway
a clarify call holds `agentMu` and waits for the chat lock, the next message of
the chat the other way round. Both wait for ever, and with them every chat.
`clarify_hub.go:31` promises that a wait ends with an answer or the context.
Others are listed in the next section with the line they disagree with.

## Seen while modelling

What the models show, or what one meets reading the code for them, and what the
properties above therefore allow for. These are the limits of the runs that pass.

Agent loop
- A held plan that is refused leaves tool calls in the history that nothing
  answers; with the gate on `RequestWellFormed` does not hold (`messages.go:5`
  promises intact tool sequences). It is checked and proved with the gate off.
- A confirmed plan approves every later write of its turn (`loop_plan.go:29`);
  `WriteConsent` grants for a turn.
- A cancelled batch returns at once (`tool_exec.go:228`) and its goroutines run on:
  they write into the results the loop reads, emit into the next turn's stream, or
  call a sink that has become nil since it was looked at. `OwnEvents` bounds this
  to turns after a cancellation.

Live state
- The list of events is cut at 40 while the stream remembers how many it has
  seen: after the fortieth event of a session it sends nothing more.
  `StreamCatchesUp` is stated until the first cut.
- `StateStore.Save` truncates and fills; two publishers of a session, or a write
  that fails, can leave it unreadable, which the next one takes for an empty state.
  The stream goes on from the count of the old list and skips as many events of the
  new one: `StreamCatchesUp` is stated until the list is lost. An event whose file
  could not be opened is in no list (`live.go:73` drops the error).

Gateway of many tenants
- A connection that fails by itself stays in the table, and nobody dials again until
  its user's credentials change (`runner.go:160`), though `runner.go:16` says
  "keeps them connected". `FollowsDatabase` is about the table and about
  connections that should not be, not about those that should.
- Stopping a tenant does not wait for its handlers; they go on to answer.
- All tenants share one dedup cache keyed by message id (`handle.go:15`): if the
  platform uses one id for a message to two bots, one of them does not see it.
- The fingerprint of credentials (`feishustore/store.go:156`) lacks the group
  policy, the bot's id and the home channel: changes of these are not reloaded.

HTTP requests
- `chatPlan` checks for the plan before `chatMu` and not after (`plan.go:52`): two
  confirmations execute one plan twice, a confirmation may execute a refused one.
  `PlanAnsweredOnce` is checked where plans are answered by streams.
- A stream that asked its user saves its old copy of the session over what other
  requests of the session saved meanwhile (`chat_stream.go:191`).
- Clarify calls that overlap with requests that swap the gateway leave a user's
  gateway on the Agent (`user_llm_settings.go:102`).
- An evaluation turn switches the gate off and approval on for the shared Agent;
  completions, which take no lock, run with both, and may take a running
  stream's gateway.
- With `plan_gate=false`, a stream back from a clarify call, and a flow resume, run
  with the approval function of an earlier request.

HTTP clarify
- An automatic pick goes to the oldest question of the session, not to its own. A
  request told "ok" may have answered a call whose turn was cancelled or whose
  timer has already picked. A skip of a question with choices is overridden by
  an automatic choice in the tool (`tools/clarify.go:76`).

Workflows
- An error, or a crash, inside a save of the working state or of a checkpoint may
  leave a file that cannot be read. The session cannot be resumed then: all its
  steps are lost to it, though the checkpoint holds a copy of the working state
  that nobody reads (`infra/state.go:105`). `AtMostOneStepLost` is about the resumes
  that go ahead.
- The retry's answer is saved with its error ignored and no checkpoint: a resume
  may then create a report without a check on record (`unsaved` in
  `CreatedAfterCheck`). If the checkpoint after a create fails, the stock counts as
  failed and a resume creates again.
- "completed" is the status of a run some of whose stocks failed; its checkpoint
  says so too, and it cannot be resumed. A run that finds no stock at all ends in
  phase B, with the verdict recoverable.
- The acceptance checks of `intraday_stock` do not look at the phase
  (`ChecksPhase`): `PassMeansDelivered` is checked for the skills that do.
- A resume that finds the phase "done", which a non-trading day sets in phase A
  even of a run for another date, returns "completed" with nothing done. A resume
  takes the default MCP token and calls no supervisor.

Scheduler
- Two records that overlap lose a verdict or leave the job file unreadable, and so
  does one whose write fails; later records then end in silence and the scheduler
  does not start again. `SaveJobs` is "atomically-ish" by its own comment
  (`jobs.go:53`).
- A deferred job re-arms itself uncounted. The verdict of a market with several
  users is the last user's (`stock_users.go:75`).

Evaluation jobs
- A job whose items cannot be read passes. A cancel request before the cancel
  function is registered leaves a row "cancelled" that the running job overwrites.
  After a crash rows stay queued or running for ever.

## Not modelled

The models cover the code with control worth checking: what is shared, waits,
fails half way or must end. Most of the remaining hundred thousand lines has
none of it: terminal interfaces and Markdown rendering (`internal/cli`), market
data formatting, prompts and option tables, the handlers of single tools and
clients of external services (one call, one mapping of fields), dashboards and
CRUD over SQL, server bootstrap. A state machine of such code would restate it.
Hence the share of lines the map covers is small and will stay so.

Within the modelled parts: contents (prompts, routing, wording, evidence), SQL and
file I/O but for success, failure and half-written files (errors reported after a
complete write count as none), external services but
for the outcomes of a call, access checks, sub-agents. In `IMGateway` adapters and
progress messages; in `SessionRequests` memory and consolidation after a turn; in
`WorkflowRunner` the arguments of steps, the three-step legacy keys of an hourly
bundle, and the single acceptance checks but for phase and failed stocks.

In `TenantGateway` the heartbeat file, sending, and the normalisation of events.

`PROJECT.json` gives the status of every component.

## Plan

Done: the modules above, each with the runs and theorems listed. What would come
next, in the order of its worth:

1. The chat workflow state machine (`internal/workflow/chat`) over `TurnLoop`.
2. Theorems with weaker hypotheses: `NoStockForgotten` for a run of another date
   that is not resumed, and the results of `JobScheduler` for a file with lost
   records.
3. `WorkflowRunner` composed with `JobScheduler` by its verdicts, to follow a retry
   into a second session of the same stocks.
