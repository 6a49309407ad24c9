# Verification of OpenKin's task core

OpenKin is a daemon (`kin`) that runs coding agents as tasks: users create tasks, send
follow-ups, interrupt, cancel and retry them from several devices; the daemon starts agent
processes in bounded number, on its own machine or on others, relays their permission requests
and questions, keeps a git worktree per task and merges what it produced, waits out rate
limits, starts tasks on a schedule, and recovers all of it after a restart. This directory
holds TLA+ models of that core, TLC configurations that check them on small instances, and
proofs checked by TLAPS that hold for any number of tasks, messages, executions, slots, asks,
generations, commits, routines, steps of a plan, connections, failures and crashes.

    tlc -workers 2 -config EngineRequests.cfg MCTaskEngine.tla
    tlapm TaskEngineProofs.tla

| module | what it is |
|---|---|
| `TaskEngine` | start queue, executions, cancel, follow-up, interrupt, restart |
| `TaskLifecycle` | abstract: what the engine promises about a task |
| `TaskRefinement` | the mapping from the one to the other |
| `MCTaskEngine` | symmetry for TLC; the `Engine*.cfg` run it |
| `TaskEngineProofs` | theorems about the engine, and that it implements `TaskLifecycle` |
| `Approvals`, `MCApprovals` | permission requests and user questions of a task |
| `Workspaces` | worktrees: provisioned, completed, merged, removed, recovered |
| `RetrySaga` | retry: cut the history, restore the files, undo or complete |
| `LimitWaits` | durable waits for a quota to reset |
| `Routines` | scheduled and requested runs, each exactly one task |
| `WorkerGroups` | an orchestrated turn: waves of agents working on one plan |
| `NodeTurns` | turns on another machine, over a connection that breaks |
| `NodeApprovals` | the questions of such turns, across the same connection |
| `AgentProofs` | theorems about `Approvals` and `WorkerGroups` |
| `WorkspacesProofs`, `RetrySagaProofs`, `LimitWaitsProofs`, `RoutinesProofs`, `NodeTurnsProofs`, `NodeApprovalsProofs` | theorems about the module each is named after |

## 1. Inventory

Paths are under `src/internal/` unless they say otherwise.

**Task engine** (`task/engine.go`, `task/approvals.go`). *State:* the rows of `tasks`; under
`Engine.mu` the start queue, the count `active`, and per task the current execution
(`activeRuns`), its handle, the cancellation mark, the committing mark, a parked follow-up
and the label of the message a start owes. *Operations:* `Create`, `pump`, `startOne`,
`runLoop`, `finishRun`, `failStart`, `Cancel`, `FollowUp`, `interruptAndFollowUp`,
`deliverQueued`, `applyFollowUp`, `Recover`, `Delete`, `Retry`. *Hard:* every operation is a
string of critical sections and store statements, and the row, the maps and the process are
three records of the same turn. *Correct when* slots add up, no start is lost, at most one
turn of a task runs, a task ends once, a cancel sticks and stops the agent, an accepted
message is delivered or accounted for, and a restart leaves no row without an owner.

**Pending prompts** (`store/pending_prompts.go`). A durable queue per task: append, pop of
the oldest, discard with report. *Correct when* order is kept and nothing vanishes.

**Approvals and user questions** (`task/approvals.go`, `task/user_questions.go`, their store
files, `approvalbridge/client.go`, `approvemcp/server.go`). *State:* a row per ask, waiter
channels in memory, the task's `waiting_approval` / `waiting_input`. *Operations:* request,
decide or answer, long poll, expiry by ticker and by poll, deny on cancel. *Hard:* four
parties settle one ask, and the task row is written without a guard. *Correct when* the agent
is told what is on record, every ask is settled, and an ended task stays ended.

**Workspace generations** (`task/workspace_lifecycle.go`, `workspace/finalize.go`,
`workspace/generation.go`, `store/workspaces.go`). *State:* a row per generation from
`provisioning` to `released`, the worktree and its branch, a lock per generation path.
*Operations:* request, provision, claim and begin for a turn, complete, finalize (inspect,
snapshot, commit, check, merge, record, release), promotion of a task, cancel, reconcile at
start. *Hard:* the user works in the same repository, and rows and git are two stores.
*Correct when* no commit is lost, work is merged once, what is reviewed is the agent's own,
and a completed generation is released or blocked.

**Retry and restore** (`task/approvals.go`, `task/engine.go` 3400-3742, `store/retry.go`,
`workspace/prepare.go`, `checkpoint/`). A saga over history, files and the row, with a durable
intent; recovered after a crash. *Correct when* a retry is done or undone as a whole and the
turn starts in a session that has forgotten what was cut.

**Quota waits** (`task/limit_continue.go`, `task/limit_policy.go`, `store/limit_waits.go`). A
task out of quota waits durably; timers claim the wait and retry the turn. *Correct when* a
wait always has a wake-up, is claimed by one worker, and ends.

**Routines** (`routines/scheduler.go`, `store/routine_dispatch.go`, `store/routines.go`,
`task/routine_hook.go`). Claim with a lease, ledger row, task, outcome. *Correct when* one due
time makes one task across crashes, the lane leaves room for people, and no run is forgotten.

**Nodes** (`node/`, `api/node.go`). The Hub dispatches a turn down the connection the machine
has opened; events carry sequence numbers; questions travel up and decisions down. *Hard:*
either side notices late that the connection is broken, and a newer one displaces the older.
*Correct when* the transcript has no holes, a turn ends on both sides, an agent is told what
the record shows, and nobody waits on a dead connection.

**Orchestration** (`task/orchestrate.go`, `task/plan.go`, `store/worker_steps.go`). *State:* a
plan split into waves, a ledger row per step, the group's handles under `Engine.mu`, one
goroutine per worker. *Operations:* plan, persist, start, register, forward, second attempt,
record, finish, cancel, interrupt, delete. *Hard:* a worker is checked, started, checked again
and registered in four steps, in several goroutines, while the group is being stopped. *Correct
when* writers work alone, nobody works before what it builds on, a cancel reaches every agent
and a finished turn leaves no agent and no open step behind.

**Around them:** event writer and bus, agent adapters, registry and routing, providers,
HTTP/MCP/A2A servers and authentication, hub and remote transports, GitHub and connectors,
sessions, notifications, terminal, secrets, skills, evaluation, browser worker; `cmd/`, the
console, desktop and mobile apps. They call the core or are called by it. `PROJECT.json` lists
all of them with the reason each is left out, and every hazard with its line.

**Interactions.** Servers, routines and quota timers call `Create`, `FollowUp`, `Retry`,
`Cancel`. The engine calls adapters (`Start`, `Cancel`, an event channel; the node adapter is
one of them), the store (SQLite through one connection, so a statement or transaction is
atomic) and the workspace manager. The agent's process calls back through the approval bridge,
which moves the same row the engine moves. `Retry`, `FollowUpWith` and `Cancel` hold `retryMu`
from end to end, so there is one of them at a time; everything else interleaves.

**How the modules meet.** `TaskEngine` has the turn in detail and knows of workspaces only
whether finalization succeeds, of quota waits and retries nothing: `Workspaces`, `LimitWaits`,
`RetrySaga` and `WorkerGroups` have a coarse turn of their own (queued, running, ended, with
what the engine guarantees of it in `TaskLifecycle`) and their subject in detail. `NodeTurns`
is what stands behind an adapter's handle when the agent is elsewhere; `NodeApprovals` has the
connection of `NodeTurns` with its turn reduced to open or over, and takes the effects on the
task row from `Approvals`.

## 2. The engine

### `TaskEngine`

One step is one hold of `Engine.mu` or one store operation. `proc` is the program counter of
every goroutine: one per execution (`startOne`, then `runLoop`), one for the user request that
holds `retryMu` from end to end (`Api`), one in `Engine.Recover` (`Recovery`).

| model | code |
|---|---|
| `row` | `tasks`: status, prompt, whether a lazy workspace is ready |
| `pending` | `task_pending_prompts` |
| `queue`, `active`, `pumping` | `Engine.queue`, `Engine.active`, a goroutine inside `pump` |
| `mem` | `activeRuns`, `handles`, `canceled`, `workspaceCommitting`, `pendingFollowUp`, `queuedMessage` |
| `creating` | tasks `Create` has inserted and not yet queued |
| `sent`, `handed`, `reported`, `ends` | history: messages accepted, given to an adapter, accounted for by an event; terminal writes since the task was queued |
| `CreateInsert`, `CreateEnqueue` | `Create` |
| `PumpPop`, `PumpReturn` | `pump` |
| `StartCheck` … `Register`, `StartFails`, `FailEvent`, `FailFinish` | `startOne`, `StartQueuedTask`, `failStartWithExecution` |
| `Exit`, `FinalizeSucceeds`, `FinalizeFails`, `Promote`, `Requeue`, `Reread`, `Finish`, `Unwind` | `runLoop` after the process is gone, `finishRun`, the deferred clean-up |
| `Pop`, `Write`, `Invalidate`, `Enqueue`, `ReportReplaced`, `ReportRefused` | `deliverQueued`, `applyFollowUp`, `reportUndelivered` |
| `CancelBegin` … `CancelFinish` | `Cancel`, `cancelTask`, `cancelUnstarted` |
| `FollowUpBegin` … `FollowUpResume` | `FollowUpWith`, `queuedFollowUp`, `interruptAndFollowUp` |
| `Restart`, `RecoverNext`, `RecoverDone` | death of the daemon, `FailOrphaned`, `Recover` |

Left out: prompt texts, agents and models, workspaces but for "finalization succeeds or
fails", worker groups, the retry saga, quota waits, and failures of the store itself.
`waiting_approval` and `waiting_input` count as running: no handler here treats them apart.

Bounds: `MaxCancels` and `MaxRestarts` count requests and crashes; `Msgs` is the number of
messages users send; execution ids are used again when nothing refers to them any more, so
`Runs` bounds how many executions exist at once, not how many there are.

### `TaskLifecycle` and the refinement

The abstract task has a status, one execution in charge, and there are as many working
executions as slots and at most one open request of a user. Its actions (`Create`, `Take`,
`Claim`, `GiveBack`, `End`, `Requeue`, `Dismiss`, `Ask`, `Answer`, `Cancel`, `Crash`) say who
may do what: only the execution in charge ends a task by itself, with the step that gives up
the charge; a cancel ends whatever is there and leaves nobody in charge; a canceled task comes
back by a user's message alone; a task runs while one of the slots is held for it.
`TaskRefinement` maps the row's status, the `activeRuns` entry, the executions between pop and
decrement and the request under `retryMu` to these four, and `ImplementsLifecycle` says that
every step of every goroutine is one of those actions or none. It is checked with cancels,
follow-ups and interrupts in every order (`EngineRequests`).

### `Approvals`

The row of one task, its asks, and for each ask three goroutines: the handler that creates it
(`asking`), the one that settles it (`settling`), and the agent's long poll (`poll`, `channel`,
`told`). A cancel denies permissions, then answers questions, then ends the task. The turn is
reduced to what it does to the row: `Exit`, `Crash`, `FinishTurn`, `FollowUp`, `StartTurn`,
`CancelWrite`, `Restart`. Time is `Age(a)`: the ask passes its time to live at some moment.
Statements may fail (`RequestFails`, `AppendFails`, `PollFails`): a decision whose event cannot
be appended is stored and announced, but a poll that made it by expiring the ask ends in the
error (approvals.go:203), and the client asks no more. `told` tells that failure from the
conflict a question's poll ends in when somebody else was first.
The two asks of a run are one permission and one question, because the code of the two
differs in exactly the places where they meet (`ListPendingForTask` and its counterpart).

## 3. What surrounds a turn

### `Workspaces`

A commit is the set of the commits it contains, itself included, so `git merge-base
--is-ancestor` is set inclusion and a merge is a union.

| model | code |
|---|---|
| `task`, `policy`, `gen` | `tasks` (status, current generation), `task_workspaces` |
| `tree`, `src`, `author` | the worktree of each generation; the user's checkout: its branches, the one it is on, whether it is dirty; who made each commit |
| `mem`, `lock` | engine maps and queue; `generationLocks`, whose key changes when a root is known |
| `RqLook` … `RqReady` | `RequestWorkspace` and `provisionWorkspace`, called by the run, the agent or recovery |
| `Pop`, `Requested`, `Claim`, `Begin`, `Resolve`, `Exit`, `Finalize`, `After` | `startOne` and `runLoop`, as far as they touch the workspace |
| `AgentCommits`, `AgentMerges`, `AgentRequests`, `AgentCompletes` | what an agent does |
| `CompleteReads`, `CompleteWrites` | `CompleteWorkspace`, which may arrive late: the row of the task and the generation are read, and then the generation is written, with its lock held from the one to the other but the turn free to end in between |
| `FzLock` … `FzReleased` | `finalizeWorkspace`: inspect, target, snapshot, commit, check, merge, record, release |
| `CancelAsk` … `CancelEnd` | `Cancel`, `cancelTask` |
| `UserCommits`, `UserDirties`, `UserSwitches`, `UserMerges`, `UserRemoves` | the user, in the same repository |
| `Crash`, `RecLooks` … `Recover` | death of the daemon, `reconcileWorkspaces`, the resume of a finalization |
| `RqFails`, `ClaimFails`, `ResolveFails`, `FinalizeFails`, `FzCommandFails`, `FzStatementFails`, `CancelFails`, `RecPassesOver` | a git command or a statement on the generation fails; `stuck` are the generations such an error leaves on the way, for nobody to come back to before the next start |

Left out: interrupts and queued prompts (`TaskEngine`), retries (`RetrySaga`), forks,
orchestrated turns, `legacy_pending` generations, deletion, and failures of the statements that
write the row of the task. `Manager.Release` returns no error. What the code does and the module
has, without a property that forbids it: a follow-up to a blocked generation under policy
`auto` runs source-read-only (`engine.go:2284`), under `worktree` in the blocked generation's
directory; recovery of a `ready` generation enqueues a task `FailOrphaned` has failed; a
provisioning that failed leaves its row current, so follow-ups conflict until a restart; a user
who switches branch between the check and the merge has the work merged into the other branch.

### `RetrySaga`

One step is one transaction or one git command; one saga is at work at a time (`retryMu`).
`BeginRetry`, `Prepare`, `Branch`, `Mark`, `Restore`, `Complete`, `Publish` are
`Retry`; `Cleanup`, `Unbranch`, `Rollback`, `Abort` its compensation; `Crash`, `Boot`,
`Requeue`, `Recover` the next start with `recoverRetryRestores`; `Start`, `Finish`, `Cancel`
the rest of a task's life. Any step may fail (`Fault`), those of recovery too, and a retry
whose history is cut may still fail to be published.
`tree` says what the directory holds (absent, the base, the checkpoint, later work) and
`session` whether the agent's session still remembers what was cut off. A retry whose session
reset fails leaves the task queued for the next start of the daemon.

### `LimitWaits`

One task. `cards` holds per user message the newest `limit_hit` after it, `row` is
`task_limit_waits` with claim, lease and epoch, `timer` the registry of `limitWaitCancel`,
`proc` the goroutines: `runLimitWait` (`Wake`, `Fired`, `Look`, `Claim`, `Check`, `WaitAgain`,
`Backoff`, `Rearm`, `Settle`, `Open`, `Reread`, `Again`, `Rewait`), the end of a run or
`Recover` arming a wait (`Policy`, `ArmCheck`, `Mark`, `Persist`, `Arm`), the retry they end in
(`RetryBegin`, `RetryCommit`, `RetryUndone`, `Continued`) and the request of a user (`Begin`,
`Patched`, `StopTimer`, `StopRow`, `Follow`, `CancelBegin`, `CancelWrite`). Time is three flags
that become true at some moment: the deadline (`due`), the last attempt (`expired`), the lease
(`late`). A cancel of a failed task that waits drops the timer before it looks at the status
(`engine.go:1924`), so the wait sleeps until the next start: the properties except it by
`stopped`. A dismissed card does not touch the durable wait, as in the code.

### `Routines`

`row` is `routines` (enabled, due, claim and lease, version), `log` is `routine_dispatches`
together with the task whose id each row reserves, `sch` the holder of `tickMu`. `TickBegin`,
`RecoverNext`, `RecoverDone`, `ClaimNext`, `Skip`, `Begin`, `Look`, `RecordOrigin`, `Create`,
`Settle`, `Complete`, `TickEnd` are the tick, `RunNow` a request by hand or over MCP, `Toggle`,
`Reschedule`, `Delete`, `FollowUp`, `CancelStuck` what users do, `Restart` the daemon. The ledger
may begin with the row of a request that died with the daemon before.

What goes wrong on the way has actions of its own: a read or a claim fails (`GiveUp`,
`OriginUnread`), a check refuses (`Refuse`), the ledger row cannot be settled (`SettleFails`).
`Engine.Create` is one step when it succeeds; when it reports an error, what it has left depends
on where (`Left`): no task, a failed one, a queued row that it could neither queue nor take back
(`stuck`), or, when only its last statement failed, the one that reads the task again
(engine.go:1769), a task like any other (`live`, and `loose` if recovery made it, which does not
count it). A client that gives its request up takes the clean-up with it (`CreateAbandoned`),
because `runNow` and `Create` work on the context of the request.

Left out: a user who deletes the task of an occurrence between the crash of a tick and the next
one, which would find its reserved id unused and create it again, so `OneRunPerOccurrence` is
about occurrences whose tasks are kept; the
eval lane (whose `failRoutineStart` writes a stale `enabled` back), retries of routine tasks,
`waiting_input` tasks (a restart leaves them in flight, so a lane of one is blocked until the
user acts), the report signal, the columns that are only shown. The failure counter is
abstract: any failure may trip the breaker.

### `WorkerGroups`

One turn of one task, from the point where `startOne` hands it to `runOrchestrated`. A plan is
any assignment of accesses and of earlier steps to build on, so all plans of `N` steps are
initial states; `PlanWaves` is the algorithm of the code, as a function.

| model | code |
|---|---|
| `plan`, `waves` | `DelegatePlan` with the access and the dependencies of its steps; `PlanWaves` |
| `step` | `task_worker_steps.status`; `Patched` is its guarded update |
| `group`, `activeRun`, `canceled`, `parked` | `handleGroups`, `activeRuns`, `canceled`, `pendingFollowUp` |
| `orch`: `Plan`, `Persist`, `BeginWave`, `Accept`, `Start`, `Accepted`, `Register`, `Update`, `Check`, `Wait`, `Look` | `runOrchestrated`, with `startWorkerWithFallback` inlined |
| `Finish`, `Ends` | `finishOrchestrated` |
| `worker`: `Notice`, `EventsEnd`, `TryAgain`, `StartAgain`, `RegisterAgain` | the goroutine of a worker: `forwardWorkerEvents`, the retry of an answer that is none, the runtime fallback |
| `api`: `CancelMark` … `CancelFinish`, `Interrupt` … `Deliver` | `cancelTask`, `cancelUnstarted`, `interruptAndFollowUp`, under `retryMu` |
| `DeleteForget`, `DeleteErase` | `Delete` after its cancel: the maps, then the rows |
| `NextTurn` | `pump` and `startOne` of the turn that follows |

Left out: what the events say, texts and budgets, the host that refines a plan, the
workspace of the workers (a promotion that fails ends the turn like a plan that cannot be
stored), and the chain of providers inside one start, which repeats the check it begins with.
An ordinary dependency is "an earlier step": the code finds it in the text of the step.

## 4. Turns on other machines

### `NodeTurns`

`sock`, `up`, `down` are the connections: frames arrive in order or not at all, either side may
notice late. On the Hub `table` is `Connections.byID`, `handler` the goroutine per connection
(`Attach`, `Abandon`, `ClosePrevious`, `HubReads`, `PushHeld`, `Detach`), `turn` the adapter's
start and the turn's buffer (`GetConnection`, `Open`, `Dispatch`, `Deadline`, `EngineReads`,
`EngineCancels`, `CancelDevice`, `Grace`), `fails` a `Turns.fail` under way, which pushes its
reason (`PushReason`) and closes the turn (`CloseFailed`) in two holds of the lock: the
connection's handler may deliver an event between them, and so the reason is not always the
last entry of a transcript. On the machine
`dev` is its connection and `exec` the executor (`DeviceReads`, `Begin`, `Refuse`, `StartAgent`,
`Emit`, `AgentExits`, `Report`, `DeviceNotices`). `Connect` and `Break` are the network and the
client's reconnect loop. `LateAttach` is the assumption that a handler never attaches after a
newer one of the same machine has; the code does nothing to ensure it (section 8).

### `NodeApprovals`

The question of an agent on the machine (`agent`, `ask`), the relay there (`waiters`, `byID`,
`said`, `channel`, `answered`), the agent's bounded waits (`poll`, and `stale` for a handler
whose client has gone), and on the Hub the handler of the connection (`HubTakes`: turn
ownership, claim, row, link, answer), the table of open questions (`open`, `linked`, `stopped`,
`await`) and the row. The caps of 512 questions are refusals that may happen at any time; the
window of 256 remembered answers is not evicted. `StoreFails` says whether the store may fail
after the row is written.

## 5. Runs

Passing (`TypeOK` is in every row but those of `EngineRestart` and `WorkerGroups`):

| run | instance | what it asks |
|---|---|---|
| `EngineRequests` | 1 task, 2 messages, 2 executions, 2 slots; cancel, follow-up, interrupt | `SlotAccounting`, `OwnedRowLive`, `CancelSticks`, `ImplementsLifecycle`: all requests against every step of a turn |
| `EngineRestart` | 1 task, 2 messages, 2 executions, 1 slot, 1 crash; follow-ups; fair | `NoSilentLoss`, `OldestFirst`, and `TasksMove`: what is queued or running moves on |
| `Asks` | 1 permission, 1 question, 2 turns, 1 cancel, crash or failing statement; fair | `ToldTheDecision`, `NobodyWaits` |
| `Workspaces` | 2 generations, 2 messages, 2 commits, 1 trouble of any kind; fair | `NothingLost`, `ReviewIsOwnWork`, `RemovalIsSafe`, `OwnerCompletes`, `Settles` |
| `RetrySaga` | 2 tasks, 2 retries, 2 failing steps, 2 crashes; fair | `HistoryHolds`, `Undone`, `StartsFresh`, `ComesUp` |
| `LimitWaits` | 2 timers, 1 ending run, 2 turns, 1 request of any kind, 1 failing retry, 1 crash; fair | `WaitIsTended`, `WaitEnds` |
| `Routines` | 2 routines, one with policy skip, a lane of 1, 2 due times, 1 MCP request, before or after the start, 1 edit, 1 trouble; fair | `OneRunPerOccurrence`, `LaneLeavesRoom`, `RunsOfExistingOnly`, `NoneForgotten` |
| `WorkerGroups` | 2 steps in every plan, 2 requests (cancel, interrupt, delete); fair | `NothingLeft`, `WavesHold`, `CancelStops` |
| `NodeTurns` | 1 turn, 2 connections, 2 events, a buffer of 1; fair | `TranscriptHolds`, `BothSidesEnd` |
| `NodeApprovals` | 1 question, 2 connections; fair | `ToldTheRecord`, `QuestionIsKnown`, `NobodyIsLeft` |

Failing, one statement of the repository each:

| run | statement | what happens |
|---|---|---|
| `EngineOneTurn` | engine.go:2342 "A task runs one turn at a time" | an interrupt finds no handle while a start is inside `Adapter.Start`, takes back its mark, and starts a second agent beside the first |
| `WorkspaceCancel` | docs/plans/2026-07-26-workspace-generations-and-lazy-promotion.md:1615: a cancel before the integration blocks the generation and keeps the worktree | see section 8 |

**Why these bounds.** Two executions of one task are enough for "an old one and a new one", two
slots let both have one, and with one slot (`EngineRestart`) the second waits for the first; two
messages give an older and a newer one. That tasks do not lose the slot to each other is proved
for any number of them (`SlotsAccounted`, `StartsRemembered`). One cancel and one crash meet
every state of one turn and of its successor. A second generation is needed for what a late
request does to the next one's row, two commits for one by the agent and one by the user (or two
by the agent; an agent's merge can then only fast-forward, the merges that make a commit are in
the theorem `ReviewsAreOwnWork`), and one trouble is one cancel, one crash, one failing command
or statement, or one edit at any step of it all. Two connections are one and its replacement; a
buffer of one overflows on the second event (with a third, which shows what becomes of events
after the overflow, safety was checked: 1.4 million states). Two steps are a wave of two or two
waves of one, and two requests are an interrupt and the cancel or delete of what it leaves
behind. Two timers are a wait and the wait that replaces it. Two routines are needed for the
lane and for a tick that has several due; two crashes in `RetrySaga` let recovery itself die. In
`Routines` the requests of the run are those of MCP: a request by hand is one of them without
the step that records its origin, and both kinds at once were checked without liveness.
`ImplementsLifecycle` was also checked with a crash and one message (172 thousand states).

Symmetry over tasks, messages and executions is used in `EngineRequests`, which checks safety
only; no definition of the module orders these values. `CHECK_DEADLOCK FALSE`: the systems
may stop once the bounded requests are used up and every turn is over.

Where a property holds only for some requests, its run and its theorem name them. `NoSilentLoss`
holds for follow-ups, and until the daemon dies; `OldestFirst` for follow-ups and cancels. With
interrupts, a second one overwrites the message the first one parked (approvals.go:768). With a
cancel and follow-ups, a start that fails after the cancel drops the label of a message that the
next delivery has just put there; the text is still the prompt of the queued row, which the
property does not count. And a crash between the pop of a message and the write that re-queues
the row leaves it in no queue, and a restart forgets a parked follow-up.

Each property of a passing run has a mutant of a modelled definition, a plausible bug named in
the comment above it (`FailEventSilent`, `SettleForgets`, `FiredKeepsEntry`,
`SnapshotFromBase`, `ClaimableOnce`, `FinishLeavesSteps`, …), under which the run finds the
property violated: what a property says depends on the code and not on the shape of the model.

## 6. Fairness

Go schedules runnable goroutines and holds locks for short stretches, so weak fairness per
goroutine is what the runtime gives; every module assumes that, and nothing of users, who owe
no create, cancel, message, answer or edit. Beyond it:

- `TaskEngine`: agent processes exit (an assumption on the outside).
- `Approvals`: time passes, the expiry ticker ticks (`StartExpiryLoop`), and an agent that
  waits for nothing exits. Nobody has to answer.
- `Workspaces`: one goroutine recovers and then runs the turns one after the other; that of an
  agent's request, of a cancel and of a completion go on by themselves. Agents end; somebody
  starts the daemon again.
- `RetrySaga`: the daemon is started again and a queued task is started by the engine.
- `LimitWaits`: the deadlines pass, a run that is going on ends, a daemon that died is up again.
- `Routines`: the ticker ticks (`Scheduler.Start`), leases run out, agents come to an end. A
  tick may give up or die at any step, a bounded number of times. `NoneForgotten` is about a
  daemon whose lane is not lost for good (`LaneLost`, section 8).
- `WorkerGroups`: an agent that was told to end does. No other agent has to, so `CancelStops`
  is about agents that would work for ever.
- `NodeTurns`, `NodeApprovals`: a broken socket is noticed by either side (TCP
  keepalive), an agent whose context has ended exits, the calls and the waits
  have their timeouts and a question its time to live. The network owes nothing: no
  connection has to come back, and an agent nobody stopped may run for ever.

## 7. Proofs

Every safety property that a passing run checks is proved. A theorem is about the specification
of its module, for all values of the constants that satisfy the module's one assumption (finite
sets where something is counted, `None` and the other names distinct, at least one slot, turn,
step or connection); three theorems about messages also assume which requests users make, and
say so. The bounds that keep TLC's state space finite, such as `MaxCancels` or `MaxFaults`, are
arbitrary numbers here.

| module | theorem | states |
|---|---|---|
| `TaskEngineProofs` | `TypeCorrect` | `Spec => []TypeOK` |
| | `SlotsAccounted` | `Spec => []SlotAccounting` |
| | `MarkReleased` | `Spec => []CommittingIsReleased` |
| | `OwnerWorksOnLiveTask` | `Spec => []OwnedRowLive` |
| | `CanceledSticks` | `Spec => CancelSticks` |
| | `RunsEndOnce` | `Spec => RunEndsOnce` |
| | `StartsRemembered` | `Spec => []NoLostStart` |
| | `EngineImplementsLifecycle` | `Spec => ImplementsLifecycle` |
| | `MessagesInOrder` | `Spec => OldestFirst`, if users only follow up and cancel |
| | `NoMessageLost` | `Spec => []NoSilentLoss`, if users only follow up |
| | `OneTurnWithoutInterrupts` | `Spec => []OneTurnAtATime`, if users only follow up |
| `WorkspacesProofs` | `WorkspacesTypes` | `Spec => []TypeOK` |
| | `NothingIsLost` | `Spec => []NothingLost` |
| | `ReviewsAreOwnWork` | `Spec => []ReviewIsOwnWork` |
| | `RemovalsAreSafe` | `Spec => RemovalIsSafe` |
| | `OwnersComplete` | `Spec => OwnerCompletes` |
| `AgentProofs` | `ApprovalsTypes` | `Spec => []TypeOK` |
| | `AgentHearsTheRecord` | `Spec => []ToldTheDecision` |
| | `NoDecisionTakenBack` | `Spec => [][DecisionsStand]_vars` |
| | `WavesArePlanned` | what `PlanWaves` makes of any plan |
| | `GroupsInductive` | `GroupSpec => []GroupInv` |
| | `GroupsLeaveNothing` | `GroupSpec => []NothingLeft` |
| | `WavesAreKept` | `GroupSpec => []WavesHold` |
| `RetrySagaProofs` | `SagaTypes` | `Spec => []TypeOK` |
| | `RetryIsWhole` | `Spec => []HistoryHolds` |
| | `UndoneIsUndone` | `Spec => Undone` |
| | `RetriedTurnStartsFresh` | `Spec => StartsFresh` |
| `LimitWaitsProofs` | `LimitWaitsTypes` | `Spec => []TypeOK` |
| | `WaitsAreTended` | `Spec => []WaitIsTended` |
| `RoutinesProofs` | `RoutinesTypes` | `Spec => []TypeOK` |
| | `OccurrenceRunsOnce` | `Spec => []OneRunPerOccurrence` |
| | `LaneNeverOverfull` | `Spec => []LaneLeavesRoom` |
| | `NoRunOfTheGone` | `Spec => RunsOfExistingOnly` |
| `NodeTurnsProofs` | `NodeTurnsTypes` | `Spec => []TypeOK` |
| | `TranscriptsHold` | `Spec => []TranscriptHolds` |
| `NodeApprovalsProofs` | `NodeApprovalsTypes` | `Spec => []TypeOK` |
| | `AgentIsToldTheRecord` | `Spec => []ToldTheRecord` |
| | `MachineKnowsItsQuestion` | `Spec => []QuestionIsKnown` |

Outside the engine each module has one inductive invariant, `IInv` (`GroupInv` for
`WorkerGroups`), stated before its proof and established in the theorem named `...Inductive`;
there is one lemma per action or per kind of step, and the other theorems follow from it, or
from it and a look at the steps. Each was checked by TLC on the instance of the run before it
was proved.

**The engine.** `TypeOK` is not inductive. `active' = active - 1` stays at or above 0 only
because the goroutine that gives a slot back is one of those counted, and it is counted by its
place: so the invariant needs `Placed` (each kind of goroutine stands where its code can stand,
with a task in hand) and `SlotAccounting`. Together with the types of `proc` and `active` they
are `ProcInv`; `DataInv` holds the types of the rest. The lemmas `Moves...` say what a change of
one place does to the count, once for all actions; the step lemmas then go action by action.
`ReviveIsApi` (only the user's own request may revive) gives `CanceledSticks`.
`CommittingIsReleased` is inductive with `ProcInv`, since the mark names the execution and only
that execution's last step leaves the places from which it is taken off. `OwnedRowLive` is
inductive because every terminal write retires the execution in the same step, and it yields
`RunsEndOnce`: a run that passes its gate still owns the task, so the row was not terminal.
`NoLostStart`, that a queued task with a free slot has somebody in `pump` or on the way to it,
needs the stronger `StartOwed`, which tells a request's delivery, which may stop without
pumping, from a run's, which always comes to its unwinding.

**The refinement.** `StatusOf`, `ChargeOf`, `Working` and `OpenRequest` are the mapping; each
step of each goroutine is shown to be a named action of `TaskLifecycle` or to leave all four
alone. That takes what the engine's proofs establish and `LifeInv`: whoever works on a task, and
every message that waits, has a row that `Create` has inserted (the lifecycle has no step on a
task that is not there); a run whose process has exited knows how the task ends (the lifecycle's
`End` wants a terminal status); and a request that has returned leaves no leave to revive
behind. A slot is held for a running task because the slots are counted exactly.

**Messages.** `OldestFirst` follows from `OrderInv`: what waits for a task waits in the order in
which it was accepted (`InLine`), and the prompt of the row and what a start or a delivery
carries were accepted before it (`Ahead`). The assumption on the requests gives `Patient`: no
message is parked, which is how an interrupt overtakes the line. `NoSilentLoss` needs
`FollowInv`. Where users only follow up, a task is in one hand at most (`OneHand`): that of an
execution, of a delivery by a request or by the recovery, or it waits in the start queue. `Sound`
says for each place of a hand what the row reads, that an execution's hand is the one the engine
calls current, and that what it carries is the row's prompt; so a message that has left the
queue is with somebody until it was handed to an agent or reported. `OneTurnAtATime` is the same
fact about hands: `EngineOneTurn` refutes it with an interrupt, and the theorem says that
follow-ups alone do not.

**Workspaces.** One generation at most is open, and it is the task's current one (`OpenInv`). A
turn owns the generation it runs in from its claim on (`RunInv`). `OwnerCompletes` is about the
moment between the two halves of a completion: `CallInv` says that it holds the lock of the
generation it has read, and since a claim waits for that lock the owner it compared with is
still the owner when it writes, although nothing else it has read need be true by then. Nobody
else is at work while the daemon recovers (`ModeInv`). `NothingLost` is part of the
invariant and rests on `RowInv`: what a worktree has beyond its own agent's commits is in the
target branch, the snapshot of an integrated generation is in a branch, and branches only grow,
since whoever touches them commits or merges. `FzInv` follows a finalization place by place: it
holds the generation's lock and no agent runs there, so what it has inspected stays true until
it is done, and the commit it records as the review's base contains everything in the worktree
that is not the agent's. A place that has read a row before it had the lock (`LockInv`) knows of
it only that the generation was in use, which is all it needs.

**Approvals.** `ToldTheDecision` needs `AskInv`: a waiter's channel holds no decision but the
one of the row, whoever settles an ask has written the row first, and a poll past its read has a
row that is there. A status is written once, so what was copied from a row stays true of it;
that is `DecisionsStand`, which no run checks.

**Worker groups.** `PlanWaves` is a recursive function over the steps, and inside it one pass is
another. No induction over data is needed to prove what they compute: each is unfolded on a
range that grows to `N` (`CountingUp`, from `NatLessThanWellFounded`), with `PassedTo` and
`PlannedTo` as what a pass and the plan have when they have come so far. A pass is never empty as
long as a step is in no wave, because the first of those is ready (`SomeReady`); so the branch
of the code that forces a step out of a cycle (plan.go:253) is never taken for a plan whose
dependencies point backwards, and `N` waves are enough for all steps. `WavesInv` keeps the
result: one wave and one place for each step, writers alone, dependencies in earlier waves.
`WorkerInv` says who answers for an agent: one that runs and was not told to end has a worker
that forwards or registers it, or the loop has just started it (`Current`); workers work in the
wave that is on its way, which the loop leaves only when all are done. `StepInv` says the same of
the ledger: a step of the plan is open only ahead of the loop or with a worker. A turn that ends
has passed `Finish` or the undo, which close the rest, unless the group was refused. That a
cancel has closed the steps of a refused group too is `CancelInv`: a cancel keeps its mark from
before it closes the steps until the turn has ended or was retired, so no step can be opened
behind it.

**Retry.** `HistoryHolds` is about the moments between two steps; the invariant says what holds
in the middle of them. `StepInv` says of every place of the saga which intent brings it there
and what the steps before it have left on the disk, `IntentInv` what the intent remembers of the
task (the reason why an undoing can put it back), `FilesInv` where the files are when no step
is under way, `MemoryInv` what the process's queues and runs say of the rows. Failures and
crashes are steps like any other: none of the four mentions them.

**Quota waits.** `WaitHasWake` is not inductive: a worker past its look at the row may find the
claim refused. `WillLook` counts such a worker only if the wait is due, and no worker whose
context was canceled; `TimerInv` says that the timer that can be canceled is that of a worker
which still sleeps. The newest card of a turn is found with a least counterexample
(`NatLessThanWellFounded`).

**Routines.** `OneRunPerOccurrence` follows from `OneRow`: the ledger has one row for an
occurrence (its key), and the task hangs on the row. `LaneLeavesRoom` needs what the holder of
`tickMu` believes: `RoomInv` says for each place of a tick, of a recovery and of a request how
much of the room it has read is still there and how much of it is spoken for. It counts what the
scheduler knows it has started: a `loose` run, which recovery made and was told had failed, is
outside (section 8). `LedgerInv` has
what a delete looks at. The lists a tick works through are sets of numbered entries taken in
order (`First`), so that no induction over a sequence is needed.

**Turns on machines.** The invariant behind "no hole" is `NothingDropped`: as long as a turn
takes events, those in its transcript are exactly the ones that were counted, but for the one a
handler has counted and not yet pushed (`HeldInv`: it is the newest of a turn of that handler's
connection). The handler pushes without the lock it counted under, and `Deliver` of the turn's
connection is the only one that counts, which is what `HeldInv` and the turn's connection, fixed
once it is open (`OpenInv`), give. A turn that has overflowed or is closed only gets an entry
that is no event. For `OwnConnectionEnded`, `ConnInv` says that a connection that has been
displaced or dropped never comes back to the table: a handler says hello once. Nothing of it
depends on the order in which handlers attach, so it holds for `LateAttach = TRUE` too, where
`BothSidesEnd` does not. A reason may stand between two events, so `NoHoles` speaks of the
numbers of the events and their order (`Numbers`, `Increasing`); `AppendNumbers` says what one
more entry does to them, and no induction over the sequence is needed.

**Questions on machines.** `OnceInv` says that a question is at one place at a time (with the
machine, on the way up, or with the handler that makes its row), so a row is made once and, once
decided, stays (`RowsStand`). `FramesInv` and `RecordInv` then carry "the decision is the one of
the record" along every copy: frame, channel, remembered answer, poll, and what the agent is
told. `KnownInv` covers the moment between "accepted" and the first wait.

`CommittingIsReleased`, `RunEndsOnce`, `NoLostStart` and `DecisionsStand` are proved and in no
passing run, and neither is `OneTurnAtATime` where it holds: on a small instance a second end of
a run shows up in `ImplementsLifecycle`, a lost start in `TasksMove`, and a decision taken back
in `ToldTheDecision`.

Model-checked only are the liveness properties, which need fairness and `ENABLED` and are out of
the prover's reach: `TasksMove`, `NobodyWaits`, `Settles`, `ComesUp`, `WaitEnds`,
`NoneForgotten`, `CancelStops`, `BothSidesEnd`, `NobodyIsLeft`.

## 8. What the code does not keep

Every module ends with the properties that TLC refutes, if it has any. Two of them are runs
(section 5). The others can be checked by putting them into the module's `.cfg`, with the
changes named here.

**Engine.** `OneTurnAtATime`: section 5. `CanceledIsStopped` (`EngineRequests`): engine.go:2079
keeps the cancellation mark for a start that is under way, but `pump` deletes the mark when it
pops the task the cancel has just marked, and the agent of the canceled task keeps running.
`EndsOnce` (`EngineRequests`): a start that fails while a cancel is under way ends the task,
and `cancelUnstarted` ends it again without looking (engine.go:2127), although store.go:1160
describes the gate as what makes a task end once. `MessagesSettle` (`EngineRestart`):
`FollowUpWith` sees a busy task (approvals.go:463) and appends the message later (494); a turn
that drains the queue in between leaves it in the queue of an ended task, where
pending_prompts.go:17 promises that it will be delivered.

**Approvals.** `RequestApproval` reads the status at approvals.go:94 and writes
`waiting_approval` at 131 without a guard, `Decide` and the questions likewise: a run that ends
or a cancel in between has the ended task taken back to waiting or running, with no run that
would end it. `FailOrphaned` leaves `waiting_input` out (store.go:1722), so a task that waited
for a question stays there after a restart, and its answer sets it to running with no process.
The module has both behaviours; the properties it checks are about the ask and not the row.

**Workspaces.** `StoppedMergesNothing` (run `WorkspaceCancel`): the agent has completed its
workspace, a cancel is accepted and sets its mark, the agent exits by itself. `runLoop` reads
and deletes the mark (engine.go:2936), takes the generation's lock before the cancel does, and
merges; the task ends canceled, with its work in the user's branch. The check that was to
prevent it (workspace_lifecycle.go:598) looks at a mark that is gone by then.

Three things follow from the order of reads and writes and from errors nobody returns to, and
the properties are stated so that they hold beside them. `CompleteWorkspace` reads that the task
runs (workspace_lifecycle.go:122) and writes in a transaction of its own (172), while the end of
the turn waits for no lock: the write may land after `runLoop` has looked for a finalization.
The ended task then has a generation in `finalizing` that nobody finalizes before the daemon's
next start, and the claim of a follow-up is refused until then (its turn fails). A statement
that fails in `finalizeWorkspace` (590, 694, 714, and each that was to block the generation,
whose error is dropped), in the reconciliation or in a cancel leaves the row `finalizing` or
`integrated`, also until the next start; these are the generations in `stuck`, which `Settles`
excepts. A cancel that cannot read the generation under its lock (engine.go:1974) is given up
with its mark standing.

**Retry.** `StartResolves`: the compensation removes worktree and branch and then aborts the
intent; a daemon that dies in between comes up to an intent whose target `CleanupPrepared` can
neither find nor remove, and this start and every later one fail (prepare.go:219). A recovery
without files to restore completes onto the missing directory instead. `ComesUp` and
`FilesFollowHistory` except the tasks of such a retry (`cut`) and hold for all others.

**Quota waits.** `KnownResetContinues`: a `continued` card that `clearLimitHitAfterContinue`
writes behind the retry's message makes the next failure on the quota emit no card
(limit_continue.go:81), so nothing is armed, though its reset is known.
`OnlyLimitedTurnsRerun`: the wait of a limited turn survives a newer turn that ended
otherwise, and its timer retries that one (engine.go:3129; ADR 0015 says that a newer turn
supersedes an older wait).

**Routines.** `DispatchSettles`: a tick claims, writes its ledger row and dies; the user
reschedules or pauses the routine, or its policy skips the late occurrence, and the claim is
completed without the ledger. The row stays `pending`, and a delete of the routine is answered
with a conflict for ever (api/routines.go:291). A dispatch written off as failed by a tick that
died before it completed the claim is dispatched again, and does not keep the routine from
being deleted: `RunsOfExistingOnly` excepts it. A ledger row that cannot be settled after a
failure stays `pending` too, since the claim is completed all the same.

`LaneLeavesRoom` would be false of all live runs: `Engine.Create` queues the task and then reads
it once more (engine.go:1769), and when that read fails `recoverManualDispatches` settles the
row as failed and goes on without counting (scheduler.go:235-245), so the next request or due
routine takes the same place in the lane. `NoneForgotten` would be false without its premise: a
client that gives up its request between the insert of the task and its way into the queue, or
an error there that the clean-up meets too (engine.go:1662-1737), leaves a row that says queued,
that nothing starts and that `CountRoutineInFlight` counts. A lane of one is full from then on
(`LaneLost`), until a user cancels that task or the daemon starts again; and the next tick
settles the ledger row of the request as dispatched, though its task never runs.

**Worker groups.** `NothingLeft` without its last line: an interrupt comes between the second
check of a start (engine.go:965) and the registration of the handle. The registration is
refused and the turn ends by delivering the parked message (orchestrate.go:726), on a path that
closes no step: the ledger shows the retired group's steps as planned or running until the task
is canceled. `CancelStops` without `~raced`: an interrupt between two waves finds no handle and
takes back its mark (approvals.go:784), as in `EngineOneTurn`; a worker registers before the
delivery retires the turn, and a cancel of the task that is queued by then tells nobody to end.
The agents of that group work on, beside those of the next turn.

**Nodes.** `BothSidesEnd` with `LateAttach = TRUE`: a handler that is slow between the hello and
`Connections.attach` displaces the newer connection; a turn dispatched on that one meanwhile
is abandoned by nobody. `OthersUnharmed` (2 turns): a write under a canceled turn's context
closes the socket all turns share (conn.go:55, executor.go:272), though turns.go:386 says
that one turn does not take the connection down. `NothingIsOrphaned`: a question passes the
ownership check of its turn, its connection is displaced and abandoned, and only then is its
row created and linked: a pending row nobody can act on (approvals.go:418). With
`StoreFails = TRUE` the same happens when the inbox fails after it has inserted the row.

## 9. Not modelled, and the plan

Not modelled: what has no state of its own (adapters, parsers, rendering, pure configuration),
single statements on tables nobody else relates to anything (projects, artifacts, devices),
generated and vendored code, and the clients. `PROJECT.json` gives the reason per component.
Of the core:

- `Delete` of a task whose turn has one agent: `WorkerGroups` has it for an orchestrated turn,
  on the same maps. In `TaskEngine` it would be a further status of every row, with its proofs.
- the event writer and bus: queueing with back-pressure between the store and the clients.
- deliveries of A2A and of the notifications.

Next would be these, and the abstract specification of a generation (open, integrated,
released) with `Workspaces` shown to implement it: `NothingLost`, `RemovalIsSafe` and
`OwnerCompletes` are its parts, stated one by one.
