# A TLA+ verification of RoleMesh

RoleMesh runs AI coworkers for several tenants: an orchestrator process
(asyncio, one event loop) receives chat messages and scheduled tasks, starts
agent containers for them under concurrency limits, keeps the containers warm
between turns, and lets humans approve tool calls. This directory models the
parts in which the order of events decides whether the system is right, checks
them with TLC and proves the main facts with TLAPS.

## 1. The system and its parts

| Part | Source | State | Operations | Interacts with |
| --- | --- | --- | --- | --- |
| Container scheduler `GroupQueue` | `container/scheduler.py` | one `_GroupState` per conversation, waiting list, warm pool (an ordered dict), background coroutines | enqueue message or task, send follow-up, notify idle, idle timer, suspend/resume for approval, run, retry, drain, adopt, reap, shutdown | all of the below |
| Concurrency counters | `core/orchestrator_state.py` | `global_active`, `tenant_active`, `coworker_active`, `live_containers` | admission tests, increment, decrement | scheduler |
| Message loop | `main.py`, `webui/v1/ws_stream.py` | messages table, cursors in memory and in the database, active run ids | intake, poll, piping of follow-ups, result callbacks, cursor rollback, recovery at startup | web process, scheduler, executor, database |
| Task scheduler | `orchestration/task_scheduler.py`, `ipc/task_handler.py`, `db/task.py` | tasks table, close timers | schedule, pause, resume, change, cancel; enqueue due tasks, run one, compute the next run | scheduler, executor, database |
| Container executor | `agent/container_executor.py` | NATS subscription, inactivity watchdog | start, wait, relay results, stop | runtime, agent runner |
| Agent runner | `agent_runner/main.py` | in-container queue of input, shutdown flag | query loop, abort, batch-final result | executor over NATS |
| Approval coordinator | `orchestration/approval_coordinator.py` | pending requests, expiry timers, rows in the database | request, decide, cancel, expire, recover after a restart | scheduler, agent, database |
| Run lifecycle | `runs/`, `orchestration/run_cancel_subscriber.py`, `webui/v1/runs.py` | run rows, cancel events | start, terminal status, frame to the browser, cancel | message loop, web process |
| Delegation | `orchestration/delegation.py`, `db/delegation.py` | audit rows, child conversations, sessions, two futures per request | delegate, wait for the start, wait for the result, time out, audit, sweep at startup | scheduler, executor, database |
| Safety, egress, auth, channels, web UI, runtimes, skills, evaluation | see `PROJECT.json` | mostly per request | | |

What is hard in this code is concurrency by callbacks. Everything in the
orchestrator runs on one event loop, so a method without `await` is atomic, but
a slot is reserved in one callback, used in a coroutine that runs later, and
given back in any of five places (the batch-final result, two `finally`
blocks, the reaper, the reaping of an adopted container). Results, follow-up
messages, approvals, timers and container deaths arrive in any order. The
hazards, each at its line, are listed in `PROJECT.json`.

What makes each part right:

* scheduler: limits hold at every moment on all three levels; counters never
  drift; one container per conversation; work is never left behind while there
  is room; a timer never stops a container that works; everything is served;
* message loop: no message is forgotten, the cursor passes no message that no
  agent was given, and every message is served or exhausts its retries; the
  code keeps this with exceptions, which the properties name;
* task scheduler: a due task is run, an interval keeps its rhythm, a task that
  was stopped is not brought back;
* approval coordinator: the first decision wins, the agent never runs a tool
  that was not approved, a request is always resolved;
* run lifecycle: a run gets one terminal status and keeps it, the run-terminal
  frame agrees with it, a cancel that was published ends its run;
* delegation: the parent is always answered, the answer is the one that is
  audited, and no container, handler or row is left behind.

## 2. Modules

| Module | Stands for |
| --- | --- |
| `GroupQueueOps` | the synchronous methods of `GroupQueue` and of the counters, as operators from queue to queue |
| `GroupQueue` | the state machine: callbacks, coroutines, containers, restart, reaper; all properties |
| `TurnAdmission` | the abstract specification: who holds a turn, who has a container |
| `GroupQueueLiveness` | `GroupQueue` with fairness and arrivals that end |
| `GroupQueueProofs` | types and books: the inductive invariant the other two rest on, and its theorems |
| `GroupQueueWorkProofs` | no work is stranded |
| `GroupQueueLimitProofs` | lockstep, limits, runners, warm pool, timers, and the implementation of `TurnAdmission` |
| `MCGroupQueue`, `MCGroupQueueLiveness` | the instances for TLC |
| `ApprovalCoordinator` | approval of tool calls: the agent's awaiter, the coordinator, the `approval_requests` table, JetStream, crash and recovery; all properties |
| `ApprovalContract` | the abstract specification of approvals: one final verdict, a run only after an approval |
| `ApprovalProofs` | the inductive invariant and theorems of approvals |
| `Delegation`, `MCDelegation` | delegation to a specialist: handler, closure, executor, container, audit and session tables, crash and sweep; the instance adds the symmetry of the requests |
| `DelegationProofs` | the inductive invariant and theorems of delegations |
| `MessageHandover` | the messages of a web conversation: web process, listener, poll, runner, retry, crash and recovery |
| `MessageHandoverProofs` | the inductive invariants of the cursor and of the ways to a message, and their theorems |
| `RunLifecycle` | run rows, the results and cancels that end them, the frames the browser receives |
| `RunLifecycleProofs` | the inductive invariant and theorems of run rows and frames |
| `ScheduledTasks` | one row of `scheduled_tasks`: its users, the poll, the copies in the queue, the run |
| `ScheduledTasksProofs` | the inductive invariant and theorems of scheduled tasks |

`Delegation`, `MessageHandover`, `RunLifecycle` and `ScheduledTasks` see `GroupQueue` from outside, as what its
own module shows it to be: work under one key is run once at a time, in order,
after any delay (`OneRunnerPerGroup`, `QuietQueueEmpties`).

### How the state corresponds to the code

`queue` is one record. Its fields have the names of the attributes of
`_GroupState` (each a function over `Groups`), `GroupQueue` (`warm`, `waiting`,
`shutting_down`) and `OrchestratorState` (the counters). `queue.runner[g][j]`
is the coroutine (`_run_for_group` or `_run_task`) that runs job `j` for group
`g` together with its container: whether the coroutine has been spawned, runs
without a registered container, has one, or has lost it; whether the agent is
in a turn; whether input, batch-final results or a shutdown request are on
their way. `queue.retry_timers` counts the sleeping `_retry` coroutines,
`queue.sweep` is a sweep of the reaper that awaits `list_live` or loops.

An action is one uninterrupted run of the event loop, or one step of a
container. The operators of `GroupQueueOps` that end in `_drain_waiting`
return a set with one queue: the loop over the waiting list is stated by what
it admits (`Admits`: a group is admitted iff there is room after those
admitted ahead of it), not step by step.

`is_running` and `active` are one flag, and so are the group's
`tenant_id`/`coworker_id` and the constants `TenantOf`/`CoworkerOf`: a group
keeps its tenant and coworker. A container name and a job id are one value in
`Jobs`, never reused while anything remembers it (`FreeJobs`).

In `ApprovalCoordinator`, `pending` is `_pending`, `timers` the armed
`expiry_handle`s, `row` the status column, `intake` the one `on_approval_request`
in progress (the subscription loop handles one message at a time), `tasks` the
coroutines that resolve a request, with the place where each of them stands:
about to run its UPDATE, back from it as the winner or not, decision
published. `decide`, `on_approval_cancel` and `_handle_expiry` differ in the
status they write, in whether they publish, and in what they notify; their
common steps are `ResolveRequest`, `PublishDecision` and `Finish`. `call` is
the agent's blocked tool call, `inbox` and `decisions` the messages under way,
`told` the calls of `notify_hard`. A failing call of the database may have been
committed all the same. Which tenant a request has and who may approve it are
choices of the environment: a request of an unknown tenant is refused, one
without approver is rejected by the coordinator. Requests in `pending` are what
`GroupQueue` calls `awaiting_approval`: the coordinator calls
`suspend_for_approval` and `resume_from_approval` exactly where it adds to and
pops from `_pending`, so the two modules meet in `ApprovalRequested`,
`ApprovalResolved` and `Adopt` of `GroupQueue`.

In `Delegation` the requests are those of one conversation to one specialist,
because only these share anything. `pc[r]` is where the handler
(`_process_one`) stands; a child conversation is named by the request that
created it, so `sticky` is the row that the unique index protects. `closure`
and `waiting` are the GroupQueue's tasks of a key, `job` the registered
container, `reader` the executor's subscription, which outlives a closure that
`wait_for` cut off. `seen` holds the events that `_on_output` has stored and that
the handler merges. Handlers run concurrently in the model; the client library
serialises the callbacks of one subscription, so the model has more
interleavings than today's process.

In `MessageHandover` a message is its timestamp, `cursor` is
`last_agent_timestamp`, `dbCursor` its column, `polled` the tenant's cursor of the
poll, `known` whether the conversation is in `_state`: one that was created after
the start comes there through its first inbound event, and only then does the
poll ask for it (`PollOthers` is a round that returns messages of other
conversations and moves the tenant's cursor all the same). `web[m]` is the handler
of message `m`. The lock it holds is that of its socket, so the rows of two tabs
may be stored in either order. The message loop and the runner are records with
the batch they have read and the place where they stand. `piped` is input that
`send_message` took and that the agent has not read; the job stays registered
after its agent has ended (`container = "gone"`), and a pipe into it is read by
nobody. `handed` is what an agent was given and what was not taken back for a
retry. An exception that `_run_agent` does not catch (`Escapes`) ends the run
without the rollback of the cursor. `late`, `missed` and `stray` are history
variables: rows stored after a later one, rows the tenant's cursor passed unseen,
and messages the cursor passed for a pipe that no agent read. The properties name
them as exceptions.

In `RunLifecycle` any run may be the one a turn is (re)started for: which message
that is, is decided in `MessageHandover`. `results` are the outputs on their way,
`reader` is `_on_output` between its awaits, `frames[r]` holds the run-terminal
frames that run `r` was sent. The error frame of a safety block
(`ReaderShowsBlock`) carries the run id its socket has sent last, not that of the
turn, so it is not kept with them. `cancels[r]` is "lost" when the endpoint has
answered 202 and the publish failed.

In `ScheduledTasks` a time is a number and 0 stands for NULL; a copy of the row
travels from the poll through `pending` and `spawned` into `running`. `phase`
and `stale` are history variables: the rhythm of the schedule, and the runs
started since the row stopped being active. `schedule_task` refuses a schedule
value that is not valid, and `update_task` a cron expression that is not; an
interval that is not a positive number is stored by `update_task`, with
`next_run` as it was. It is the kind "invalid": its next run is a minute away
(here one step of time).

A failing statement of the database in these four modules has no effect; in
`ApprovalCoordinator` it may have been committed.

Operators introduced by `Fault:` are not part of the model. Each is a variant
of the operator that follows with a plausible mistake, and `PROJECT.json` names
the property that must notice it.

## 3. Runs

| Run | Instance | Shows |
| --- | --- | --- |
| `queue_admission` | 3 groups, 2 tenants, 1 turn, 1 container | exact counters, the memory ceiling, no stranded work, and `TurnAdmission` (whose states keep the limits) is implemented |
| `queue_levels` | 3 groups, global limit 2, tenant limit 1 | the tenant limit binds first and both hold; resting containers have a timer |
| `queue_tasks` | 2 groups, a task, an approval, a retry | one coroutine per group, exact flags and warm pool, timers only at rest |
| `queue_reaper` | 2 groups, 3 job ids, 1 lost coroutine, 1 reap | a turn has a container, and work is handed over, with a stale reaper |
| `queue_adoption` | 1 group with an orphan, 3 job ids | work is handed over with restart recovery (the books: section 4) |
| `queue_drains` | 2 groups, a task, an approval, fairness | once arrivals stop, everything is served and wound down |
| `approval_races` | 1 request, 2 concurrent coroutines, 1 redelivery, 1 crash, failing calls, fairness | no run without approval, one notification, watched suspensions that all end, and `ApprovalContract` is implemented |
| `delegation` | 2 requests, at most 1 isolated, 1 failed statement or crash, symmetry; 3 million states | reply and audit agree, one sticky child, nothing left behind |
| `message_handover` | 2 messages, 2 retries, 1 fault, fairness; 0.3 million states | no message is stranded, skipped or unserved, but for the exceptions the properties name |
| `run_lifecycle` | 2 runs, 1 result in flight, 1 fault, fairness; 1.2 million states | run-terminal frame and row agree, ended runs are final, a published cancel ends its run |
| `scheduled_tasks` | 1 task of any kind, period 2, 5 time steps, 2 edits, 1 fault, fairness; 0.74 million states | queued once, few stale runs, no drift, no revival, a due task is run |
| `claim_idle_spares_busy` | 1 group | a sentence of the repository that the code does not keep (section 6) |

Bounds. Two groups are enough for one to block the other; three let one pass
of `_drain_waiting` admit several and order them. With one slot every
admission is contended; `queue_levels` has room for two, so that a level can
bind before the global one. `MaxFinals = 1` suffices for a result in flight
behind a new message; `MaxRetryTimers` and `MaxRetries` of 1 or 0 reach both
branches of `_schedule_retry`. Three job ids in the reaper and adoption runs
let a stale name, an orphan and a new container coexist. Names are model
values and no symmetry is used.

Requests of the approval model meet only in the two message loops, so one
request is enough for the races about it, and the theorems cover any number.
Two coroutines are the race for a row; a third one would lose like the second.
One crash and one redelivery reach recovery against a row that is resolved
meanwhile and a request that comes again after its entry was dropped.

Two delegations are the least that compete for a child, a key or a shutdown
request; a request whose closure was cut off and its successor are among them.
Two messages are a batch that fails and a follow-up that joins it (the
theorems cover any number). Two runs are a run and the one that
`active_run_id` is pointed at meanwhile. Five time steps with a period of two
let a task be late by more than a period; two edits are a stop and a resume, or
a change and a stop. One fault reaches every error path and every crash; it is
fewer than the three deliveries after which JetStream drops a cancel
(`_MAX_DELIVER`), and `NoStrandedMessage` is tolerance of one fault: with two, a lost
event and a read of the message loop that fails after the poll has moved its
cursor, a message waits for the next one. For the same reason `DueTaskMovesOn` is
about finitely many faults: a task whose coworker is missing, or whose container
start keeps raising what the scheduler does not catch, stays due for ever.
`queue_drains` has `MaxRetries = 0`: a failed run is forgotten there, as it is after
the last retry; `NoWorkIsStranded` covers retries.

Deadlock is checked in every run except `queue_drains` and the runs of
`ApprovalCoordinator`, `Delegation`, `MessageHandover`, `RunLifecycle` and
`ScheduledTasks`, where arrivals end and the system is meant to stop.

Fairness (`GroupQueueLiveness`). Weak fairness of spawned coroutines and of
container start (asyncio runs ready tasks; the executor has a start timeout),
of armed timers, of the agent's turn (bounded by the inactivity watchdog), of
the delivery of a batch-final result while its container's subscription lives,
of the resolution of approvals (each has an expiry), and of the death of a
container that was asked to stop or has been silent (watchdog). Not assumed:
that any message or task arrives, that any run succeeds, that the reaper runs.

Fairness (`FairSpec` of `ApprovalCoordinator`). Weak fairness of the passing of
deadlines, of armed timers (`call_later`), of each coroutine (asyncio runs ready
tasks, calls of the database return or raise), of recovery, and of the restart
after a crash. Not assumed: that a human decides, that the agent answers,
cancels or even lives, that a message is delivered.

Fairness of the other modules. `MessageHandover`: of the poll (it repeats every
two seconds), of the runner and its retry timer, of the listener, of the end of
a container (watchdog) and of the restart; not of the web process or of the
delivery of any event that was lost. `RunLifecycle`: only of the subscription of
cancels. `ScheduledTasks`: of the poll, of the queue's draining, of the run (its
container is closed ten seconds after its result) and of the restart; not of the
clock or of the users. `Delegation` has safety only: its waits end because
`WaitingHandlerIsWoken` holds and the deadline is a timer. The loops of the poll
and of the scheduler survive `OSError`, `RuntimeError` and `ValueError`; an error
of another type ends them, and fairness does not hold after it.

## 4. What is proved

`GroupQueueProofs` proves, for every finite set of groups and all limits and
bounds that satisfy `QueueAssumptions` and `BoundsAssumption`:

* `TypeCorrect`: `Spec => []TypeOK`;
* `CountersAreExact`: `Spec => []CountersMatchFlags`;
* `TurnsHaveContainers`: `Spec => []TurnNeedsContainer`.

The three follow from `QueueInvariant`, whose inductive invariant `QueueInv` is
the conjunction of the types and of the books (`Balanced`). Neither is
inductive alone: that a release subtracts exactly one needs the counter to
equal a cardinality (so that `max(0, ..)` is never reached when a flag is
set), which needs the flags' types; that releasing a container keeps the books
needs that no turn outlives it, which is why every teardown releases the turn
first (`ReleaseAll`). The proof has a lemma per operator of `GroupQueueOps`
(acquire, release, reserve, drain) which says that it keeps a good queue good,
and a lemma per group of actions that composes them. Operators that leave the
five book-keeping fields alone are shown to keep `Books(q)`, and the books
depend on nothing else. That `_drain_waiting` returns a queue at all (that some
set of groups satisfies `Admits`) is not needed for safety.

`GroupQueueWorkProofs` proves, from the same assumptions and with lost
coroutines, adoption and the reaper in the model:

* `NoWorkIsStranded`: `Spec => []NoStrandedWork`.

With exact counters "a limit blocks g" is a statement about the two sets
`Holding` and `Live` (`Room`), and it cannot be undone by adding groups to them
(`RoomShrinks`). So only a handler that takes a group out of one of the sets
can strand work, and each of those ends in a drain. A drain needs less than
the property: that waiting work is on the list (`Listed`), or that everybody
but the group that has just ended was served before (`ServedBut`).

`GroupQueueLimitProofs` proves, for any groups, limits and bounds:

* `SlotsMoveWithTurns`: `Spec => []SlotHeldIffProcessing`, if `Orphans = {}`;

and, if `Orphans = {}` and `MaxReaps = 0`,

* `TurnsStayWithinLimits`: `Spec => []TurnsWithinLimits`;
* `ContainersStayWithinLimit`: `Spec => []LiveWithinLimit`;
* `TimersOnlyAtRest`: `Spec => []IdleTimerOnlyAtRest`;
* `WarmPoolStaysExact`: `Spec => []WarmPoolIsExact`;
* `RunnersAreSingle`: `Spec => []OneRunnerPerGroup`, if also `MaxLost = 0` and
  there is a job id;
* `RestingIsReapable`: `Spec => []RestingContainerIsReapable`, if also
  `Requests = {}`;
* `ImplementsTurnAdmission`: `Spec => RefinesTurnAdmission`.

The hypotheses are conditions under which the code keeps these properties, not
conveniences of the proof: on two groups TLC violates each of the seven
invariants with one orphan, and each but `SlotHeldIffProcessing` with one reap.
Adoption takes a slot without asking for room, the reaper frees a group whose
coroutine is still there, and an approval that outlasts its turn leaves the timer
off. A group whose coroutine was lost is active without a runner.

The invariant `Regular` says of every group by itself that its slot, its place
in the pool, its job, its timer and its runners agree (`Sound`); that it has a
runner while it is active (`Manned`); that its container works or is on its way
out (`Reapable`); and of the queue that all limits are kept (`Fits`) and nobody
is in the pool twice (`NoDouble`). A handler changes one group
(`Around`: every other group is `Alike`) and may then start others (`Grants`),
so a proof about a handler is one about its group. That a whole pass over the
waiting list keeps the limits follows from its last admission (`LastInLine`):
that group was let in with all the others counted. The refinement
(`turns <- Holding(queue)`, `live <- Live(queue)`) has its own statement per
handler, `Admitted`, which is proved beside `Regular` and says which groups a
step may start, resume, rest or end.

`ApprovalProofs` proves, for any set of requests, any number of concurrent
coroutines, redeliveries and crashes, with or without failing calls
(`ApprovalAssumptions`):

* `ApprovalTypeCorrect`: `Spec => []TypeOK`;
* `NoRunWithoutApproval`: `Spec => []ToolRunsOnlyIfApproved`;
* `UserToldOnce`: `Spec => []ToldTheVerdictOnce`;
* `SuspensionsAreWatched`: `Spec => [](SuspensionIsWatched /\ NoStrayTimer)`;
* `NoTimerIsStray`: `Spec => []NoStrayTimer`;
* `ImplementsContract`: `Spec => RefinesContract`.

None of the first two safety properties is inductive. A tool runs because an
approval is under way, which was published because a coroutine won the row; so
`ApprovalInv` adds that a winner has written its row (`WinnersWrote`), that an
approval under way is backed by an approved row (`Approvals`), that winners are
alone and nobody was told before them (`Told`). All rest on one lemma,
`RowsAreFinal`: no step changes a settled row, because the UPDATE asks for
`status = 'pending'`. The proof first reduces the actions to a few shapes
(`StepShape` for the rows, `CallShape` for the calls, `WatchShape` for the
suspensions), and argues about the shapes. The refinement maps `verdict` to
`row` and `ran` to the set of calls that ran.

`DelegationProofs` proves, for any set of requests and any number of failed
statements and crashes (`DelegationAssumptions`), each invariant of the run:

* `DelegationTypeCorrect`: `Spec => []TypeOK`;
* `ReplyIsAudited`: `Spec => []ReplyAgreesWithAudit`;
* `RunningRowHasOwner`: `Spec => []RunningRowIsOwned`;
* `HandlerIsWoken`: `Spec => []WaitingHandlerIsWoken`;
* `StickyChildIsOne`: `Spec => []OneStickyChild`;
* `ContainerWasAsked`: `Spec => []OutlivingContainerWasAsked`.

The invariant `DelegationInv` ties each place of a handler to its audit row, its
verdict and its reply (`Audit`): the reply is made from the verdict that was
written, and events that arrive between the two are too late to change it. A
waiting handler has a closure or a result (`Waits`), because whatever ends a
closure resolves its future. `ContainerWasAsked` is about containers whose results
`execute` has begun to read: one whose start the deadline cut, or whose start
failed, has no registered job that could be asked. It needs most: a shutdown request is
addressed to a key, so it reaches the container only if the job registered there
is its own, which needs that one closure of a key runs at a time (`OneRuns`), that
the pending ones are distinct and wait under their child (`Queued`), and that a
child is written before there is a closure and a container that was not started
has no reader (`Stages`). The proof has a lemma for
each part and each actor, over frame lemmas that say what an actor leaves alone.

`MessageHandoverProofs` proves, for any number of messages, retries and faults:

* `HandoverTypeCorrect`: `Spec => []TypeOK`;
* `NoMessageSkipped`: `Spec => []CursorNeverSkips`;
* `NoMessageIsStranded`: `Spec => []NoStrandedMessage`.

`CursorNeverSkips` speaks of the time before the first failed statement, crash or
escaped exception, and leaves out the messages in `late` and `stray`. It is not
inductive: loop and runner move one cursor, each after an await on what it read
before. `HandoverInv` says which messages need no runner any more (`Kept`: with an
agent, on their way to one, late or stray) at each place of the runner
(`HandedBefore`), that the runner's batch has no gap behind the cursor (`NoGap`),
and that a message which the loop's batch leaves out is kept, with the runner, or
still beyond the cursor for the next runner (`LoopLeavesNone`). The last message of
a batch exists because the natural numbers are well founded (`MaximumIs`).

`NoStrandedMessage` speaks of the states with one mishap at most (a lost event, a
failed statement, a crash or an escaped exception). `CoverInv` counts the ways to a
message that no agent has. It is held by the queue or the runner (`Held`), or it is
announced by an event (`Announced`) and, unless the poll is blind to it (`Blind`: the
conversation is not known, or the tenant's cursor passed the message), awaited by the
poll (`Awaited`); that is `TwoWays`. One mishap takes one of the two away (`OneWay`),
and what is held stays held. It needs that the loop works only for a known
conversation (`LoopKnows`), that what the tenant's cursor passed while the
conversation was unknown, or beyond the loop's batch, is in `missed` (`PassedIsMissed`), that a running agent has the runner's batch
(`RunHanded`), and that what was piped into an agent is with it or will be retried
(`PipedIsSafe`).

`RunLifecycleProofs` proves, for any number of runs and results in flight:

* `RunTypeCorrect`: `Spec => []TypeOK`;
* `FramesMirrorRows`: `Spec => []FrameMirrorsRow`;
* `EndedIsFinal`: `Spec => EndedRunsAreFinal`, an action property.

A frame is sent one await after the row was written. So `RunInv` adds that the run a
reader is at work on exists (`ReaderHasRun`; a block of the model's output has none)
and that what it is about to send, the block of a hook included, is still what the
row says (`ReaderMirrorsRow`), which holds because the UPDATE leaves an ended row as
it is (`UpdateEnds`).

`ScheduledTasksProofs` proves, for any period, clock and number of edits and faults
(`TaskAssumptions`):

* `TasksTypeCorrect`: `Spec => []TypeOK`;
* `TasksAreQueuedOnce`: `Spec => []QueuedOnce`;
* `IntervalsDoNotDrift`: `Spec => []NoDrift`;
* `StaleRunsAreBounded`: `Spec => []StaleRunsAreFew`;
* `RowsAreNotRevived`: `Spec => NoRevival`, an action property.

A run computes the next time from the copy it was given, not from the row. So
`TaskInv` says of the row and of all its copies, wherever they are, that they have
the rhythm of the first schedule while that is in force (`OnBeat`), and that while
the row is not active the runs so far and the copies still in hand are three at
most (`FewInHand`). No copy exists before the row does (`Untouched`). The step of
`_compute_next_run` over missed occurrences needs arithmetic modulo the period,
which is proved from the well-ordering of the natural numbers (`Division`).

## 5. What is only model-checked

Every invariant of the runs and every action property, the two refinements
included, is stated by a theorem, except the sentence of section 6. Liveness
under fairness (`QuietQueueEmpties`, `SuspensionEnds`, `EveryMessageIsServed`,
`CancelEndsRun`, `DueTaskMovesOn`) is out of TLAPS's reach and is checked on the
instances above only. That `_drain_waiting` always returns a queue (that some set
of groups satisfies `Admits`) is an induction over the waiting list, which the
provers do not do; a handler that could not run would show in
`QuietQueueEmpties`.

## 6. Where the code and its documents differ

`claim_idle_spares_busy` is a run that expects a violation: the idle timer can
interrupt a turn that a follow-up started behind the queue's back. The sentence
and the scenario are in `PROJECT.json` under `findings`.

Other observations made while modelling:

* Adoption after a restart ignores the memory ceiling, so `LiveWithinLimit`
  fails with an orphan (`orchestrator_state.py:123` calls the counter bounded).
* A batch-final result handled during an approval is dropped, and the resume
  does not re-arm the idle timer (`docs/12-hitl-approval-architecture.md:269`);
  the container rests until the inactivity watchdog.
* The reaper's two confirmations are not reset between containers
  (`scheduler.py:848`), so a group with a fresh, live container can be reaped.
* A cancel that overtakes the INSERT of its approval request leaves a pending
  row that nobody expires before the next restart.
* A shutdown that overtakes input the agent has not taken, or a container that
  has just ended, loses a follow-up that `send_message` reported as delivered:
  the cursor has moved past it (`stray`).
* `ws_stream.py:805` ("don't strand the run") relies on the poll, which asks only
  for conversations in `_state` (`main.py:1860`). If the event of the first
  message of a conversation is lost, the message waits for the next one or for a
  restart.
* The timestamp of a message is taken before its INSERT (`ws_stream.py:772`), and
  the lock is one per socket: of two tabs, the earlier message can be stored
  when the cursor is past it (`late`).
* `_run_agent` catches four types of exception (`main.py:1550`). A `DockerError` or
  an `ApiException` escapes with the cursor past the batch, and the retry finds
  nothing.
* A deadline that cuts `runtime.run` (`container_executor.py:485`,
  `docker_runtime.py:522-527`) can leave a started container without a registered
  job: nobody asks it to stop.
* "frames follow the DB" (`main.py:1206`), "the orchestrator already terminal-wrote
  SAFETY_BLOCKED" (`ws_stream.py:561`) and the like in `web_nats_gateway.py` do not
  hold of every safety block: a MODEL_OUTPUT block sends its error frame and the
  row is completed later, a block that lost to a cancel sends it over a cancelled
  row, and the frame names the run its socket sent last. `FrameMirrorsRow` is
  therefore about run-terminal frames, and about hook blocks only that the run has
  ended.
* `publish_run_cancel` only logs a failure (`run_events.py:59-86`), and the endpoint
  answers 202 all the same: the run goes on.
* `update_task` stores an interval that is not a positive number
  (`task_handler.py:238-247`), which `schedule_task` would refuse.
* `running_task_id`, the terminal write of a run that raises (`main.py:1040`), the
  poll's `LIMIT 200` (`db/chat.py:820`): windows that the modules describe or that
  lie beyond their bounds.
* A specialist whose container crashes without an event is audited as an empty
  success: `_closure` does not look at what `execute` returned.
* A delegation that was answered as never started still runs when its turn
  comes; a late result of one whose deadline passed asks the container of its
  successor to stop.
* The cursor is durable before the agent has answered, so a crash during a turn
  (or a failed UPDATE of the cursor) leaves its message behind.
* The stop of a cancelled run fails the turn, and the retry runs the cancelled
  message again; the row stays cancelled.
* `terminators.py:41` names a caller of `terminate_run_via_container_crash`; there
  is none. `ws_stream.py:763` says "Atomically" of two transactions.
* A task that is stopped may still run from copies that are under way: one
  pending, one spawned, one in the hands of the poll (`StaleRunsAreFew`). A
  second copy run right after the first pushes `next_run` a period further, and
  that occurrence is skipped. A change of schedule during a run is overwritten
  when the run ends.

## 7. Not modelled, and the plan

Not modelled at all, with the reason of each in `PROJECT.json`: the safety
detectors, the egress gateway, authentication, channels, most of the web
backend, the runtime adapters, skills, evaluation, the agent backends inside a
turn, and the vendored agent under `pi/`. They are the larger part of the
repository by lines, and have no state that two actors share, or none beyond a
cache. Wall-clock times are left out outside `ScheduledTasks`: a timer that is
armed may fire at any time.

Plan, in this order:

1. What the limits become with adoption and the reaper: a bound on how far the
   orphans and the reaps can take `Live` and `Holding` past them.
2. `RestingContainerIsReapable` with approvals, once a resume re-arms the timer of
   a container that came to rest meanwhile (section 6).
3. The refresh race of the token vault and the hot reload of coworkers, if they
   turn out to share state across awaits.
