---------------------------- MODULE GroupQueueOps ----------------------------
(***************************************************************************)
(* The synchronous methods of GroupQueue (container/scheduler.py) and of   *)
(* the concurrency counters of OrchestratorState, as operators that take   *)
(* the queue object and return it changed.                                 *)
(*                                                                         *)
(* A queue q is a record.  Its fields carry the names of the attributes of *)
(* _GroupState (one function over Groups each), of GroupQueue and of       *)
(* OrchestratorState.  The coroutines in _background_tasks are q.runner,   *)
(* the pending _retry sleeps q.retry_timers, a sweep of the reaper that    *)
(* waits for list_live or is in its loop q.sweep.                          *)
(*                                                                         *)
(* asyncio runs a method to its end before anything else happens, so a     *)
(* handler of GroupQueue.tla is a composition of these operators.  The     *)
(* ones that end in _drain_waiting return a set of queues (a singleton):   *)
(* the loop over the waiting list is stated by what it admits.  UNION      *)
(* {Op(p) : p \in {e}} is Op(e), with e evaluated once.                    *)
(*                                                                         *)
(* An operator introduced by "Fault:" is not part of the model: it is a    *)
(* variant of the operator after it, with a mistake the properties of      *)
(* GroupQueue.tla must notice.                                             *)
(***************************************************************************)
EXTENDS Integers, FiniteSets, SequencesExt

CONSTANTS
    Groups,         \* queue keys: conversation ids (or coworker ids)
    Tasks,          \* ids of scheduled tasks
    Requests,       \* ids of approval requests
    Jobs,           \* job ids a group's containers can have
    Tenants, Coworkers,
    TenantOf,       \* the tenant of each group
    CoworkerOf,     \* the coworker of each group
    GlobalLimit,    \* OrchestratorState.global_limit
    TenantLimit,    \* Tenant.max_concurrent_containers
    CoworkerLimit,  \* CoworkerConfig.max_concurrent_containers
    MaxRetries,     \* _MAX_RETRIES
    NoJob,          \* None, for a job id or a container name
    NoTask          \* None, for a task id

ASSUME QueueAssumptions ==
    /\ IsFiniteSet(Groups)
    /\ TenantOf \in [Groups -> Tenants]
    /\ CoworkerOf \in [Groups -> Coworkers]
    /\ GlobalLimit \in Nat
    /\ TenantLimit \in [Tenants -> Nat]
    /\ CoworkerLimit \in [Coworkers -> Nat]
    /\ MaxRetries \in Nat
    /\ NoJob \notin Jobs
    /\ NoTask \notin Tasks

-----------------------------------------------------------------------------
(* The counters of OrchestratorState and the two admission tests.          *)

Holding(q) == {g \in Groups : q.slot_held[g]}

Live(q) == {g \in Groups : q.active[g]}

OfTenant(S, t) == {g \in S : TenantOf[g] = t}

OfCoworker(S, c) == {g \in S : CoworkerOf[g] = c}

AtLeastZero(n) == IF n < 0 THEN 0 ELSE n

\* Fault: the tenant's and the coworker's limit are not consulted.
CanStartTurnGlobally(q, g) == q.global_active < GlobalLimit

CanStartTurn(q, g) ==
    /\ q.global_active < GlobalLimit
    /\ q.tenant_active[TenantOf[g]] < TenantLimit[TenantOf[g]]
    /\ q.coworker_active[CoworkerOf[g]] < CoworkerLimit[CoworkerOf[g]]

CanSpawn(q) == q.live_containers < GlobalLimit

\* Fault: a cold start asks for turn admission only.
CanColdStartTurnOnly(q, g) == CanStartTurn(q, g)

CanColdStart(q, g) == CanStartTurn(q, g) /\ CanSpawn(q)

-----------------------------------------------------------------------------
(* Slots.  The acquiring operators take a set of groups, because one pass  *)
(* of _drain_waiting reserves for several; both are idempotent per group.  *)

AcquireTurns(q, S) ==
    LET new == S \ Holding(q) IN
    [q EXCEPT !.slot_held = [g \in Groups |-> q.slot_held[g] \/ g \in new],
              !.global_active = @ + Cardinality(new),
              !.tenant_active =
                  [t \in Tenants |-> q.tenant_active[t]
                                     + Cardinality(OfTenant(new, t))],
              !.coworker_active =
                  [c \in Coworkers |-> q.coworker_active[c]
                                       + Cardinality(OfCoworker(new, c))]]

DecrementActive(q, g) ==
    [q EXCEPT !.global_active = AtLeastZero(@ - 1),
              !.tenant_active[TenantOf[g]] = AtLeastZero(@ - 1),
              !.coworker_active[CoworkerOf[g]] = AtLeastZero(@ - 1)]

ReleaseTurn(q, g) ==
    IF q.slot_held[g] THEN [DecrementActive(q, g) EXCEPT !.slot_held[g] = FALSE]
                      ELSE q

\* Fault: a container that was reserved is counted again when it starts.
AcquireContainersAgain(q, S) ==
    [q EXCEPT !.active = [g \in Groups |-> q.active[g] \/ g \in S],
              !.live_containers = @ + Cardinality(S)]

AcquireContainers(q, S) ==
    LET new == S \ Live(q) IN
    [q EXCEPT !.active = [g \in Groups |-> q.active[g] \/ g \in new],
              !.live_containers = @ + Cardinality(new)]

ReleaseContainer(q, g) ==
    IF q.active[g]
    THEN [q EXCEPT !.active[g] = FALSE,
                   !.live_containers = AtLeastZero(@ - 1)]
    ELSE q

ReserveSlots(q, S) ==
    AcquireTurns([AcquireContainers(q, S) EXCEPT
                     !.processing = [g \in Groups |-> q.processing[g] \/ g \in S]],
                 S)

-----------------------------------------------------------------------------
(* Runners.  A runner is a coroutine (_run_for_group, or _run_task for a   *)
(* task) together with the container and the messages it is waiting for.   *)
(*   phase   "none": no such coroutine; "spawned": ensure_future'd, not    *)
(*           yet run; "starting": running, its container not registered;   *)
(*           "up": container alive and registered; "dead": container gone, *)
(*           the coroutine not yet resumed; "orphan": a container without  *)
(*           a coroutine, left over from before a restart                  *)
(*   busy    the agent is in a turn; input: a message is on its input      *)
(*   finals  batch-final results published and not yet handled             *)
(*   stop    a shutdown request is on its way to the container             *)
(*   close   the 10 s close timer of a scheduled task                      *)

NoRunner ==
    [phase |-> "none", task |-> NoTask, busy |-> FALSE, input |-> FALSE,
     finals |-> 0, stop |-> FALSE, close |-> "unarmed"]

NewRunner(t) == [NoRunner EXCEPT !.phase = "spawned", !.task = t]

\* Container names and job ids are never reused: the id of a container that
\* died before it was adopted, and a name in the snapshot that a sweep of the
\* reaper works on, are not free.
FreeJobs(q, g) ==
    {j \in Jobs : /\ q.runner[g][j].phase = "none"
                  /\ j # q.job[g]
                  /\ <<g, j>> \notin q.sweep.live}

FreeJob(q, g) == CHOOSE j \in FreeJobs(q, g) : TRUE

Spawn(q, g, t) == [q EXCEPT !.runner[g][FreeJob(q, g)] = NewRunner(t)]

HasWork(q, g) == q.pending_tasks[g] # <<>> \/ q.pending_messages[g]

\* Reserve for every group of S and start its next piece of work: its first
\* queued task, or else its messages.
StartPending(q, S) ==
    LET r == ReserveSlots(q, S)
        next(g) == IF q.pending_tasks[g] # <<>> THEN Head(q.pending_tasks[g])
                                                ELSE NoTask
    IN [r EXCEPT
          !.pending_tasks = [g \in Groups |->
              IF g \in S /\ q.pending_tasks[g] # <<>>
              THEN Tail(q.pending_tasks[g]) ELSE q.pending_tasks[g]],
          !.runner = [g \in Groups |->
              IF g \in S
              THEN [q.runner[g] EXCEPT ![FreeJob(q, g)] = NewRunner(next(g))]
              ELSE q.runner[g]]]

-----------------------------------------------------------------------------
(* The waiting list.                                                       *)

Waiting(q) == {g \in Groups : \E i \in DOMAIN q.waiting : q.waiting[i] = g}

Ahead(q, g) ==
    {h \in Groups : \E i, k \in DOMAIN q.waiting :
                       i < k /\ q.waiting[i] = h /\ q.waiting[k] = g}

AppendWaiting(q, g) ==
    IF g \in Waiting(q) THEN q ELSE [q EXCEPT !.waiting = Append(@, g)]

\* Fault: the groups admitted earlier in the same pass are not counted.
RoomBeforePass(q, A, g) == CanColdStart(q, g)

\* Whether the loop of _drain_waiting finds room for g, having admitted the
\* groups of A that are ahead of g.
RoomAtTurn(q, A, g) == CanColdStart(ReserveSlots(q, Ahead(q, g) \cap A), g)

Admits(q, A) ==
    \A g \in Waiting(q) :
        g \in A <=> ~q.active[g] /\ RoomAtTurn(q, A, g) /\ HasWork(q, g)

Remaining(q, A) == {g \in Waiting(q) : ~q.active[g] /\ ~RoomAtTurn(q, A, g)}

\* The orders of S in which no group overtakes another.
InOrder(q, S) ==
    {w \in SetToSeqs(S) :
        \A i, k \in DOMAIN w : i < k => w[i] \in Ahead(q, w[k])}

DrainWaiting(q) ==
    UNION {{[StartPending(q, A) EXCEPT !.waiting = w] :
               w \in InOrder(q, Remaining(q, A))} :
           A \in {B \in SUBSET Waiting(q) : Admits(q, B)}}

\* Fault: a group that has nothing queued does not pass its slot on.
DrainGroupSelfish(q, g) ==
    IF q.shutting_down \/ ~HasWork(q, g) THEN {q}
    ELSE IF CanColdStart(q, g) THEN {StartPending(q, {g})}
    ELSE DrainWaiting(AppendWaiting(q, g))

DrainGroup(q, g) ==
    IF q.shutting_down THEN {q}
    ELSE IF HasWork(q, g) /\ CanColdStart(q, g) THEN {StartPending(q, {g})}
    ELSE IF HasWork(q, g)
    THEN UNION {DrainWaiting(p) : p \in {AppendWaiting(q, g)}}
    ELSE DrainWaiting(q)

-----------------------------------------------------------------------------
(* The warm pool and shutdown requests.                                    *)

\* Fault: a container that leaves the pool is not taken out.
WarmPopForgotten(q, g) == q

WarmPop(q, g) ==
    IF \E i \in DOMAIN q.warm : q.warm[i] = g
    THEN [q EXCEPT !.warm = RemoveAt(@, CHOOSE i \in DOMAIN @ : @[i] = g)]
    ELSE q

WarmPush(q, g) ==
    LET p == WarmPop(q, g) IN [p EXCEPT !.warm = Append(@, g)]

\* The request is published to the job the group has now; a container that
\* is already gone never answers.
RequestShutdown(q, g) ==
    IF q.active[g] /\ q.job[g] # NoJob
    THEN [q EXCEPT !.runner[g][q.job[g]].stop =
                       q.runner[g][q.job[g]].phase \in {"up", "orphan"}]
    ELSE q

Evictable(q) ==
    {i \in DOMAIN q.warm : q.active[q.warm[i]] /\ ~q.processing[q.warm[i]]}

EvictLruWarm(q) ==
    IF Evictable(q) = {} THEN q
    ELSE RequestShutdown(q, q.warm[CHOOSE i \in Evictable(q) :
                                      \A k \in Evictable(q) : i <= k])

EvictIfLiveBound(q, g) ==
    IF CanStartTurn(q, g) /\ ~CanSpawn(q) THEN EvictLruWarm(q) ELSE q

-----------------------------------------------------------------------------
(* Admission of messages and tasks.                                        *)

\* Fault: starts a runner although the group has a container.
EnqueueMessageCheckAlways(q, g) ==
    IF q.shutting_down THEN q ELSE Spawn(ReserveSlots(q, {g}), g, NoTask)

EnqueueMessageCheck(q, g) ==
    IF q.shutting_down THEN q
    ELSE IF q.active[g] THEN [q EXCEPT !.pending_messages[g] = TRUE]
    ELSE IF ~CanColdStart(q, g)
    THEN EvictIfLiveBound(
             AppendWaiting([q EXCEPT !.pending_messages[g] = TRUE], g), g)
    ELSE Spawn(ReserveSlots(q, {g}), g, NoTask)

AlreadyQueued(q, g, t) ==
    \/ q.running_task_id[g] = t
    \/ \E i \in DOMAIN q.pending_tasks[g] : q.pending_tasks[g][i] = t

EnqueueTask(q, g, t) ==
    LET queued == [q EXCEPT !.pending_tasks[g] = Append(@, t)] IN
    IF q.shutting_down \/ AlreadyQueued(q, g, t) THEN q
    ELSE IF q.active[g]
    THEN IF q.idle_waiting[g] THEN RequestShutdown(queued, g) ELSE queued
    ELSE IF ~CanColdStart(q, g)
    THEN EvictIfLiveBound(AppendWaiting(queued, g), g)
    ELSE Spawn(ReserveSlots(q, {g}), g, t)

-----------------------------------------------------------------------------
(* The idle timer, approvals, and the end of a turn.                       *)

\* Fault: the timer handle is dropped without cancelling it.
CancelIdleTimerForgotten(q, g) == q

CancelIdleTimer(q, g) == [q EXCEPT !.idle_handle[g] = "off"]

\* Fault: a timer that ran out is never armed again.
ArmIdleTimerCancels(q, g) == CancelIdleTimer(q, g)

ArmIdleTimer(q, g) ==
    [q EXCEPT !.idle_handle[g] =
        IF q.awaiting_approval[g] # {} \/ q.processing[g] THEN "off"
        ELSE IF q.adopted[g] THEN "reap_adopted"
        ELSE "request_shutdown"]

NotifyIdle(q, g) ==
    LET rested == [ReleaseTurn(q, g) EXCEPT !.processing[g] = FALSE,
                                            !.idle_waiting[g] = TRUE]
        pooled == IF q.active[g] /\ ~q.is_task_container[g]
                  THEN WarmPush(rested, g) ELSE rested
        ended  == IF q.pending_tasks[g] # <<>>
                  THEN RequestShutdown(pooled, g)
                  ELSE ArmIdleTimer(pooled, g)
    IN IF q.awaiting_approval[g] # {} THEN {q} ELSE UNION {DrainWaiting(p) : p \in {ended}}

SuspendForApproval(q, g, r) ==
    [CancelIdleTimer(q, g) EXCEPT !.idle_waiting[g] = FALSE,
                                  !.awaiting_approval[g] = @ \cup {r}]

ResumeFromApproval(q, g, r) ==
    LET resumed == [q EXCEPT !.awaiting_approval[g] = @ \ {r}] IN
    IF r \notin q.awaiting_approval[g] THEN q
    ELSE IF resumed.awaiting_approval[g] = {} /\ ~q.is_task_container[g]
    THEN ArmIdleTimer(resumed, g)
    ELSE resumed

\* Whether send_message delivers: a live message container, and turn
\* admission if the container is warm.
Deliverable(q, g) ==
    /\ q.active[g] /\ q.job[g] # NoJob /\ ~q.is_task_container[g]
    /\ q.processing[g] \/ CanStartTurn(q, g)

\* Fault: a warm container is resumed without a turn slot.
SendMessageNoSlot(q, g) ==
    [WarmPop(CancelIdleTimer(q, g), g) EXCEPT
        !.processing[g] = TRUE, !.idle_waiting[g] = FALSE,
        !.runner[g][q.job[g]].input = TRUE]

SendMessage(q, g) ==
    LET resumed == IF q.processing[g] THEN q
                   ELSE [AcquireTurns(WarmPop(CancelIdleTimer(q, g), g), {g})
                            EXCEPT !.processing[g] = TRUE]
        awake == [resumed EXCEPT !.idle_waiting[g] = FALSE]
    IN [awake EXCEPT !.runner[g][q.job[g]].input =
                         @ \/ q.runner[g][q.job[g]].phase \in {"up", "orphan"}]

-----------------------------------------------------------------------------
(* Runner coroutines: start, registration and the finally blocks.          *)

RunForGroupStarts(q, g) ==
    ReserveSlots([CancelIdleTimer(q, g) EXCEPT !.idle_waiting[g] = FALSE,
                                               !.is_task_container[g] = FALSE,
                                               !.pending_messages[g] = FALSE],
                 {g})

RunTaskStarts(q, g, t) ==
    ReserveSlots([CancelIdleTimer(q, g) EXCEPT !.idle_waiting[g] = FALSE,
                                               !.is_task_container[g] = TRUE,
                                               !.running_task_id[g] = t],
                 {g})

RegisterProcess(q, g, j) ==
    [q EXCEPT !.job[g] = j, !.container_name[g] = j]

\* Fault: the teardown relies on notify_idle for the turn slot.
ReleaseAllButTurn(q, g) ==
    [WarmPop(ReleaseContainer(q, g), g) EXCEPT
        !.processing[g] = FALSE, !.container_name[g] = NoJob, !.job[g] = NoJob]

\* What every teardown path does before it drains.
ReleaseAll(q, g) ==
    [WarmPop(ReleaseContainer(ReleaseTurn(q, g), g), g) EXCEPT
        !.processing[g] = FALSE, !.container_name[g] = NoJob, !.job[g] = NoJob]

ScheduleRetry(q, g) ==
    IF q.retry_count[g] + 1 > MaxRetries
    THEN [q EXCEPT !.retry_count[g] = 0]
    ELSE [q EXCEPT !.retry_count[g] = @ + 1, !.retry_timers[g] = @ + 1]

RunForGroupEnds(q, g, success) ==
    LET settled == IF success THEN [q EXCEPT !.retry_count[g] = 0]
                              ELSE ScheduleRetry(q, g)
    IN UNION {DrainGroup(p, g) : p \in {ReleaseAll(settled, g)}}

RunTaskEnds(q, g) ==
    UNION {DrainGroup([p EXCEPT !.is_task_container[g] = FALSE,
                                !.running_task_id[g] = NoTask], g) :
           p \in {ReleaseAll(q, g)}}

-----------------------------------------------------------------------------
(* Adoption after a restart, and the reaper.                               *)

AdoptOrphanContainer(q, g, j) ==
    [AcquireContainers(q, {g}) EXCEPT !.processing[g] = FALSE,
                                      !.is_task_container[g] = FALSE,
                                      !.adopted[g] = TRUE,
                                      !.job[g] = j]

\* Fault: the work that queued up behind the adopted container is left.
ReapAdoptedNoDrain(q, g) ==
    {[ReleaseAll(RequestShutdown(q, g), g) EXCEPT !.adopted[g] = FALSE,
                                                  !.idle_handle[g] = "off"]}

ReapAdopted(q, g) ==
    UNION {DrainGroup([p EXCEPT !.adopted[g] = FALSE,
                                !.idle_handle[g] = "off"], g) :
           p \in {ReleaseAll(RequestShutdown(q, g), g)}}

ReapGhost(q, g) ==
    UNION {DrainGroup([p EXCEPT !.is_task_container[g] = FALSE,
                                !.running_task_id[g] = NoTask,
                                !.missing_sweeps[g] = 0], g) :
           p \in {CancelIdleTimer(ReleaseAll(q, g), g)}}

\* One iteration of the loop of reconcile_once, with the snapshot of the
\* running containers that list_live returned.
ReconcileGroup(q, g) ==
    IF ~q.active[g] \/ <<g, q.container_name[g]>> \in q.sweep.live
    THEN {[q EXCEPT !.missing_sweeps[g] = 0]}
    ELSE IF q.container_name[g] = NoJob THEN {q}
    ELSE IF q.missing_sweeps[g] + 1 < 2
    THEN {[q EXCEPT !.missing_sweeps[g] = @ + 1]}
    ELSE ReapGhost(q, g)

=============================================================================
