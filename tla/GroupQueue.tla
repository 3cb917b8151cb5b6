----------------------------- MODULE GroupQueue -----------------------------
(***************************************************************************)
(* GroupQueue as a state machine: the callbacks the orchestrator makes on  *)
(* it (message loop, task scheduler, result stream, approval coordinator,  *)
(* timers, reaper), the runner coroutines it spawns, and the containers    *)
(* those coroutines wait for.  Every action is one uninterrupted run of    *)
(* the event loop, or one step of a container.                             *)
(***************************************************************************)
EXTENDS GroupQueueOps

CONSTANTS
    Orphans,         \* groups whose container may have survived a restart
    MaxFinals,       \* bound: batch-final results in flight per container
    MaxRetryTimers,  \* bound: _retry sleeps pending per group
    MaxReaps,        \* bound: ghosts the reaper may reap (0: no reaper)
    MaxLost          \* bound: runner coroutines that die without a finally

ASSUME BoundsAssumption ==
    /\ Orphans \subseteq Groups
    /\ {MaxFinals, MaxRetryTimers, MaxReaps, MaxLost} \subseteq Nat

VARIABLES
    queue,     \* the GroupQueue object, its counters and its coroutines
    orphans,   \* pending approval rows recover_pending has not come to yet
    reaps,     \* ghosts reaped so far
    lost       \* coroutines lost so far

vars == <<queue, orphans, reaps, lost>>
env  == <<orphans, reaps, lost>>

Init ==
    /\ queue = [active            |-> [g \in Groups |-> FALSE],
                processing        |-> [g \in Groups |-> FALSE],
                slot_held         |-> [g \in Groups |-> FALSE],
                idle_waiting      |-> [g \in Groups |-> FALSE],
                is_task_container |-> [g \in Groups |-> FALSE],
                running_task_id   |-> [g \in Groups |-> NoTask],
                pending_messages  |-> [g \in Groups |-> FALSE],
                pending_tasks     |-> [g \in Groups |-> <<>>],
                job               |-> [g \in Groups |-> NoJob],
                container_name    |-> [g \in Groups |-> NoJob],
                retry_count       |-> [g \in Groups |-> 0],
                retry_timers      |-> [g \in Groups |-> 0],
                idle_handle       |-> [g \in Groups |-> "off"],
                awaiting_approval |-> [g \in Groups |-> {}],
                adopted           |-> [g \in Groups |-> FALSE],
                missing_sweeps    |-> [g \in Groups |-> 0],
                global_active     |-> 0,
                tenant_active     |-> [t \in Tenants |-> 0],
                coworker_active   |-> [c \in Coworkers |-> 0],
                live_containers   |-> 0,
                warm              |-> <<>>,
                waiting           |-> <<>>,
                shutting_down     |-> FALSE,
                runner            |-> [g \in Groups |-> [j \in Jobs |-> NoRunner]],
                sweep             |-> [phase |-> "idle", live |-> {}, todo |-> {}]]
    /\ orphans \in SUBSET Orphans
    /\ reaps = 0
    /\ lost = 0

Runner(g, j) == queue.runner[g][j]

-----------------------------------------------------------------------------
(* Calls into the queue.                                                   *)

\* _handle_incoming and _recover_pending_messages.
IncomingMessage(g) ==
    /\ queue' = EnqueueMessageCheck(queue, g)
    /\ UNCHANGED env

\* The message loop found new messages: pipe them to the live container, or
\* queue a check.
MessageLoopDelivers(g) ==
    /\ queue' = IF Deliverable(queue, g) THEN SendMessage(queue, g)
                                         ELSE EnqueueMessageCheck(queue, g)
    /\ UNCHANGED env

ScheduleTask(g, t) ==
    /\ queue' = EnqueueTask(queue, g, t)
    /\ UNCHANGED env

RetryFires(g) ==
    /\ queue.retry_timers[g] > 0
    /\ queue' = EnqueueMessageCheck([queue EXCEPT !.retry_timers[g] = @ - 1], g)
    /\ UNCHANGED env

\* A coroutine that was just spawned runs on the next turn of the event loop,
\* long before an idle timeout that was armed meanwhile.
IdleTimerFires(g) ==
    /\ queue.idle_handle[g] # "off"
    /\ \A j \in Jobs : Runner(g, j).phase # "spawned"
    /\ LET spent == CancelIdleTimer(queue, g) IN
       IF queue.idle_handle[g] = "reap_adopted"
       THEN queue' \in ReapAdopted(spent, g)
       ELSE queue' = RequestShutdown(spent, g)
    /\ UNCHANGED env

\* The close timer of a scheduled task: it asks whatever container the group
\* has at that moment to shut down.
TaskCloseFires(g, j) ==
    /\ Runner(g, j).close = "armed"
    /\ queue' = RequestShutdown([queue EXCEPT !.runner[g][j].close = "fired"], g)
    /\ UNCHANGED env

\* An approval request of the group's container reaches the coordinator.
ApprovalRequested(g, r) ==
    /\ \E j \in Jobs : Runner(g, j).phase = "up"
    /\ \A h \in Groups : r \notin queue.awaiting_approval[h]
    /\ queue' = SuspendForApproval(queue, g, r)
    /\ UNCHANGED env

\* A decision, a cancel or the expiry of the request.
ApprovalResolved(g, r) ==
    /\ r \in queue.awaiting_approval[g]
    /\ queue' = ResumeFromApproval(queue, g, r)
    /\ UNCHANGED env

\* shutdown() also stops the registered containers: ContainerDies.
Shutdown ==
    /\ ~queue.shutting_down
    /\ queue' = [queue EXCEPT !.shutting_down = TRUE]
    /\ UNCHANGED env

-----------------------------------------------------------------------------
(* Runner coroutines.                                                      *)

RunnerStarts(g, j) ==
    /\ Runner(g, j).phase = "spawned"
    /\ LET started == [queue EXCEPT !.runner[g][j].phase = "starting"] IN
       queue' = IF Runner(g, j).task = NoTask
                THEN RunForGroupStarts(started, g)
                ELSE RunTaskStarts(started, g, Runner(g, j).task)
    /\ UNCHANGED env

\* The container runs, with its first prompt.
RunnerRegisters(g, j) ==
    /\ Runner(g, j).phase = "starting"
    /\ queue' = RegisterProcess(
                    [queue EXCEPT !.runner[g][j] =
                        [Runner(g, j) EXCEPT !.phase = "up", !.busy = TRUE]],
                    g, j)
    /\ UNCHANGED env

\* An ordinary reply on the result stream (not the batch-final one).
HandleReply(g, j) ==
    /\ Runner(g, j).phase \in {"up", "dead"}
    /\ Runner(g, j).busy \/ Runner(g, j).finals > 0
    /\ IF Runner(g, j).task = NoTask
       THEN queue' = ArmIdleTimer(queue, g)
       ELSE /\ Runner(g, j).close = "unarmed"
            /\ queue' = [queue EXCEPT !.runner[g][j].close = "armed"]
    /\ UNCHANGED env

\* Fault: a batch-final result that is delivered twice is handled twice.
HandleFinalAgain(g, j) ==
    /\ Runner(g, j).phase \in {"up", "dead"}
    /\ queue' \in NotifyIdle([queue EXCEPT !.runner[g][j].finals = @ - 1], g)
    /\ UNCHANGED env

\* The batch-final result (success, stopped or safety_blocked).
HandleFinal(g, j) ==
    /\ Runner(g, j).phase \in {"up", "dead"}
    /\ Runner(g, j).finals > 0
    /\ LET isTask == Runner(g, j).task # NoTask
           taken  == [queue EXCEPT !.runner[g][j] =
                        [Runner(g, j) EXCEPT
                            !.finals = @ - 1,
                            !.close = IF isTask /\ @ = "unarmed"
                                      THEN "armed" ELSE @]]
       IN queue' \in NotifyIdle(taken, g)
    /\ UNCHANGED env

\* The coroutine resumes: its container is gone (results not handled by now
\* are dropped with the subscription), or it never started one.  A message
\* run that does not raise has cancelled the idle timer.
RunnerEnds(g, j, success, raised) ==
    /\ Runner(g, j).phase \in {"starting", "dead"}
    /\ raised => ~success
    /\ LET gone    == [queue EXCEPT !.runner[g][j] = NoRunner]
           settled == IF raised THEN gone ELSE CancelIdleTimer(gone, g)
       IN IF Runner(g, j).task = NoTask
          THEN /\ success \/ queue.retry_timers[g] < MaxRetryTimers
               /\ queue' \in RunForGroupEnds(settled, g, success)
          ELSE /\ success
               /\ queue' \in RunTaskEnds(gone, g)
    /\ UNCHANGED env

-----------------------------------------------------------------------------
(* Containers.                                                             *)

AgentFinishesTurn(g, j) ==
    /\ Runner(g, j).phase = "up" /\ Runner(g, j).busy
    /\ Runner(g, j).finals < MaxFinals
    /\ queue' = [queue EXCEPT !.runner[g][j] =
                    [Runner(g, j) EXCEPT !.busy = FALSE, !.finals = @ + 1]]
    /\ UNCHANGED env

\* A piped message joins the turn in progress, or starts a turn.
AgentTakesInput(g, j) ==
    /\ Runner(g, j).phase \in {"up", "orphan"} /\ Runner(g, j).input
    /\ queue' = [queue EXCEPT !.runner[g][j] =
                    [Runner(g, j) EXCEPT !.input = FALSE, !.busy = TRUE]]
    /\ UNCHANGED env

\* The container obeys a shutdown request, crashes, or is stopped by the
\* inactivity watchdog, a cancel or shutdown().
ContainerDies(g, j) ==
    /\ Runner(g, j).phase \in {"up", "orphan"}
    /\ queue' = [queue EXCEPT !.runner[g][j] =
                    IF @.phase = "orphan" THEN NoRunner
                    ELSE [@ EXCEPT !.phase = "dead", !.busy = FALSE,
                                   !.input = FALSE, !.stop = FALSE]]
    /\ UNCHANGED env

-----------------------------------------------------------------------------
(* Restart recovery and the reaper.                                        *)

\* recover_pending for one row: the container may be alive or gone.
Adopt(g, r, alive) ==
    /\ g \in orphans
    /\ FreeJobs(queue, g) # {}
    /\ \A h \in Groups : r \notin queue.awaiting_approval[h]
    /\ LET j == FreeJob(queue, g) IN
       queue' = SuspendForApproval(
                    AdoptOrphanContainer(
                        [queue EXCEPT !.runner[g][j] =
                            [NoRunner EXCEPT
                                !.phase = IF alive THEN "orphan" ELSE "none",
                                !.busy = alive]], g, j),
                    g, r)
    /\ orphans' = orphans \ {g}
    /\ UNCHANGED <<reaps, lost>>

RunnerLost(g, j) ==
    /\ lost < MaxLost
    /\ Runner(g, j).phase = "dead"
    /\ queue' = [queue EXCEPT !.runner[g][j] = NoRunner]
    /\ lost' = lost + 1
    /\ UNCHANGED <<orphans, reaps>>

\* The runtime answers list_live; the sweep resumes some time later.
SweepLists ==
    /\ reaps < MaxReaps
    /\ ~queue.shutting_down
    /\ queue.sweep.phase = "idle"
    /\ queue' = [queue EXCEPT
                    !.sweep.phase = "listed",
                    !.sweep.live = {p \in Groups \X Jobs :
                        queue.runner[p[1]][p[2]].phase \in {"up", "orphan"}}]
    /\ UNCHANGED env

SweepFails ==
    /\ queue.sweep.phase = "listed"
    /\ queue' = [queue EXCEPT !.sweep = [phase |-> "idle", live |-> {}, todo |-> {}]]
    /\ UNCHANGED env

SweepResumes ==
    /\ queue.sweep.phase = "listed"
    /\ queue' = [queue EXCEPT !.sweep.phase = "visiting", !.sweep.todo = Groups]
    /\ UNCHANGED env

\* One iteration of the loop, which runs to its end without interruption.
SweepVisits(g) ==
    /\ g \in queue.sweep.todo
    /\ \E q \in ReconcileGroup(queue, g) :
         queue' = IF queue.sweep.todo = {g}
                  THEN [q EXCEPT !.sweep =
                           [phase |-> "idle", live |-> {}, todo |-> {}]]
                  ELSE [q EXCEPT !.sweep.todo = @ \ {g}]
    /\ reaps' = IF queue.active[g] /\ queue.container_name[g] # NoJob
                   /\ queue'.container_name[g] = NoJob
                THEN reaps + 1 ELSE reaps
    /\ UNCHANGED <<orphans, lost>>

-----------------------------------------------------------------------------

RunnerStep(g, j) ==
    \/ RunnerStarts(g, j)
    \/ RunnerRegisters(g, j)
    \/ HandleReply(g, j)
    \/ HandleFinal(g, j)
    \/ \E success, raised \in BOOLEAN : RunnerEnds(g, j, success, raised)
    \/ TaskCloseFires(g, j)
    \/ AgentFinishesTurn(g, j)
    \/ AgentTakesInput(g, j)
    \/ ContainerDies(g, j)
    \/ RunnerLost(g, j)

\* New work for a group.
Arrival(g) ==
    \/ IncomingMessage(g)
    \/ MessageLoopDelivers(g)
    \/ \E t \in Tasks : ScheduleTask(g, t)

GroupStep(g) ==
    \/ RetryFires(g)
    \/ IdleTimerFires(g)
    \/ \E r \in Requests : ApprovalRequested(g, r) \/ ApprovalResolved(g, r)
    \/ \E r \in Requests, alive \in BOOLEAN : Adopt(g, r, alive)
    \/ \E j \in Jobs : RunnerStep(g, j)

\* A sweep that visits the groups does not await: nothing else runs.
Next ==
    \/ /\ queue.sweep.phase # "visiting"
       /\ \/ \E g \in Groups : Arrival(g) \/ GroupStep(g)
          \/ Shutdown
          \/ SweepLists
          \/ SweepFails
          \/ SweepResumes
    \/ \E g \in Groups : SweepVisits(g)

Spec == Init /\ [][Next]_vars

-----------------------------------------------------------------------------
(* Types.                                                                  *)

RunnerType ==
    [phase  : {"none", "spawned", "starting", "up", "dead", "orphan"},
     task   : Tasks \cup {NoTask},
     busy   : BOOLEAN,
     input  : BOOLEAN,
     finals : Nat,
     stop   : BOOLEAN,
     close  : {"unarmed", "armed", "fired"}]

QueueType ==
    [active            : [Groups -> BOOLEAN],
     processing        : [Groups -> BOOLEAN],
     slot_held         : [Groups -> BOOLEAN],
     idle_waiting      : [Groups -> BOOLEAN],
     is_task_container : [Groups -> BOOLEAN],
     running_task_id   : [Groups -> Tasks \cup {NoTask}],
     pending_messages  : [Groups -> BOOLEAN],
     pending_tasks     : [Groups -> Seq(Tasks)],
     job               : [Groups -> Jobs \cup {NoJob}],
     container_name    : [Groups -> Jobs \cup {NoJob}],
     retry_count       : [Groups -> Nat],
     retry_timers      : [Groups -> Nat],
     idle_handle       : [Groups -> {"off", "request_shutdown", "reap_adopted"}],
     awaiting_approval : [Groups -> SUBSET Requests],
     adopted           : [Groups -> BOOLEAN],
     missing_sweeps    : [Groups -> Nat],
     global_active     : Nat,
     tenant_active     : [Tenants -> Nat],
     coworker_active   : [Coworkers -> Nat],
     live_containers   : Nat,
     warm              : Seq(Groups),
     waiting           : Seq(Groups),
     shutting_down     : BOOLEAN,
     runner            : [Groups -> [Jobs -> RunnerType]],
     sweep             : [phase : {"idle", "listed", "visiting"},
                          live  : SUBSET (Groups \X Jobs),
                          todo  : SUBSET Groups]]

\* Every attribute of the queue object keeps its type, however the callbacks,
\* coroutines and containers interleave.
TypeOK ==
    /\ queue \in QueueType
    /\ orphans \in SUBSET Groups
    /\ reaps \in Nat
    /\ lost \in Nat

-----------------------------------------------------------------------------
(* Safety.                                                                 *)

\* The counters of OrchestratorState count what the flags of the groups say:
\* no path through acquire, release, reap, adopt and the two finally blocks
\* takes or gives back a slot twice, and no max(0, ..) ever hides one.
CountersMatchFlags ==
    /\ queue.global_active = Cardinality(Holding(queue))
    /\ \A t \in Tenants :
         queue.tenant_active[t] = Cardinality(OfTenant(Holding(queue), t))
    /\ \A c \in Coworkers :
         queue.coworker_active[c] = Cardinality(OfCoworker(Holding(queue), c))
    /\ queue.live_containers = Cardinality(Live(queue))

\* Three-level turn admission: at no moment do more groups hold a turn slot
\* than the global, the tenant's or the coworker's limit allows, although
\* enqueue, warm resume, drain and retry check the limits at different times.
TurnsWithinLimits ==
    /\ Cardinality(Holding(queue)) <= GlobalLimit
    /\ \A t \in Tenants :
         Cardinality(OfTenant(Holding(queue), t)) <= TenantLimit[t]
    /\ \A c \in Coworkers :
         Cardinality(OfCoworker(Holding(queue), c)) <= CoworkerLimit[c]

\* A turn slot is only held by a group with a live container, so that
\* live_containers >= global_active (the claim beside OrchestratorState's
\* live_containers).
TurnNeedsContainer == Holding(queue) \subseteq Live(queue)

\* The memory ceiling: warm and processing containers together.  (Adoption
\* after a restart does not ask can_spawn_container.)
LiveWithinLimit == Cardinality(Live(queue)) <= GlobalLimit

\* slot_held and processing move in lockstep: no turn in flight without a
\* slot, no slot kept by a container that rests.
SlotHeldIffProcessing ==
    \A g \in Groups : queue.slot_held[g] = queue.processing[g]

\* A group never has two runner coroutines, and is active exactly while it
\* has one: enqueue, drain and retry never start a second container.
OneRunnerPerGroup ==
    \A g \in Groups :
        Cardinality({j \in Jobs : Runner(g, j).phase # "none"})
            = IF queue.active[g] THEN 1 ELSE 0

\* The warm pool the eviction picks its victim from holds exactly the resting
\* message containers, each once.
WarmPoolIsExact ==
    /\ ToSet(queue.warm) = {g \in Groups : /\ queue.active[g]
                                           /\ ~queue.processing[g]
                                           /\ ~queue.is_task_container[g]}
    /\ Len(queue.warm) = Cardinality(ToSet(queue.warm))

\* No work is stranded: a group with queued work and no container is on the
\* waiting list, and stays there only while a limit really blocks it.  A
\* handler that frees a slot and forgets to drain leaves work behind.
NoStrandedWork ==
    ~queue.shutting_down =>
        \A g \in Groups :
            HasWork(queue, g) /\ ~queue.active[g] =>
                /\ g \in Waiting(queue)
                /\ ~CanColdStart(queue, g)

\* An idle timer that could still stop a container is armed only while the
\* queue believes the container rests and no approval is pending on it.
IdleTimerOnlyAtRest ==
    \A g \in Groups :
        queue.idle_handle[g] # "off" /\ queue.job[g] # NoJob =>
            ~queue.processing[g] /\ queue.awaiting_approval[g] = {}

\* A message container that rests with nothing on its way to or from it is
\* on its way out: its idle timer is armed, or a shutdown request is out.
\* Otherwise it would keep its memory until the inactivity watchdog.
RestingContainerIsReapable ==
    \A g \in Groups, j \in Jobs :
        LET r == Runner(g, j) IN
        /\ r.phase = "up" /\ r.task = NoTask
        /\ ~r.busy /\ ~r.input /\ r.finals = 0
        /\ queue.awaiting_approval[g] = {}
        => queue.idle_handle[g] # "off" \/ r.stop

-----------------------------------------------------------------------------
(* The queue implements the abstract admission of turns and containers.    *)

Admission == INSTANCE TurnAdmission WITH turns <- Holding(queue),
                                         live  <- Live(queue)

\* Every step of the queue starts, resumes, ends or exits one group's turn
\* and gives the room to waiting groups within all limits (TurnAdmission).
RefinesTurnAdmission == Admission!Spec

-----------------------------------------------------------------------------
(* A claim of the repository that the code does not keep.                  *)

\* scheduler.py, arm_idle_timer: "a low IDLE_TIMEOUT can never kill a
\* legitimately busy turn".  The timer asks a container to stop only while
\* its agent is between turns.
IdleTimerSparesBusyTurn ==
    [][\A g \in Groups, j \in Jobs :
          /\ queue.idle_handle[g] # "off" /\ queue'.idle_handle[g] = "off"
          /\ ~Runner(g, j).stop /\ queue'.runner[g][j].stop
          => ~Runner(g, j).busy]_vars

=============================================================================
