--------------------------- MODULE ScheduledTasks ---------------------------
(***************************************************************************)
(* One row of scheduled_tasks through its life: the user's tools create,   *)
(* pause, resume, change and cancel it (ipc/task_handler.py), the          *)
(* scheduler's poll finds it due and hands a copy of it to the GroupQueue, *)
(* and the run of that copy writes the next time back when it has ended    *)
(* (orchestration/task_scheduler.py, db/task.py).                          *)
(*                                                                         *)
(* An action is one run of a coroutine between two awaits, or one          *)
(* statement of the database.  The GroupQueue is seen from outside: what   *)
(* is pending in it waits for any time and is run once at a time.  Times   *)
(* are numbers; 0 is NULL.                                                 *)
(*                                                                         *)
(* An operator introduced by "Fault:" is not part of the model: it is a    *)
(* variant of the operator after it, with a mistake the properties must    *)
(* notice.                                                                 *)
(***************************************************************************)
EXTENDS Naturals, Sequences

CONSTANTS
    Period,       \* of the interval and of the cron expression
    MaxTime,      \* bound: the clock, which starts at 1
    MaxEdits,     \* bound: what users do to the row and the tenant
    MaxFaults     \* bound: failed statements, missing coworkers and crashes

ASSUME TaskAssumptions ==
    /\ Period \in Nat \ {0} /\ MaxTime \in Nat \ {0}
    /\ MaxEdits \in Nat /\ MaxFaults \in Nat

\* schedule_type; "invalid" is an interval whose value is not a positive number.
Kinds == {"once", "interval", "cron", "invalid"}

VARIABLES
    now,
    row,          \* the row: status, schedule_type, next_run
    tenant,       \* tenants.status is 'active'
    phase,        \* next_run modulo Period, when the schedule was made
    rescheduled,  \* update_task has changed the schedule
    poll,         \* the scheduler's loop, with the row it has read
    pending,      \* copies in the GroupQueue's pending_tasks
    spawned,      \* copies whose coroutine has not run yet
    running,      \* _run_task
    stale,        \* runs started since the row stopped being active
    up, edits, faults

user  == <<row, tenant, phase, rescheduled, edits>>
run   == <<running, stale>>
queue == <<pending, spawned>>
vars  == <<now, user, poll, queue, run, up, faults>>

NoRow   == [status |-> "absent", kind |-> "once", next |-> 0]
Idle    == [at |-> "idle", task |-> NoRow]
NotRunning == [at |-> "idle", task |-> NoRow, next |-> 0]
MayFail == faults < MaxFaults
Exists  == row.status \notin {"absent", "deleted"}
Due     == row.status = "active" /\ row.next # 0 /\ row.next <= now

Init ==
    /\ now = 1
    /\ row = NoRow /\ tenant = TRUE /\ phase = 0 /\ rescheduled = FALSE /\ edits = 0
    /\ poll = Idle /\ pending = <<>> /\ spawned = <<>> /\ running = NotRunning
    /\ stale = 0 /\ up = TRUE /\ faults = 0

Tick ==
    /\ now < MaxTime
    /\ now' = now + 1
    /\ UNCHANGED <<user, poll, queue, run, up, faults>>

-----------------------------------------------------------------------------
(* The users.                                                              *)

NextCron == CHOOSE t \in now + 1 .. now + Period : t % Period = 0

\* next_run of a schedule that is made now; that of "once" is given.
FirstRun(kind) ==
    CASE kind = "interval" -> now + Period
      [] kind = "cron"     -> NextCron
      [] kind = "once"     -> now

\* schedule_task, which refuses an invalid schedule.
ScheduleTask(kind) ==
    /\ row.status = "absent"
    /\ kind # "invalid"
    /\ row' = [status |-> "active", kind |-> kind, next |-> FirstRun(kind)]
    /\ phase' = FirstRun(kind) % Period
    /\ UNCHANGED <<now, tenant, rescheduled, edits, poll, queue, run, up, faults>>

Edit ==
    /\ edits < MaxEdits
    /\ edits' = edits + 1
    /\ UNCHANGED <<now, poll, queue, running, up, faults>>

\* pause_task and resume_task, whatever the status was; cancel_task deletes the
\* row; delete_user cancels what is active.
SetStatus ==
    /\ Edit
    /\ \/ Exists /\ row' = [row EXCEPT !.status = "paused"]
       \/ Exists /\ row' = [row EXCEPT !.status = "active"]
       \/ Exists /\ row' = [row EXCEPT !.status = "deleted"]
       \/ row.status = "active" /\ row' = [row EXCEPT !.status = "cancelled"]
    /\ UNCHANGED <<tenant, phase, rescheduled>>
    /\ stale' = IF row'.status = "active" THEN 0 ELSE stale

\* update_task with a schedule: next_run is computed anew, but not for "once",
\* and an invalid interval is stored beside the old next_run.
UpdateTask(kind) ==
    /\ Edit
    /\ Exists
    /\ row' = [row EXCEPT !.kind = kind,
                          !.next = IF kind \in {"once", "invalid"} THEN @
                                   ELSE FirstRun(kind)]
    /\ rescheduled' = TRUE
    /\ UNCHANGED <<tenant, phase, stale>>

\* An operator suspends or reactivates the tenant.
ToggleTenant ==
    /\ Edit
    /\ tenant' = ~tenant
    /\ UNCHANGED <<row, phase, rescheduled, stale>>

-----------------------------------------------------------------------------
(* The scheduler's loop.                                                   *)

\* get_due_tasks.
GetDueTasks ==
    /\ up /\ poll.at = "idle"
    /\ Due /\ tenant
    /\ poll' = [poll EXCEPT !.at = "due"]
    /\ UNCHANGED <<now, user, queue, run, up, faults>>

\* get_task_by_id in _enqueue_due_tasks: only the status is looked at again.
GetTaskById ==
    /\ up /\ poll.at = "due"
    /\ poll' = IF row.status = "active" THEN [at |-> "read", task |-> row] ELSE Idle
    /\ UNCHANGED <<now, user, queue, run, up, faults>>

\* A statement of the poll raises what the loop catches: the next poll is
\* another one.
PollRaises ==
    /\ up /\ poll.at = "due" /\ MayFail
    /\ poll' = Idle
    /\ faults' = faults + 1
    /\ UNCHANGED <<now, user, queue, run, up>>

\* Fault: a task that is running is queued again.
EnqueueTaskTwice ==
    /\ up /\ poll.at = "read"
    /\ poll' = Idle
    /\ \/ pending' = Append(pending, poll.task) /\ spawned' = spawned
       \/ /\ running.at = "idle" /\ spawned = <<>>
          /\ pending' = pending /\ spawned' = <<poll.task>>
    /\ UNCHANGED <<now, user, run, up, faults>>

\* enqueue_task: a task that is running or pending is not queued twice; else it
\* is spawned, or made pending if the group is active or there is no room.
EnqueueTask ==
    /\ up /\ poll.at = "read"
    /\ poll' = Idle
    /\ \/ /\ running.at # "idle" \/ pending # <<>>
          /\ UNCHANGED queue
       \/ /\ running.at = "idle" /\ pending = <<>>
          /\ \/ pending' = <<poll.task>> /\ spawned' = spawned
             \/ /\ spawned = <<>>
                /\ pending' = pending /\ spawned' = <<poll.task>>
    /\ UNCHANGED <<now, user, run, up, faults>>

\* Fault: the task is not taken off pending_tasks.
DrainTaskKeeps ==
    /\ up /\ pending # <<>> /\ spawned = <<>> /\ running.at = "idle"
    /\ spawned' = <<Head(pending)>>
    /\ UNCHANGED <<now, user, poll, pending, run, up, faults>>

\* _drain_group or _drain_waiting.
DrainTask ==
    /\ up /\ pending # <<>> /\ spawned = <<>> /\ running.at = "idle"
    /\ spawned' = <<Head(pending)>>
    /\ pending' = Tail(pending)
    /\ UNCHANGED <<now, user, poll, run, up, faults>>

-----------------------------------------------------------------------------
(* _run_task.                                                              *)

\* The copy is run as it was read.
StartTask ==
    /\ up /\ spawned # <<>>
    /\ spawned' = <<>>
    /\ running' = [at |-> "run", task |-> Head(spawned), next |-> 0]
    /\ stale' = IF row.status = "active" THEN 0 ELSE stale + 1
    /\ UNCHANGED <<now, user, poll, pending, up, faults>>

\* The container ends, well or not.
ExecuteEnds ==
    /\ up /\ running.at = "run"
    /\ running' = [running EXCEPT !.at = "log"]
    /\ UNCHANGED <<now, stale, user, poll, queue, up, faults>>

\* Fault: the next time is counted from now.
NextRunFromNow(task) ==
    CASE task.kind = "once"     -> 0
      [] task.kind = "cron"     -> NextCron
      [] task.kind = "invalid"  -> now + 1
      [] task.kind = "interval" -> now + Period

\* Fault: a task that runs once keeps its time.
NextRunKept(task) ==
    CASE task.kind = "once"     -> task.next
      [] task.kind = "cron"     -> NextCron
      [] task.kind = "invalid"  -> now + 1
      [] task.kind = "interval" -> task.next + Period

\* compute_next_run: of an interval, the first time after now that is a number
\* of periods after the copy's next_run, and at least one; of an invalid one, a
\* minute from now, which is a tick here.
ComputeNextRun(task) ==
    CASE task.kind = "once"     -> 0
      [] task.kind = "cron"     -> NextCron
      [] task.kind = "invalid"  -> now + 1
      [] task.kind = "interval" ->
           IF now < task.next + Period THEN task.next + Period
           ELSE now + Period - ((now - task.next) % Period)

\* log_task_run; the row it refers to must still be there.
LogTaskRun ==
    /\ up /\ running.at = "log" /\ Exists
    /\ running' = [running EXCEPT !.at = "update",
                                  !.next = ComputeNextRun(running.task)]
    /\ UNCHANGED <<now, stale, user, poll, queue, up, faults>>

\* Fault: a run makes its row active again.
UpdateReactivates ==
    /\ up /\ running.at = "update"
    /\ running' = NotRunning
    /\ row' = IF ~Exists THEN row
              ELSE [row EXCEPT !.next = running.next,
                       !.status = IF running.next = 0 THEN "completed" ELSE "active"]
    /\ UNCHANGED <<now, stale, tenant, phase, rescheduled, edits, poll, queue, up, faults>>

\* update_task_after_run: next_run is overwritten, the status only if there is
\* no next run.
UpdateTaskAfterRun ==
    /\ up /\ running.at = "update"
    /\ running' = NotRunning
    /\ row' = IF ~Exists THEN row
              ELSE [row EXCEPT !.next = running.next,
                       !.status = IF running.next = 0 THEN "completed" ELSE @]
    /\ UNCHANGED <<now, stale, tenant, phase, rescheduled, edits, poll, queue, up, faults>>

\* There is no such coworker or no executor, execute or a statement raises what
\* nobody catches, as the log of a deleted task does: the row is left as it is.
RunTaskRaises ==
    /\ up /\ running.at \in {"run", "log", "update"}
    /\ \/ MayFail /\ faults' = faults + 1
       \/ running.at = "log" /\ ~Exists /\ faults' = faults
    /\ running' = NotRunning
    /\ UNCHANGED <<now, stale, user, poll, queue, up>>

-----------------------------------------------------------------------------

\* The orchestrator crashes.  Only the row is left.
Crash ==
    /\ up /\ MayFail
    /\ up' = FALSE
    /\ faults' = faults + 1
    /\ poll' = Idle /\ pending' = <<>> /\ spawned' = <<>> /\ running' = NotRunning
    /\ UNCHANGED <<now, stale, user>>

Restart ==
    /\ ~up
    /\ up' = TRUE
    /\ UNCHANGED <<now, user, poll, queue, run, faults>>

Scheduler == GetDueTasks \/ GetTaskById \/ EnqueueTask

RunTask == StartTask \/ ExecuteEnds \/ LogTaskRun \/ UpdateTaskAfterRun \/ RunTaskRaises

Next ==
    \/ Tick \/ SetStatus \/ ToggleTenant \/ Scheduler \/ PollRaises \/ DrainTask \/ RunTask
    \/ Crash \/ Restart
    \/ \E kind \in Kinds : ScheduleTask(kind) \/ UpdateTask(kind)

Spec == Init /\ [][Next]_vars

\* The poll repeats, the GroupQueue drains what is pending (QuietQueueEmpties
\* in GroupQueueLiveness), a task's container is closed in the end, and the
\* supervisor restarts the orchestrator.
FairSpec ==
    /\ Spec
    /\ WF_vars(Scheduler) /\ WF_vars(DrainTask) /\ WF_vars(RunTask) /\ WF_vars(Restart)

-----------------------------------------------------------------------------

Rows == [status : {"absent", "active", "paused", "completed", "cancelled", "deleted"},
         kind : Kinds, next : Nat]

\* The types of the variables.
TypeOK ==
    /\ now \in 1..MaxTime
    /\ row \in Rows
    /\ tenant \in BOOLEAN /\ rescheduled \in BOOLEAN /\ up \in BOOLEAN
    /\ phase \in 0 .. Period - 1
    /\ poll \in [at : {"idle", "due", "read"}, task : Rows]
    /\ pending \in Seq(Rows) /\ spawned \in Seq(Rows)
    /\ running \in [at : {"idle", "run", "log", "update"}, task : Rows, next : Nat]
    /\ stale \in Nat
    /\ edits \in 0..MaxEdits
    /\ faults \in 0..MaxFaults

\* "Prevent double-queuing" (enqueue_task): however long a task waits or runs
\* while the poll keeps finding its row due, one run of it is under way and at
\* most one more is queued.
QueuedOnce ==
    /\ Len(pending) <= 1 /\ Len(spawned) <= 1
    /\ running.at # "idle" => spawned = <<>>

\* A task that is cancelled, paused or completed is fired only by the copies
\* that were under way: one pending, one spawned, and one in the hands of the
\* poll (_enqueue_due_tasks "keeps a status race from firing an
\* already-cancelled reminder" only up to the enqueue).  Polls and drains that
\* go on while the copies run never add to them.
StaleRunsAreFew == stale <= 3

\* An interval keeps its rhythm: late runs, failed runs, runs of a stale copy,
\* pauses and crashes never move next_run off the times that the first one set
\* (compute_next_run adds periods to the old next_run).
NoDrift ==
    row.kind = "interval" /\ row.next # 0 /\ ~rescheduled => row.next % Period = phase

\* A row that was paused, completed or cancelled becomes active again only by
\* resume_task: a run that ends late does not bring it back
\* (COALESCE(status) in update_task_after_run).
NoRevival ==
    [][row.status \in {"paused", "completed", "cancelled", "deleted"}
         /\ row'.status = "active" => edits' > edits]_vars

\* A due task is not left lying: it is run and gets another time, unless it is
\* paused, cancelled or its tenant suspended; a run that fails now and then, a
\* crash in any step and a poll at any time do not change that.  A fault that
\* comes back with every run does: _run_task returns before it writes next_run
\* when the coworker or its executor is missing, and raises when execute fails
\* with an error that it does not catch, so such a row is due for ever.
DueTaskMovesOn ==
    \A t \in 1..MaxTime :
        (Due /\ row.next = t) ~> (row.next # t \/ row.status # "active" \/ ~tenant)

=============================================================================
