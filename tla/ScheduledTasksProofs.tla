------------------------ MODULE ScheduledTasksProofs ------------------------
(***************************************************************************)
(* Proofs about ScheduledTasks for any period, clock, number of edits and  *)
(* number of faults: an interval never drifts, a task is queued once, a    *)
(* row that stopped being active is fired by at most three copies and is   *)
(* not revived by a run that ends late.                                    *)
(*                                                                         *)
(* The invariants that carry this: no copy exists before the row does      *)
(* (Untouched); while the schedule is the first one, the row and all its   *)
(* copies, wherever they are, have the same rhythm (OnBeat); while the row *)
(* is not active, the runs so far and the copies in hand are at most three *)
(* (FewInHand).                                                            *)
(***************************************************************************)
EXTENDS ScheduledTasks, Integers, WellFoundedInduction, TLAPS

-----------------------------------------------------------------------------
(* Numbers modulo the period.                                              *)

\* A non-empty set of numbers has a least one.
LEMMA LeastNumber ==
    ASSUME NEW T, T \subseteq Nat, T # {}
    PROVE  \E i \in T : \A k \in T : i <= k
<1> DEFINE R == OpToRel(<, Nat)
<1>1. IsWellFoundedOn(R, Nat)
  BY NatLessThanWellFounded
<1>2. \A i, k \in Nat : i < k => <<i, k>> \in R
  BY DEF OpToRel
<1> HIDE DEF R
<1>3. \E i \in T : \A k \in T : ~(<<k, i>> \in R)
  BY <1>1, WFMin
<1>4. \E i \in T : \A k \in T : ~(k < i)
  BY <1>2, <1>3
<1> QED BY <1>4

LEMMA RemainderOf ==
    ASSUME NEW p \in Nat \ {0}, NEW k \in Nat, NEW r \in 0 .. p - 1
    PROVE  (p * k + r) % p = r
OBVIOUS

\* A number is a multiple of the period and its remainder.
LEMMA Division ==
    ASSUME NEW p \in Nat \ {0}, NEW a \in Nat, NEW x, x = a % p
    PROVE  x \in 0 .. p - 1 /\ \E k \in Nat : a = p * k + x
<1>1. x \in 0 .. p - 1
  OBVIOUS
<1>2. \A k \in Nat, r \in 0 .. p - 1 : a = p * k + r => x = r
  BY RemainderOf
<1> DEFINE T == {r \in Nat : \E k \in Nat : a = p * k + r}
<1>3. a = p * 0 + a
  OBVIOUS
<1>4. a \in T
  BY <1>3
<1>5. PICK r \in T : \A s \in T : r <= s
  BY <1>4, LeastNumber
<1>6. PICK k \in Nat : a = p * k + r
  BY <1>5
<1>7. r < p
  <2> SUFFICES ASSUME r >= p
               PROVE  FALSE
    OBVIOUS
  <2>1. r - p \in Nat
    BY <1>5
  <2>2. p * (k + 1) = p * k + p
    OBVIOUS
  <2>3. a = p * (k + 1) + (r - p)
    BY <1>5, <1>6, <2>2
  <2>4. r - p \in T
    BY <2>1, <2>3
  <2>5. r \in Nat /\ r <= r - p
    BY <1>5, <2>4
  <2> QED BY <2>5
<1>8. r \in 0 .. p - 1
  BY <1>5, <1>7
<1>9. x = r
  BY <1>2, <1>6, <1>8
<1> QED BY <1>1, <1>6, <1>9

\* Adding a period does not change the remainder.
LEMMA OnePeriodLater ==
    ASSUME NEW p \in Nat \ {0}, NEW a \in Nat
    PROVE  (a + p) % p = a % p
<1> DEFINE r == a % p
<1>1. r \in 0 .. p - 1 /\ \E k \in Nat : a = p * k + r
  BY Division
<1> HIDE DEF r
<1>2. PICK k \in Nat : a = p * k + r
  BY <1>1
<1>3. p * (k + 1) = p * k + p
  OBVIOUS
<1>4. a + p = p * (k + 1) + r
  BY <1>1, <1>2, <1>3
<1>5. (a + p) % p = r
  BY <1>1, <1>4, RemainderOf
<1> QED BY <1>5 DEF r

\* The catch-up of compute_next_run stays on the beat.
LEMMA CatchUp ==
    ASSUME NEW p \in Nat \ {0}, NEW a \in Nat, NEW t \in Nat, a + p <= t
    PROVE  /\ t + p - ((t - a) % p) \in Nat
           /\ (t + p - ((t - a) % p)) % p = a % p
<1> DEFINE d == t - a
           m == d % p
           r == a % p
<1>1. d \in Nat
  OBVIOUS
<1> HIDE DEF d
<1>2. m \in 0 .. p - 1 /\ \E k \in Nat : d = p * k + m
  BY <1>1, Division
<1>3. r \in 0 .. p - 1 /\ \E k \in Nat : a = p * k + r
  BY Division
<1> HIDE DEF m, r
<1>4. PICK k \in Nat : d = p * k + m
  BY <1>2
<1>5. PICK j \in Nat : a = p * j + r
  BY <1>3
<1>6. p * (j + k + 1) = p * j + p * k + p
  OBVIOUS
<1>7. t + p - m = a + d + p - m
  BY <1>2 DEF d
<1>8. t + p - m = p * (j + k + 1) + r
  BY <1>1, <1>2, <1>3, <1>4, <1>5, <1>6, <1>7
<1>9. (t + p - m) % p = r
  BY <1>3, <1>8, RemainderOf
<1>10. t + p - m \in Nat
  BY <1>2
<1> QED BY <1>9, <1>10 DEF m, r, d

\* There is a time of the cron expression within a period.
LEMMA NextCronExists ==
    ASSUME now \in Nat
    PROVE  NextCron \in Nat
<1> DEFINE m == now % Period
<1>1. Period \in Nat \ {0}
  BY TaskAssumptions
<1>2. m \in 0 .. Period - 1 /\ \E k \in Nat : now = Period * k + m
  BY <1>1, Division
<1> HIDE DEF m
<1>3. PICK k \in Nat : now = Period * k + m
  BY <1>2
<1>4. Period * (k + 1) = Period * k + Period
  BY <1>1
<1>5. now + Period - m = Period * (k + 1) + 0
  BY <1>1, <1>2, <1>3, <1>4
<1>6. (now + Period - m) % Period = 0
  BY <1>1, <1>5, RemainderOf
<1>7. now + Period - m \in now + 1 .. now + Period
  BY <1>1, <1>2
<1>8. NextCron \in now + 1 .. now + Period
  BY <1>6, <1>7 DEF NextCron
<1> QED BY <1>1, <1>8

LEMMA FirstRunType ==
    ASSUME now \in Nat, NEW kind \in Kinds \ {"invalid"}
    PROVE  FirstRun(kind) \in Nat
BY NextCronExists, TaskAssumptions DEF FirstRun, Kinds

LEMMA ComputeNextRunType ==
    ASSUME now \in Nat, NEW task \in Rows
    PROVE  /\ ComputeNextRun(task) \in Nat
           /\ task.kind = "interval" =>
                 ComputeNextRun(task) % Period = task.next % Period
<1>1. Period \in Nat \ {0} /\ task.next \in Nat /\ task.kind \in Kinds
  BY TaskAssumptions DEF Rows
<1>2. CASE task.kind = "once"
  BY <1>2 DEF ComputeNextRun
<1>3. CASE task.kind = "cron"
  BY <1>3, NextCronExists DEF ComputeNextRun
<1>4. CASE task.kind = "interval" /\ now < task.next + Period
  BY <1>1, <1>4, OnePeriodLater DEF ComputeNextRun
<1>5. CASE task.kind = "interval" /\ ~(now < task.next + Period)
  <2>1. task.next + Period <= now
    BY <1>1, <1>5
  <2>2. ComputeNextRun(task) = now + Period - ((now - task.next) % Period)
    BY <1>5 DEF ComputeNextRun
  <2> QED BY <1>1, <1>5, <2>1, <2>2, CatchUp
<1>6. CASE task.kind = "invalid"
  BY <1>6 DEF ComputeNextRun
<1> QED BY <1>1, <1>2, <1>3, <1>4, <1>5, <1>6 DEF Kinds

-----------------------------------------------------------------------------
(* The invariants.                                                         *)

\* The copies of the row that a run may still be made of, or is made of.
UnderWay ==
    {pending[i] : i \in DOMAIN pending} \cup {spawned[i] : i \in DOMAIN spawned}
        \cup {c \in {poll.task} : poll.at = "read"}
        \cup {c \in {running.task} : running.at # "idle"}

\* There is nothing to run before there is a row.
Untouched ==
    row.status = "absent" =>
        /\ row.kind = "once" /\ stale = 0
        /\ poll.at = "idle" /\ pending = <<>> /\ spawned = <<>>
        /\ running.at = "idle"

\* While the first schedule is an interval, the row, its copies and the time
\* that a run is about to write are on its beat.
OnBeat ==
    row.kind = "interval" /\ ~rescheduled =>
        /\ \A c \in UnderWay \cup {row} :
              c.kind = "interval" /\ c.next % Period = phase
        /\ running.at = "update" => running.next % Period = phase

InHand == Len(pending) + Len(spawned) + (IF poll.at = "read" THEN 1 ELSE 0)

\* While the row is not active, copies become runs and nothing is copied.
FewInHand ==
    IF row.status = "active" THEN stale = 0 ELSE stale + InHand <= 3

TaskInv == TypeOK /\ QueuedOnce /\ Untouched /\ OnBeat /\ FewInHand

-----------------------------------------------------------------------------
(* Types.                                                                  *)

LEMMA TaskInitInv == Init => TaskInv
<1> SUFFICES ASSUME Init
             PROVE  TaskInv
  OBVIOUS
<1> USE DEF Init, NoRow, Idle, NotRunning
<1>1. TypeOK
  <2>1. NoRow \in Rows
    BY DEF Rows, Kinds
  <2>2. <<>> \in Seq(Rows)
    OBVIOUS
  <2>3. now \in 1..MaxTime /\ phase \in 0 .. Period - 1
    BY TaskAssumptions
  <2>4. edits \in 0..MaxEdits /\ faults \in 0..MaxFaults
    BY TaskAssumptions
  <2> QED BY <2>1, <2>2, <2>3, <2>4 DEF TypeOK
<1>2. QueuedOnce /\ Untouched
  BY DEF QueuedOnce, Untouched
<1>3. OnBeat
  BY DEF OnBeat
<1>4. FewInHand
  BY DEF FewInHand, InHand
<1> QED BY <1>1, <1>2, <1>3, <1>4 DEF TaskInv

LEMMA UserTypes ==
    ASSUME TypeOK,
           \/ Tick \/ SetStatus \/ ToggleTenant
           \/ \E kind \in Kinds : ScheduleTask(kind) \/ UpdateTask(kind)
    PROVE  TypeOK'
<1> USE DEF user, run, queue
<1>1. CASE Tick
  BY <1>1, TaskAssumptions DEF TypeOK, Tick
<1>2. CASE SetStatus
  <2>1. edits' \in 0..MaxEdits
    BY <1>2, TaskAssumptions DEF TypeOK, SetStatus, Edit
  <2>2. row' \in Rows
    BY <1>2 DEF TypeOK, SetStatus, Rows
  <2>3. stale' \in Nat
    BY <1>2 DEF TypeOK, SetStatus
  <2> QED BY <1>2, <2>1, <2>2, <2>3 DEF TypeOK, SetStatus, Edit
<1>3. CASE ToggleTenant
  BY <1>3, TaskAssumptions DEF TypeOK, ToggleTenant, Edit
<1>4. ASSUME NEW kind \in Kinds, ScheduleTask(kind)
      PROVE  TypeOK'
  <2>1. FirstRun(kind) \in Nat
    BY <1>4, FirstRunType DEF TypeOK, ScheduleTask
  <2>2. phase' \in 0 .. Period - 1
    BY <1>4, <2>1, TaskAssumptions, Division DEF ScheduleTask
  <2>3. row' \in Rows
    BY <1>4, <2>1 DEF ScheduleTask, Rows
  <2> QED BY <1>4, <2>2, <2>3 DEF TypeOK, ScheduleTask
<1>5. ASSUME NEW kind \in Kinds, UpdateTask(kind)
      PROVE  TypeOK'
  <2>1. kind # "invalid" => FirstRun(kind) \in Nat
    BY FirstRunType DEF TypeOK
  <2>2. row' \in Rows
    BY <1>5, <2>1 DEF TypeOK, UpdateTask, Rows
  <2>3. edits < MaxEdits /\ edits' = edits + 1 /\ edits \in 0..MaxEdits
    BY <1>5 DEF TypeOK, UpdateTask, Edit
  <2>4. edits' \in 0..MaxEdits
    BY <2>3, TaskAssumptions
  <2> QED BY <1>5, <2>2, <2>4 DEF TypeOK, UpdateTask, Edit
<1> QED BY <1>1, <1>2, <1>3, <1>4, <1>5

LEMMA SchedulerTypes ==
    ASSUME TypeOK, Scheduler \/ PollRaises \/ DrainTask \/ Crash \/ Restart
    PROVE  TypeOK'
<1> USE DEF user, run, queue
<1>1. Idle \in [at : {"idle", "due", "read"}, task : Rows]
      /\ NotRunning \in [at : {"idle", "run", "log", "update"}, task : Rows, next : Nat]
  BY DEF Idle, NotRunning, NoRow, Rows, Kinds
<1>2. CASE GetDueTasks
  BY <1>2 DEF TypeOK, GetDueTasks
<1>3. CASE GetTaskById
  BY <1>1, <1>3 DEF TypeOK, GetTaskById
<1>4. CASE EnqueueTask
  <2>1. pending' \in Seq(Rows) /\ spawned' \in Seq(Rows)
    <3>1. poll.task \in Rows
      BY DEF TypeOK
    <3>2. <<poll.task>> \in Seq(Rows)
      BY <3>1
    <3> QED BY <1>4, <3>2 DEF TypeOK, EnqueueTask
  <2> QED BY <1>1, <1>4, <2>1 DEF TypeOK, EnqueueTask
<1>5. CASE PollRaises
  BY <1>1, <1>5, TaskAssumptions DEF TypeOK, PollRaises, MayFail
<1>6. CASE DrainTask
  <2>1. pending' \in Seq(Rows) /\ spawned' \in Seq(Rows)
    BY <1>6 DEF TypeOK, DrainTask
  <2> QED BY <1>6, <2>1 DEF TypeOK, DrainTask
<1>7. CASE Crash
  <2>1. faults' \in 0..MaxFaults
    BY <1>7, TaskAssumptions DEF TypeOK, Crash, MayFail
  <2>2. pending' \in Seq(Rows) /\ spawned' \in Seq(Rows)
    BY <1>7 DEF Crash
  <2> QED BY <1>1, <1>7, <2>1, <2>2 DEF TypeOK, Crash
<1>8. CASE Restart
  BY <1>8 DEF TypeOK, Restart
<1> QED BY <1>2, <1>3, <1>4, <1>5, <1>6, <1>7, <1>8 DEF Scheduler

LEMMA RunTypes ==
    ASSUME TypeOK, RunTask
    PROVE  TypeOK'
<1> USE DEF user, run, queue
<1> DEFINE Running == [at : {"idle", "run", "log", "update"}, task : Rows, next : Nat]
<1>1. NotRunning \in Running
  BY DEF NotRunning, NoRow, Rows, Kinds
<1>2. CASE StartTask
  <2>1. Head(spawned) \in Rows
    BY <1>2 DEF TypeOK, StartTask
  <2>2. running' \in Running
    BY <1>2, <2>1 DEF StartTask
  <2>3. stale' \in Nat /\ spawned' \in Seq(Rows)
    BY <1>2 DEF TypeOK, StartTask
  <2> QED BY <1>2, <2>2, <2>3 DEF TypeOK, StartTask
<1>3. CASE ExecuteEnds
  BY <1>3 DEF TypeOK, ExecuteEnds
<1>4. CASE LogTaskRun
  <2>1. ComputeNextRun(running.task) \in Nat
    BY ComputeNextRunType DEF TypeOK
  <2>2. running' \in Running
    BY <1>4, <2>1 DEF TypeOK, LogTaskRun
  <2> QED BY <1>4, <2>2 DEF TypeOK, LogTaskRun
<1>5. CASE UpdateTaskAfterRun
  <2>1. row' \in Rows
    BY <1>5 DEF TypeOK, UpdateTaskAfterRun, Rows
  <2> QED BY <1>1, <1>5, <2>1 DEF TypeOK, UpdateTaskAfterRun
<1>6. CASE RunTaskRaises
  <2>1. faults' \in 0..MaxFaults
    BY <1>6, TaskAssumptions DEF TypeOK, RunTaskRaises, MayFail
  <2> QED BY <1>1, <1>6, <2>1 DEF TypeOK, RunTaskRaises
<1> QED BY <1>2, <1>3, <1>4, <1>5, <1>6 DEF RunTask

-----------------------------------------------------------------------------
(* One run at a time, one more in the queue.                               *)

LEMMA QueuedOnceStep ==
    ASSUME TypeOK, QueuedOnce, Next
    PROVE  QueuedOnce'
<1> USE DEF user, run, queue
<1>1. CASE UNCHANGED <<queue, running>>
  BY <1>1 DEF QueuedOnce
<1>2. CASE EnqueueTask
  <2>1. \/ UNCHANGED <<queue, running>>
        \/ /\ running' = running /\ running.at = "idle"
           /\ pending' = <<poll.task>> /\ spawned' = spawned
        \/ /\ running' = running /\ running.at = "idle"
           /\ pending' = pending /\ spawned' = <<poll.task>>
    BY <1>2 DEF EnqueueTask
  <2>2. Len(<<poll.task>>) <= 1
    OBVIOUS
  <2>3. Len(pending') <= 1 /\ Len(spawned') <= 1
    <3>1. pending' = pending \/ pending' = <<poll.task>>
      BY <2>1
    <3>2. spawned' = spawned \/ spawned' = <<poll.task>>
      BY <2>1
    <3> QED BY <2>2, <3>1, <3>2 DEF QueuedOnce
  <2>4. running'.at # "idle" => spawned' = <<>>
    BY <2>1 DEF QueuedOnce
  <2> QED BY <2>3, <2>4 DEF QueuedOnce
<1>3. CASE DrainTask
  BY <1>3 DEF DrainTask, QueuedOnce, TypeOK
<1>4. CASE StartTask
  BY <1>4 DEF StartTask, QueuedOnce
<1>5. CASE ExecuteEnds \/ LogTaskRun
  <2>1. /\ pending' = pending /\ spawned' = spawned
        /\ running.at # "idle"
    BY <1>5 DEF ExecuteEnds, LogTaskRun
  <2> QED BY <2>1 DEF QueuedOnce
<1>6. CASE UpdateTaskAfterRun \/ RunTaskRaises
  <2>1. pending' = pending /\ spawned' = spawned /\ running'.at = "idle"
    BY <1>6 DEF UpdateTaskAfterRun, RunTaskRaises, NotRunning
  <2> QED BY <2>1 DEF QueuedOnce
<1>7. CASE Crash
  BY <1>7 DEF Crash, QueuedOnce, NotRunning
<1>8. CASE Tick \/ SetStatus \/ ToggleTenant \/ GetDueTasks \/ GetTaskById
           \/ PollRaises \/ Restart
  BY <1>1, <1>8 DEF Tick, SetStatus, ToggleTenant, GetDueTasks, GetTaskById,
                    PollRaises, Restart, Edit
<1>9. ASSUME NEW kind \in Kinds, ScheduleTask(kind) \/ UpdateTask(kind)
      PROVE  QueuedOnce'
  BY <1>1, <1>9 DEF ScheduleTask, UpdateTask, Edit
<1> QED BY <1>2, <1>3, <1>4, <1>5, <1>6, <1>7, <1>8, <1>9 DEF Next, Scheduler, RunTask

-----------------------------------------------------------------------------
(* The rhythm of an interval.                                              *)

LEMMA UntouchedStep ==
    ASSUME TypeOK, Untouched, Next
    PROVE  Untouched'
<1> USE DEF user, run, queue
<1>1. CASE row'.status # "absent"
  BY <1>1 DEF Untouched
<1>2. CASE row'.status = "absent"
  <2>1. row.status = "absent" => row' = row
    BY <1>2 DEF TypeOK, Rows, Next, Tick, SetStatus, ToggleTenant, Scheduler, GetDueTasks,
           GetTaskById, EnqueueTask, PollRaises, DrainTask, RunTask, StartTask,
           ExecuteEnds, LogTaskRun, UpdateTaskAfterRun, RunTaskRaises, Crash,
           Restart, ScheduleTask, UpdateTask, Edit, Exists
  <2>2. row.status = "absent"
    BY <1>2 DEF TypeOK, Rows, Next, Tick, SetStatus, ToggleTenant, Scheduler, GetDueTasks,
           GetTaskById, EnqueueTask, PollRaises, DrainTask, RunTask, StartTask,
           ExecuteEnds, LogTaskRun, UpdateTaskAfterRun, RunTaskRaises, Crash,
           Restart, ScheduleTask, UpdateTask, Edit, Exists
  <2>3. /\ row.kind = "once" /\ stale = 0 /\ poll.at = "idle" /\ pending = <<>>
        /\ spawned = <<>> /\ running.at = "idle"
    BY <2>2 DEF Untouched
  <2>4. stale' = 0 /\ pending' = <<>> /\ spawned' = <<>>
    BY <2>2, <2>3 DEF Next, Tick, SetStatus, ToggleTenant, Scheduler, GetDueTasks,
           GetTaskById, EnqueueTask, PollRaises, DrainTask, RunTask, StartTask,
           ExecuteEnds, LogTaskRun, UpdateTaskAfterRun, RunTaskRaises, Crash,
           Restart, ScheduleTask, UpdateTask, Edit, Exists
  <2>5. poll'.at = "idle" /\ running'.at = "idle"
    BY <2>2, <2>3 DEF Next, Tick, SetStatus, ToggleTenant, Scheduler, GetDueTasks,
           GetTaskById, EnqueueTask, PollRaises, DrainTask, RunTask, StartTask,
           ExecuteEnds, LogTaskRun, UpdateTaskAfterRun, RunTaskRaises, Crash,
           Restart, ScheduleTask, UpdateTask, Edit, Exists, Due, Idle, NotRunning
  <2> QED BY <2>1, <2>2, <2>3, <2>4, <2>5 DEF Untouched
<1> QED BY <1>1, <1>2

\* A copy is always a copy of the row as it was when it was read.
LEMMA CopiesComeFromTheRow ==
    ASSUME TypeOK, QueuedOnce, Next
    PROVE  UnderWay' \subseteq UnderWay \cup {row}
<1> USE DEF user, run, queue
<1>0. pending \in Seq(Rows) /\ spawned \in Seq(Rows)
  BY DEF TypeOK
<1>1. CASE pending' = pending /\ spawned' = spawned /\ poll' = poll /\ running' = running
  BY <1>1 DEF UnderWay
<1>2. CASE GetDueTasks \/ GetTaskById \/ PollRaises
  <2>1. pending' = pending /\ spawned' = spawned /\ running' = running
    BY <1>2 DEF GetDueTasks, GetTaskById, PollRaises
  <2>2. poll'.at = "read" => poll'.task = row
    BY <1>2 DEF GetDueTasks, GetTaskById, PollRaises, Idle, TypeOK
  <2> QED BY <2>1, <2>2 DEF UnderWay
<1>3. CASE EnqueueTask
  <2>1. poll.at = "read" /\ poll'.at = "idle" /\ running' = running
    BY <1>3 DEF EnqueueTask, Idle
  <2>2. pending' = pending \/ pending' = <<poll.task>>
    BY <1>3 DEF EnqueueTask
  <2>3. spawned' = spawned \/ spawned' = <<poll.task>>
    BY <1>3 DEF EnqueueTask
  <2>4. {pending'[i] : i \in DOMAIN pending'}
          \subseteq {pending[i] : i \in DOMAIN pending} \cup {poll.task}
    BY <2>2
  <2>5. {spawned'[i] : i \in DOMAIN spawned'}
          \subseteq {spawned[i] : i \in DOMAIN spawned} \cup {poll.task}
    BY <2>3
  <2> QED BY <2>1, <2>4, <2>5 DEF UnderWay
<1>4. CASE DrainTask
  <2>1. poll' = poll /\ running' = running /\ pending # <<>>
    BY <1>4 DEF DrainTask
  <2>2. spawned' = <<Head(pending)>> /\ pending' = Tail(pending)
    BY <1>4 DEF DrainTask
  <2>3. 1 \in DOMAIN pending /\ Head(pending) = pending[1]
    BY <1>0, <2>1
  <2>4. {pending'[i] : i \in DOMAIN pending'} \subseteq {pending[i] : i \in DOMAIN pending}
    BY <1>0, <2>1, <2>2
  <2>5. {spawned'[i] : i \in DOMAIN spawned'} \subseteq {pending[i] : i \in DOMAIN pending}
    BY <2>2, <2>3
  <2> QED BY <2>1, <2>4, <2>5 DEF UnderWay
<1>5. CASE StartTask
  <2>1. poll' = poll /\ pending' = pending /\ spawned' = <<>> /\ spawned # <<>>
    BY <1>5 DEF StartTask
  <2>2. running'.task = Head(spawned)
    BY <1>5 DEF StartTask
  <2>3. 1 \in DOMAIN spawned /\ Head(spawned) = spawned[1]
    BY <1>0, <2>1
  <2>4. {spawned'[i] : i \in DOMAIN spawned'} = {}
    BY <2>1
  <2> QED BY <2>1, <2>2, <2>3, <2>4 DEF UnderWay
<1>6. CASE ExecuteEnds \/ LogTaskRun \/ UpdateTaskAfterRun \/ RunTaskRaises
  <2>1. poll' = poll /\ pending' = pending /\ spawned' = spawned
    BY <1>6 DEF ExecuteEnds, LogTaskRun, UpdateTaskAfterRun, RunTaskRaises
  <2>2. \/ running'.at = "idle"
        \/ running'.task = running.task /\ running.at # "idle"
    <3>1. CASE ExecuteEnds \/ LogTaskRun
      BY <3>1 DEF ExecuteEnds, LogTaskRun, TypeOK
    <3>2. CASE UpdateTaskAfterRun \/ RunTaskRaises
      BY <3>2 DEF UpdateTaskAfterRun, RunTaskRaises, NotRunning
    <3> QED BY <1>6, <3>1, <3>2
  <2> QED BY <2>1, <2>2 DEF UnderWay
<1>7. CASE Crash
  <2>1. poll'.at = "idle" /\ running'.at = "idle" /\ pending' = <<>> /\ spawned' = <<>>
    BY <1>7 DEF Crash, Idle, NotRunning
  <2>2. UnderWay' = {}
    BY <2>1 DEF UnderWay
  <2> QED BY <2>2
<1>8. CASE Tick \/ SetStatus \/ ToggleTenant \/ Restart
  BY <1>1, <1>8 DEF Tick, SetStatus, ToggleTenant, Restart, Edit
<1>9. ASSUME NEW kind \in Kinds, ScheduleTask(kind) \/ UpdateTask(kind)
      PROVE  UnderWay' \subseteq UnderWay \cup {row}
  BY <1>1, <1>9 DEF ScheduleTask, UpdateTask, Edit
<1> QED BY <1>2, <1>3, <1>4, <1>5, <1>6, <1>7, <1>8, <1>9 DEF Next, Scheduler, RunTask

\* The row keeps its kind, and gets a new time only from a run that ends.
LEMMA RowKeepsItsKind ==
    ASSUME TypeOK, Next,
           \A kind \in Kinds : ~ScheduleTask(kind) /\ ~UpdateTask(kind)
    PROVE  /\ row'.kind = row.kind /\ phase' = phase /\ rescheduled' = rescheduled
           /\ \/ row'.next = row.next
              \/ running.at = "update" /\ row'.next = running.next
<1> USE DEF user, run, queue
<1>0. row \in Rows
  BY DEF TypeOK
<1>1. CASE UNCHANGED <<row, phase, rescheduled>>
  BY <1>1
<1>2. CASE SetStatus
  BY <1>0, <1>2 DEF SetStatus, Rows
<1>3. CASE UpdateTaskAfterRun
  BY <1>0, <1>3 DEF UpdateTaskAfterRun, Rows
<1>4. CASE Tick \/ ToggleTenant \/ Scheduler \/ PollRaises \/ DrainTask \/ Crash \/ Restart
  BY <1>1, <1>4 DEF Tick, ToggleTenant, Scheduler, GetDueTasks, GetTaskById,
                    EnqueueTask, PollRaises, DrainTask, Crash, Restart, Edit
<1>5. CASE StartTask \/ ExecuteEnds \/ LogTaskRun \/ RunTaskRaises
  BY <1>1, <1>5 DEF StartTask, ExecuteEnds, LogTaskRun, RunTaskRaises
<1> QED BY <1>2, <1>3, <1>4, <1>5 DEF Next, RunTask

\* The time that a run is going to write is computed from its copy.
LEMMA NextIsComputedFromTheCopy ==
    ASSUME TypeOK, Next, running'.at = "update"
    PROVE  \/ running.at = "update" /\ running'.next = running.next
           \/ running.at = "log" /\ running'.next = ComputeNextRun(running.task)
<1> USE DEF user, run, queue
<1>1. CASE running' = running
  BY <1>1
<1>2. CASE StartTask \/ ExecuteEnds \/ UpdateTaskAfterRun \/ RunTaskRaises \/ Crash
  BY <1>2 DEF StartTask, ExecuteEnds, UpdateTaskAfterRun, RunTaskRaises, Crash,
              NotRunning, TypeOK
<1>3. CASE LogTaskRun
  BY <1>3 DEF LogTaskRun, TypeOK
<1>4. CASE Tick \/ SetStatus \/ ToggleTenant \/ Scheduler \/ PollRaises \/ DrainTask
           \/ Restart
  BY <1>1, <1>4 DEF Tick, SetStatus, ToggleTenant, Scheduler, GetDueTasks, GetTaskById,
                    EnqueueTask, PollRaises, DrainTask, Restart, Edit
<1>5. ASSUME NEW kind \in Kinds, ScheduleTask(kind) \/ UpdateTask(kind)
      PROVE  running' = running
  BY <1>5 DEF ScheduleTask, UpdateTask, Edit
<1> QED BY <1>1, <1>2, <1>3, <1>4, <1>5 DEF Next, RunTask

LEMMA OnBeatStep ==
    ASSUME TypeOK, QueuedOnce, Untouched, OnBeat, Next
    PROVE  OnBeat'
<1> USE DEF user, run, queue
<1>0. UnderWay' \subseteq UnderWay \cup {row}
  BY CopiesComeFromTheRow
<1>1. ASSUME NEW kind \in Kinds, ScheduleTask(kind)
      PROVE  OnBeat'
  <2>1. /\ poll.at = "idle" /\ pending = <<>> /\ spawned = <<>>
        /\ running.at = "idle"
    BY <1>1 DEF ScheduleTask, Untouched
  <2>2. poll' = poll /\ pending' = pending /\ spawned' = spawned /\ running' = running
    BY <1>1 DEF ScheduleTask
  <2>3. UnderWay' = {}
    BY <2>1, <2>2 DEF UnderWay
  <2>4. row'.kind = kind /\ row'.next = FirstRun(kind) /\ phase' = FirstRun(kind) % Period
    BY <1>1 DEF ScheduleTask
  <2> QED BY <2>1, <2>2, <2>3, <2>4 DEF OnBeat
<1>2. ASSUME NEW kind \in Kinds, UpdateTask(kind)
      PROVE  OnBeat'
  BY <1>2 DEF UpdateTask, OnBeat
<1>3. CASE \A kind \in Kinds : ~ScheduleTask(kind) /\ ~UpdateTask(kind)
  <2> SUFFICES ASSUME row'.kind = "interval", ~rescheduled'
               PROVE  /\ \A c \in UnderWay' \cup {row'} :
                            c.kind = "interval" /\ c.next % Period = phase'
                      /\ running'.at = "update" => running'.next % Period = phase'
    BY DEF OnBeat
  <2>1. /\ row'.kind = row.kind /\ phase' = phase /\ rescheduled' = rescheduled
        /\ \/ row'.next = row.next
           \/ running.at = "update" /\ row'.next = running.next
    BY <1>3, RowKeepsItsKind
  <2>2. /\ \A c \in UnderWay \cup {row} :
              c.kind = "interval" /\ c.next % Period = phase
        /\ running.at = "update" => running.next % Period = phase
    BY <2>1 DEF OnBeat
  <2>3. row'.next % Period = phase
    BY <2>1, <2>2
  <2>4. \A c \in UnderWay' \cup {row'} : c.kind = "interval" /\ c.next % Period = phase'
    BY <1>0, <2>1, <2>2, <2>3
  <2>5. ASSUME running'.at = "update"
        PROVE  running'.next % Period = phase'
    <3>1. CASE running.at = "update" /\ running'.next = running.next
      BY <2>1, <2>2, <3>1
    <3>2. CASE running.at = "log" /\ running'.next = ComputeNextRun(running.task)
      <4>1. running.task \in UnderWay /\ running.task \in Rows /\ now \in Nat
        BY <3>2 DEF UnderWay, TypeOK
      <4>2. running.task.kind = "interval" /\ running.task.next % Period = phase
        BY <2>2, <4>1
      <4>3. ComputeNextRun(running.task) % Period = running.task.next % Period
        BY <4>1, <4>2, ComputeNextRunType
      <4> QED BY <2>1, <3>2, <4>2, <4>3
    <3> QED BY <2>5, <3>1, <3>2, NextIsComputedFromTheCopy
  <2> QED BY <2>4, <2>5
<1> QED BY <1>1, <1>2, <1>3

-----------------------------------------------------------------------------
(* Runs of a row that is not active.                                       *)

LEMMA InHandType ==
    ASSUME TypeOK
    PROVE  Len(pending) \in Nat /\ Len(spawned) \in Nat /\ InHand \in Nat
BY DEF TypeOK, InHand

\* Nothing is copied while the row is not active: a copy becomes a run, or is
\* dropped.
LEMMA InHandStep ==
    ASSUME TypeOK, QueuedOnce, row.status # "active", Next, row'.status # "active"
    PROVE  stale' + InHand' <= stale + InHand
<1> USE DEF user, run, queue
<1>0. /\ Len(pending) \in Nat /\ Len(spawned) \in Nat /\ stale \in Nat
      /\ InHand \in Nat
  BY InHandType DEF TypeOK
<1>1. CASE stale' = stale /\ UNCHANGED <<queue, poll>>
  <2>1. InHand' = InHand
    BY <1>1 DEF InHand
  <2> QED BY <1>0, <1>1, <2>1
<1>2. CASE GetDueTasks
  BY <1>2 DEF GetDueTasks, Due
<1>3. CASE GetTaskById \/ PollRaises
  <2>1. /\ pending' = pending /\ spawned' = spawned /\ stale' = stale
        /\ poll'.at = "idle"
    BY <1>3 DEF GetTaskById, PollRaises, Idle
  <2> QED BY <1>0, <2>1 DEF InHand
<1>4. CASE EnqueueTask
  <2>1. poll.at = "read" /\ poll'.at = "idle" /\ stale' = stale
    BY <1>4 DEF EnqueueTask, Idle
  <2>2. \/ pending' = pending /\ spawned' = spawned
        \/ pending = <<>> /\ pending' = <<poll.task>> /\ spawned' = spawned
        \/ spawned = <<>> /\ pending' = pending /\ spawned' = <<poll.task>>
    BY <1>4 DEF EnqueueTask
  <2>4. \/ Len(pending') = Len(pending) /\ Len(spawned') = Len(spawned)
        \/ Len(pending') = Len(pending) + 1 /\ Len(spawned') = Len(spawned)
        \/ Len(pending') = Len(pending) /\ Len(spawned') = Len(spawned) + 1
    <3>1. CASE pending' = pending /\ spawned' = spawned
      BY <3>1
    <3>2. CASE pending = <<>> /\ pending' = <<poll.task>> /\ spawned' = spawned
      BY <3>2
    <3>3. CASE spawned = <<>> /\ pending' = pending /\ spawned' = <<poll.task>>
      BY <3>3
    <3> QED BY <2>2, <3>1, <3>2, <3>3
  <2>5. Len(pending') + Len(spawned') <= Len(pending) + Len(spawned) + 1
    BY <1>0, <2>4
  <2>6. Len(pending') \in Nat /\ Len(spawned') \in Nat
    BY <1>0, <2>4
  <2> QED BY <1>0, <2>1, <2>5, <2>6 DEF InHand
<1>5. CASE DrainTask
  <2>1. poll' = poll /\ stale' = stale /\ pending # <<>> /\ spawned = <<>>
    BY <1>5 DEF DrainTask
  <2>2. spawned' = <<Head(pending)>> /\ pending' = Tail(pending)
    BY <1>5 DEF DrainTask
  <2>3. Len(pending') = Len(pending) - 1 /\ Len(spawned') = 1 /\ Len(spawned) = 0
    BY <2>1, <2>2 DEF TypeOK
  <2> QED BY <1>0, <2>1, <2>3 DEF InHand
<1>6. CASE StartTask
  <2>1. /\ poll' = poll /\ pending' = pending /\ stale' = stale + 1
        /\ spawned # <<>> /\ spawned' = <<>>
    BY <1>6 DEF StartTask
  <2>2. Len(spawned) >= 1 /\ Len(spawned') = 0
    BY <2>1 DEF TypeOK
  <2> DEFINE held == IF poll.at = "read" THEN 1 ELSE 0
  <2>3. InHand = Len(pending) + Len(spawned) + held /\ held \in Nat
    BY DEF InHand
  <2>4. InHand' = Len(pending) + Len(spawned') + held
    BY <2>1 DEF InHand
  <2> HIDE DEF held
  <2> QED BY <1>0, <2>1, <2>2, <2>3, <2>4
<1>7. CASE Crash
  <2>1. poll'.at = "idle" /\ pending' = <<>> /\ spawned' = <<>> /\ stale' = stale
    BY <1>7 DEF Crash, Idle
  <2>2. InHand' = 0
    BY <2>1 DEF InHand
  <2> QED BY <1>0, <2>1, <2>2
<1>8. CASE Tick \/ SetStatus \/ ToggleTenant \/ ExecuteEnds \/ LogTaskRun
           \/ UpdateTaskAfterRun \/ RunTaskRaises \/ Restart
  BY <1>1, <1>8 DEF Tick, SetStatus, ToggleTenant, ExecuteEnds, LogTaskRun,
                    UpdateTaskAfterRun, RunTaskRaises, Restart, Edit
<1>9. ASSUME NEW kind \in Kinds, ScheduleTask(kind) \/ UpdateTask(kind)
      PROVE  stale' + InHand' <= stale + InHand
  BY <1>1, <1>9 DEF ScheduleTask, UpdateTask, Edit
<1> QED BY <1>2, <1>3, <1>4, <1>5, <1>6, <1>7, <1>8, <1>9 DEF Next, Scheduler, RunTask

\* The steps that change the status of the row.
LEMMA StatusStep ==
    ASSUME TypeOK, Next, row'.status # row.status
    PROVE  \/ SetStatus
           \/ row.status = "absent" /\ UNCHANGED <<stale, queue, poll>>
           \/ /\ row.status # "absent" /\ row'.status = "completed"
              /\ UNCHANGED <<stale, queue, poll>>
<1> USE DEF user, run, queue
<1>1. ASSUME NEW kind \in Kinds, UpdateTask(kind)
      PROVE  FALSE
  BY <1>1 DEF UpdateTask, TypeOK, Rows
<1>2. ASSUME NEW kind \in Kinds, ScheduleTask(kind)
      PROVE  row.status = "absent" /\ UNCHANGED <<stale, queue, poll>>
  BY <1>2 DEF ScheduleTask
<1>3. CASE UpdateTaskAfterRun
  BY <1>3 DEF UpdateTaskAfterRun, Exists, TypeOK, Rows
<1>4. CASE Tick \/ ToggleTenant \/ Scheduler \/ PollRaises \/ DrainTask \/ Crash \/ Restart
  BY <1>4 DEF Tick, ToggleTenant, Scheduler, GetDueTasks, GetTaskById,
              EnqueueTask, PollRaises, DrainTask, Crash, Restart, Edit
<1>5. CASE StartTask \/ ExecuteEnds \/ LogTaskRun \/ RunTaskRaises
  BY <1>5 DEF StartTask, ExecuteEnds, LogTaskRun, RunTaskRaises
<1> QED BY <1>1, <1>2, <1>3, <1>4, <1>5 DEF Next, RunTask

LEMMA FewInHandStep ==
    ASSUME TypeOK, QueuedOnce, Untouched, FewInHand, Next
    PROVE  FewInHand'
<1> USE DEF user, run, queue
<1>0. /\ Len(pending) \in Nat /\ Len(spawned) \in Nat /\ stale \in Nat
      /\ InHand \in Nat
  BY InHandType DEF TypeOK
<1>1. CASE row.status # "active" /\ row'.status # "active"
  <2>1. stale' + InHand' <= stale + InHand
    BY <1>1, InHandStep
  <2>2. stale' + InHand' \in Nat
    <3>1. TypeOK'
      BY UserTypes, SchedulerTypes, RunTypes DEF Next
    <3>2. Len(pending') \in Nat /\ Len(spawned') \in Nat /\ stale' \in Nat
      BY <3>1 DEF TypeOK
    <3> QED BY <3>2 DEF InHand
  <2>3. stale + InHand \in Nat /\ stale + InHand <= 3
    BY <1>0, <1>1 DEF FewInHand
  <2>4. stale' + InHand' <= 3
    BY <2>1, <2>2, <2>3
  <2> QED BY <1>1, <2>4 DEF FewInHand
<1>2. CASE row.status = "active" /\ row'.status # "active"
  <2>1. stale' = stale /\ UNCHANGED <<queue, poll>>
    BY <1>2, StatusStep DEF SetStatus, Edit
  <2>2. InHand <= 3
    BY <1>0 DEF InHand, QueuedOnce
  <2>3. InHand' = InHand
    BY <2>1 DEF InHand
  <2> QED BY <1>0, <1>2, <2>1, <2>2, <2>3 DEF FewInHand
<1>3. CASE row.status # "active" /\ row'.status = "active"
  BY <1>3, StatusStep DEF SetStatus, Untouched, FewInHand
<1>4. CASE row.status = "active" /\ row'.status = "active"
  <2>1. stale' = stale \/ stale' = 0
    BY <1>4 DEF Next, Tick, SetStatus, ToggleTenant, Scheduler, GetDueTasks,
           GetTaskById, EnqueueTask, PollRaises, DrainTask, RunTask, StartTask,
           ExecuteEnds, LogTaskRun, UpdateTaskAfterRun, RunTaskRaises, Crash,
           Restart, ScheduleTask, UpdateTask, Edit
  <2> QED BY <1>4, <2>1 DEF FewInHand
<1> QED BY <1>1, <1>2, <1>3, <1>4

-----------------------------------------------------------------------------
(* The theorems.                                                           *)

\* The types, and the three invariants above, are inductive.
THEOREM TaskInvariant == Spec => []TaskInv
<1>1. TaskInv /\ [Next]_vars => TaskInv'
  <2> SUFFICES ASSUME TaskInv, [Next]_vars
               PROVE  TaskInv'
    OBVIOUS
  <2>0. TypeOK /\ QueuedOnce /\ Untouched /\ OnBeat /\ FewInHand
    BY DEF TaskInv
  <2>1. CASE Next
    <3>1. TypeOK'
      BY <2>0, <2>1, UserTypes, SchedulerTypes, RunTypes DEF Next
    <3>2. QueuedOnce' /\ Untouched' /\ OnBeat' /\ FewInHand'
      BY <2>0, <2>1, QueuedOnceStep, UntouchedStep, OnBeatStep, FewInHandStep
    <3> QED BY <3>1, <3>2 DEF TaskInv
  <2>2. CASE UNCHANGED vars
    BY <2>0, <2>2 DEF vars, user, run, queue, TaskInv, TypeOK, QueuedOnce, Untouched,
                      OnBeat, UnderWay, FewInHand, InHand
  <2> QED BY <2>1, <2>2
<1> QED BY TaskInitInv, <1>1, PTL DEF Spec

\* The row, the poll's copy, the queue's copies and the run keep their types,
\* for any period and bounds.
THEOREM TasksTypeCorrect == Spec => []TypeOK
<1>1. TaskInv => TypeOK
  BY DEF TaskInv
<1> QED BY <1>1, TaskInvariant, PTL

\* However long a task waits or runs while the poll finds its row due again,
\* the guard of enqueue_task leaves one run under way and one queued.
THEOREM TasksAreQueuedOnce == Spec => []QueuedOnce
<1>1. TaskInv => QueuedOnce
  BY DEF TaskInv
<1> QED BY <1>1, TaskInvariant, PTL

\* For any period: late runs, failed runs, runs of stale copies, pauses and
\* crashes never move an interval off the beat of its first next_run.
THEOREM IntervalsDoNotDrift == Spec => []NoDrift
<1>1. TaskInv => NoDrift
  BY DEF TaskInv, OnBeat, NoDrift
<1> QED BY <1>1, TaskInvariant, PTL

\* A row that stopped being active is fired at most three more times, however
\* many polls and drains follow.
THEOREM StaleRunsAreBounded == Spec => []StaleRunsAreFew
<1>1. TaskInv => StaleRunsAreFew
  BY InHandType DEF TaskInv, TypeOK, FewInHand, StaleRunsAreFew
<1> QED BY <1>1, TaskInvariant, PTL

\* A run that ends late never brings a paused, completed, cancelled or deleted
\* row back: whenever one becomes active again, a user has acted.
THEOREM RowsAreNotRevived == Spec => NoRevival
<1>1. TypeOK /\ [Next]_vars =>
        [row.status \in {"paused", "completed", "cancelled", "deleted"}
           /\ row'.status = "active" => edits' > edits]_vars
  <2> SUFFICES ASSUME TypeOK, Next,
                      row.status \in {"paused", "completed", "cancelled", "deleted"},
                      row'.status = "active"
               PROVE  edits' > edits
    OBVIOUS
  <2>1. SetStatus
    BY StatusStep
  <2>2. edits' = edits + 1 /\ edits \in Nat
    BY <2>1 DEF SetStatus, Edit, TypeOK
  <2> QED BY <2>2
<1> QED BY <1>1, TasksTypeCorrect, PTL DEF Spec, NoRevival

=============================================================================
