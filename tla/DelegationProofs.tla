-------------------------- MODULE DelegationProofs --------------------------
(***************************************************************************)
(* Proofs about Delegation, for any set of requests and any number of      *)
(* faults.                                                                 *)
(*                                                                         *)
(* The invariant has five parts: the types; what the place of a handler    *)
(* says about its audit row, its verdict and its reply (Audit); that a     *)
(* handler which waits has a closure or a result (Waits); that sticky      *)
(* requests share the child the table has (Sticky); and that the queue     *)
(* runs one closure per key, whose container is the registered one (Keys), *)
(* without which nothing says which container a shutdown request reaches.  *)
(***************************************************************************)
EXTENDS Delegation, TLAPS

Early  == {"unsent", "find", "create", "session", "audit"}
Middle == {"enqueue", "waitStart", "waitResult", "save", "seal"}

Audit ==
    /\ \A r \in Requests :
         /\ pc[r] \in Early => row[r] = "none"
         /\ pc[r] \in Middle => row[r] = "running"
         /\ pc[r] \in {"save", "seal"} => verdict[r] \in Outcomes \cup {"stalled"}
         /\ pc[r] = "respond" => row[r] \in Outcomes /\ row[r] = Status(verdict[r])
         /\ reply[r] # "none" => pc[r] = "done"
         /\ ~up => pc[r] \in {"unsent", "done", "lost"}
    /\ ReplyAgreesWithAudit
    /\ RunningRowIsOwned

Waits ==
    \A r \in Requests :
        /\ pc[r] = "waitResult" => closure[r] \in {"running", "done"}
        /\ pc[r] \in {"waitStart", "waitResult"} /\ closure[r] = "done"
             => future[r] # "pending"

Sticky ==
    \A r \in Requests :
        /\ pc[r] = "session" => child[r] # None
        /\ mode[r] = "sticky" /\ child[r] # None => child[r] = sticky

\* The pending closures of a key are those of its child, each once.
Queued ==
    \A c \in Requests :
        /\ \A i \in 1..Len(waiting[c]) :
             child[waiting[c][i]] = c /\ closure[waiting[c][i]] = "queued"
        /\ \A i, k \in 1..Len(waiting[c]) : waiting[c][i] = waiting[c][k] => i = k

\* One closure of a key runs, and its container is the registered one.
OneRuns ==
    /\ \A r, s \in Requests :
         closure[r] = "running" /\ closure[s] = "running" /\ child[r] = child[s]
         => r = s
    /\ \A r \in Requests :
         closure[r] = "running" /\ Alive(r) => job[child[r]] = r

\* A request has a closure only after it was enqueued, a container only after
\* its closure has started, and results only from its container.
Stages ==
    \A r \in Requests :
        /\ pc[r] \in Early \cup {"enqueue"} => closure[r] = "none"
        /\ pc[r] = "enqueue" => child[r] # None
        /\ pc[r] = "audit" => child[r] # None
        /\ closure[r] # "none" => child[r] # None
        /\ closure[r] \in {"none", "queued"} => container[r] = "none"
        /\ container[r] = "none" => ~reader[r]
        /\ closure[r] # "done" /\ container[r] = "none" => future[r] = "pending"

Keys == Queued /\ OneRuns /\ Stages /\ OutlivingContainerWasAsked

\* The inductive invariant.
DelegationInv == TypeOK /\ Audit /\ Waits /\ Sticky /\ Keys

\* The steps of a handler, and those of its executor and its agent.
HandlerStep(r) == Refuse(r) \/ Accept(r) \/ Handler(r)
WorkerStep(r)  == Executor(r) \/ Agent(r)

-----------------------------------------------------------------------------
(* What a step leaves alone.                                               *)

\* A handler's step leaves the containers, the jobs and the futures alone; only
\* two of them write a child, and one the queue.
LEMMA HandlerFrame ==
    ASSUME NEW r \in Requests, HandlerStep(r)
    PROVE  /\ UNCHANGED <<up, mode, future, seen, job, reader, container, asked, crashes>>
           /\ \/ UNCHANGED <<child, sticky>>
              \/ FindChild(r)
              \/ CreateChild(r)
           /\ UNCHANGED <<closure, waiting>> \/ Enqueue(r)
BY DEF HandlerStep, Handler, Refuse, Accept, FindChild, CreateChild, GetSession,
       InsertDelegation, RefuseLate, Enqueue, OuterGuard, SeeStart, SeeResult,
       SaveSession, Seal, Respond, DbFails, queue, agent, tables

\* A step of an executor or an agent leaves the handlers and the tables alone.
LEMMA WorkerFrame ==
    ASSUME NEW r \in Requests, WorkerStep(r)
    PROVE  UNCHANGED <<up, pc, mode, child, verdict, reply, waiting, row, sticky,
                       dbFailures, crashes>>
BY DEF WorkerStep, Executor, Agent, StartContainer, ExecuteRaises, ExecuteReturns,
       Deadline, OnOutput, Block, Settle, Fail, ShutDown, Die, CloseClosure,
       handler, queue, tables

\* An agent touches neither the futures nor the queue.
LEMMA AgentFrame ==
    ASSUME NEW r \in Requests, Agent(r)
    PROVE  UNCHANGED <<future, closure, job, reader>>
BY DEF Agent, Block, Settle, Fail, ShutDown, Die, handler, queue

\* The queue starting a closure changes the queue only.
LEMMA StartClosureFrame ==
    ASSUME NEW c \in Requests, StartClosure(c)
    PROVE  UNCHANGED <<up, pc, mode, child, verdict, reply, future, job, reader,
                       container, asked, row, sticky, dbFailures, crashes>>
BY DEF StartClosure, handler, agent, tables

-----------------------------------------------------------------------------
(* The audit row, the verdict and the reply.                                *)

\* Audit depends on these variables only.
LEMMA AuditSame ==
    ASSUME DelegationInv, UNCHANGED <<up, pc, verdict, reply, row, dbFailures>>
    PROVE  Audit'
BY DEF DelegationInv, Audit, ReplyAgreesWithAudit, RunningRowIsOwned

\* The handlers keep Audit.
LEMMA AuditHandler ==
    ASSUME DelegationInv, NEW r \in Requests, HandlerStep(r)
    PROVE  Audit'
<1> USE DEF DelegationInv, TypeOK, Audit, ReplyAgreesWithAudit, RunningRowIsOwned, Early,
            Middle, Outcomes, Goto, tables
<1>1. CASE Refuse(r)
  BY <1>1 DEF Refuse
<1>2. CASE Accept(r)
  BY <1>2 DEF Accept
<1>3. CASE FindChild(r)
  BY <1>3 DEF FindChild
<1>4. CASE CreateChild(r)
  BY <1>4 DEF CreateChild
<1>5. CASE GetSession(r)
  BY <1>5 DEF GetSession
<1>6. CASE InsertDelegation(r)
  BY <1>6 DEF InsertDelegation
<1>7. CASE RefuseLate(r)
  BY <1>7 DEF RefuseLate
<1>8. CASE Enqueue(r)
  BY <1>8 DEF Enqueue
<1>9. CASE OuterGuard(r)
  BY <1>9 DEF OuterGuard
<1>10. CASE SeeStart(r)
  BY <1>10 DEF SeeStart
<1>11. CASE SeeResult(r)
  <2>1. Merged(seen[r]) \in Outcomes
    BY DEF Merged
  <2>2. PICK v : /\ v \in Outcomes
                 /\ verdict' = [verdict EXCEPT ![r] = v]
                 /\ \/ pc' = [pc EXCEPT ![r] = "save"]
                    \/ pc' = [pc EXCEPT ![r] = "seal"]
    BY <1>11, <2>1 DEF SeeResult
  <2>3. pc[r] = "waitResult" /\ UNCHANGED <<up, reply, row, dbFailures>>
    BY <1>11 DEF SeeResult
  <2>4. /\ verdict'[r] \in Outcomes /\ pc'[r] \in {"save", "seal"}
        /\ \A s \in Requests : s # r => verdict'[s] = verdict[s] /\ pc'[s] = pc[s]
    BY <2>2
  <2>5. row[r] = "running" /\ reply[r] = "none" /\ up
    BY <1>11, <2>3 DEF SeeResult
  <2> HIDE DEF TypeOK
  <2> QED BY <2>3, <2>4, <2>5
<1>12. CASE SaveSession(r)
  BY <1>12 DEF SaveSession
<1>13. CASE Seal(r)
  BY <1>13 DEF Seal, Status
<1>14. CASE Respond(r)
  BY <1>14 DEF Respond, Status
<1>15. CASE DbFails(r)
  BY <1>15, DelegationAssumptions DEF DbFails, MayFail
<1> QED BY <1>1, <1>2, <1>3, <1>4, <1>5, <1>6, <1>7, <1>8, <1>9, <1>10, <1>11, <1>12,
           <1>13, <1>14, <1>15 DEF HandlerStep, Handler

-----------------------------------------------------------------------------
(* A handler that waits, and the child the sticky requests share.           *)

\* The handlers keep Waits: a wait starts with a closure that has no end yet.
LEMMA WaitsHandler ==
    ASSUME DelegationInv, NEW r \in Requests, HandlerStep(r)
    PROVE  Waits'
<1> USE HandlerFrame DEF DelegationInv, TypeOK, Waits, Stages, Keys, Early, Goto, queue
<1>1. CASE Refuse(r)
  BY <1>1 DEF Refuse
<1>2. CASE Accept(r)
  BY <1>2 DEF Accept
<1>3. CASE FindChild(r)
  BY <1>3 DEF FindChild
<1>4. CASE CreateChild(r)
  BY <1>4 DEF CreateChild
<1>5. CASE GetSession(r)
  BY <1>5 DEF GetSession
<1>6. CASE InsertDelegation(r)
  BY <1>6 DEF InsertDelegation
<1>7. CASE RefuseLate(r)
  BY <1>7 DEF RefuseLate
<1>8. CASE Enqueue(r)
  BY <1>8 DEF Enqueue
<1>9. CASE OuterGuard(r)
  BY <1>9 DEF OuterGuard
<1>10. CASE SeeStart(r)
  BY <1>10 DEF SeeStart
<1>11. CASE SeeResult(r)
  BY <1>11 DEF SeeResult
<1>12. CASE SaveSession(r)
  BY <1>12 DEF SaveSession
<1>13. CASE Seal(r)
  BY <1>13 DEF Seal
<1>14. CASE Respond(r)
  BY <1>14 DEF Respond
<1>15. CASE DbFails(r)
  BY <1>15 DEF DbFails
<1> QED BY <1>1, <1>2, <1>3, <1>4, <1>5, <1>6, <1>7, <1>8, <1>9, <1>10, <1>11, <1>12,
           <1>13, <1>14, <1>15 DEF HandlerStep, Handler

\* The executor keeps Waits: whatever ends a closure resolves its future.
LEMMA WaitsExecutor ==
    ASSUME DelegationInv, NEW r \in Requests, Executor(r)
    PROVE  Waits'
<1> USE DEF DelegationInv, TypeOK, Waits, CloseClosure, SetFuture, handler, queue
<1>1. CASE StartContainer(r)
  BY <1>1 DEF StartContainer
<1>2. CASE ExecuteRaises(r)
  BY <1>2 DEF ExecuteRaises
<1>3. CASE ExecuteReturns(r)
  BY <1>3 DEF ExecuteReturns
<1>4. CASE Deadline(r)
  BY <1>4 DEF Deadline
<1>5. CASE OnOutput(r)
  BY <1>5 DEF OnOutput
<1> QED BY <1>1, <1>2, <1>3, <1>4, <1>5 DEF Executor

\* The handlers keep Sticky: the loser of the INSERT takes the winner's row.
LEMMA StickyHandler ==
    ASSUME DelegationInv, NEW r \in Requests, HandlerStep(r)
    PROVE  Sticky'
<1> USE DelegationAssumptions DEF DelegationInv, TypeOK, Sticky, Goto, tables
<1>1. CASE Refuse(r)
  BY <1>1 DEF Refuse
<1>2. CASE Accept(r)
  BY <1>2 DEF Accept
<1>3. CASE FindChild(r)
  BY <1>3 DEF FindChild
<1>4. CASE CreateChild(r)
  BY <1>4 DEF CreateChild
<1>5. CASE GetSession(r)
  BY <1>5 DEF GetSession
<1>6. CASE InsertDelegation(r)
  BY <1>6 DEF InsertDelegation
<1>7. CASE RefuseLate(r)
  BY <1>7 DEF RefuseLate
<1>8. CASE Enqueue(r)
  BY <1>8 DEF Enqueue
<1>9. CASE OuterGuard(r)
  BY <1>9 DEF OuterGuard
<1>10. CASE SeeStart(r)
  BY <1>10 DEF SeeStart
<1>11. CASE SeeResult(r)
  BY <1>11 DEF SeeResult
<1>12. CASE SaveSession(r)
  BY <1>12 DEF SaveSession
<1>13. CASE Seal(r)
  BY <1>13 DEF Seal
<1>14. CASE Respond(r)
  BY <1>14 DEF Respond
<1>15. CASE DbFails(r)
  BY <1>15 DEF DbFails
<1> QED BY <1>1, <1>2, <1>3, <1>4, <1>5, <1>6, <1>7, <1>8, <1>9, <1>10, <1>11, <1>12,
           <1>13, <1>14, <1>15 DEF HandlerStep, Handler

-----------------------------------------------------------------------------
(* The queue, the containers and the shutdown requests.                     *)

\* The child of a request is written before it has a closure.
LEMMA ChildIsWrittenEarly ==
    ASSUME DelegationInv, NEW r \in Requests, FindChild(r) \/ CreateChild(r)
    PROVE  /\ closure[r] = "none"
           /\ \A s \in Requests : s # r => child'[s] = child[s]
BY DEF DelegationInv, TypeOK, Keys, Stages, Early, FindChild, CreateChild, Goto

\* The handlers keep Queued: a request is appended once, under its child.
LEMMA QueuedHandler ==
    ASSUME DelegationInv, NEW r \in Requests, HandlerStep(r)
    PROVE  Queued'
<1> USE DEF DelegationInv, Keys
<1>1. \A c \in Requests : waiting[c] \in Seq(Requests)
  BY DEF TypeOK
<1>2. CASE UNCHANGED <<child, closure, waiting>>
  BY <1>2 DEF Queued
<1>3. CASE FindChild(r) \/ CreateChild(r)
  <2>1. UNCHANGED <<closure, waiting>>
    BY <1>3 DEF FindChild, CreateChild, queue
  <2>2. \A c \in Requests : \A i \in 1..Len(waiting[c]) :
          waiting[c][i] \in Requests /\ waiting[c][i] # r
    BY <1>1, <1>3, ChildIsWrittenEarly DEF Queued
  <2> QED BY <2>1, <2>2, <1>3, ChildIsWrittenEarly DEF Queued
<1>4. CASE Enqueue(r)
  <2>1. /\ closure' = [closure EXCEPT ![r] = "queued"]
        /\ waiting' = [waiting EXCEPT ![child[r]] = Append(waiting[child[r]], r)]
        /\ child' = child
        /\ child[r] \in Requests
    BY <1>4 DEF Enqueue, Goto, Stages, TypeOK, Early
  <2>0. closure[r] = "none"
    BY <1>4 DEF Enqueue, Goto, Stages, Early
  <2>2. \A c \in Requests : \A i \in 1..Len(waiting[c]) :
          waiting[c][i] \in Requests /\ waiting[c][i] # r
    BY <1>1, <2>0 DEF Queued
  <2>3. \A c \in Requests : c # child[r] => waiting'[c] = waiting[c]
    BY <2>1 DEF TypeOK
  <2>4. /\ Len(waiting'[child[r]]) = Len(waiting[child[r]]) + 1
        /\ Len(waiting[child[r]]) \in Nat
        /\ waiting'[child[r]][Len(waiting[child[r]]) + 1] = r
        /\ \A i \in 1..Len(waiting[child[r]]) :
             waiting'[child[r]][i] = waiting[child[r]][i]
    BY <1>1, <2>1 DEF TypeOK
  <2>5. closure'[r] = "queued" /\ \A s \in Requests : s # r => closure'[s] = closure[s]
    BY <2>1 DEF TypeOK
  <2> QED BY <2>1, <2>2, <2>3, <2>4, <2>5 DEF Queued
<1> QED BY <1>2, <1>3, <1>4, HandlerFrame

\* The executor keeps Queued: what it ends was running.
LEMMA QueuedExecutor ==
    ASSUME DelegationInv, NEW r \in Requests, Executor(r)
    PROVE  Queued'
<1> USE DEF DelegationInv, Keys
<1>1. UNCHANGED <<child, waiting>>
  BY WorkerFrame DEF WorkerStep
<1>2. \/ UNCHANGED closure
      \/ closure[r] = "running" /\ closure' = [closure EXCEPT ![r] = "done"]
  BY DEF Executor, StartContainer, ExecuteRaises, ExecuteReturns, Deadline, OnOutput,
         CloseClosure, queue
<1>3. \A c \in Requests : \A i \in 1..Len(waiting[c]) :
        /\ waiting[c][i] \in Requests
        /\ closure'[waiting[c][i]] = closure[waiting[c][i]]
  <2>1. \A c \in Requests : waiting[c] \in Seq(Requests)
    BY DEF TypeOK
  <2> QED BY <1>2, <2>1 DEF Queued, TypeOK
<1>4. Queued
  OBVIOUS
<1> HIDE DEF DelegationInv, Keys
<1> QED BY <1>1, <1>3, <1>4 DEF Queued

\* The queue keeps Queued: the closure it starts leaves the pending ones.
LEMMA QueuedStartClosure ==
    ASSUME DelegationInv, NEW c \in Requests, StartClosure(c)
    PROVE  Queued'
<1> USE DEF DelegationInv, Keys
<1> DEFINE h == Head(waiting[c])
<1>1. /\ waiting \in [Requests -> Seq(Requests)]
      /\ \A d \in Requests : waiting[d] \in Seq(Requests)
  BY DEF TypeOK
<1>2. /\ waiting[c] # <<>>
      /\ closure' = [closure EXCEPT ![h] = "running"]
      /\ waiting' = [waiting EXCEPT ![c] = Tail(waiting[c])]
      /\ child' = child
  BY DEF StartClosure, handler
<1>3. /\ 1 \in 1..Len(waiting[c]) /\ h = waiting[c][1] /\ h \in Requests
      /\ Len(waiting'[c]) = Len(waiting[c]) - 1
      /\ Len(waiting[c]) \in Nat
      /\ \A i \in 1..Len(waiting'[c]) :
           i + 1 \in 1..Len(waiting[c]) /\ waiting'[c][i] = waiting[c][i + 1]
  BY <1>1, <1>2
<1>4. child[h] = c
  BY <1>3 DEF Queued
<1> HIDE DEF h
<1>5. ASSUME NEW d \in Requests, NEW i \in 1..Len(waiting'[d])
      PROVE  child'[waiting'[d][i]] = d /\ closure'[waiting'[d][i]] = "queued"
  <2>1. CASE d = c
    <3>1. i + 1 \in 1..Len(waiting[c]) /\ waiting'[c][i] = waiting[c][i + 1]
      BY <1>3, <2>1
    <3>2. waiting[c][i + 1] \in Requests
      BY <3>1, <1>1
    <3>3. i + 1 # 1
      BY <1>1, <1>3, <2>1
    <3>4. waiting[c][i + 1] # h
      BY <3>1, <3>3, <1>3 DEF Queued
    <3>5. child[waiting[c][i + 1]] = c /\ closure[waiting[c][i + 1]] = "queued"
      BY <3>1 DEF Queued
    <3> QED BY <3>1, <3>2, <3>4, <3>5, <1>2, <1>3, <2>1 DEF TypeOK
  <2>2. CASE d # c
    <3>1. waiting'[d] = waiting[d]
      BY <1>1, <1>2, <2>2
    <3>2. i \in 1..Len(waiting[d]) /\ waiting[d][i] \in Requests /\ child[waiting[d][i]] = d
      BY <1>1, <3>1 DEF Queued
    <3> QED BY <3>1, <3>2, <1>2, <1>3, <1>4, <2>2 DEF Queued, TypeOK
  <2> QED BY <2>1, <2>2
<1>6. ASSUME NEW d \in Requests, NEW i \in 1..Len(waiting'[d]), NEW k \in 1..Len(waiting'[d]),
             waiting'[d][i] = waiting'[d][k]
      PROVE  i = k
  <2>1. CASE d = c
    <3>1. /\ i + 1 \in 1..Len(waiting[c]) /\ waiting'[c][i] = waiting[c][i + 1]
          /\ k + 1 \in 1..Len(waiting[c]) /\ waiting'[c][k] = waiting[c][k + 1]
      BY <1>3, <2>1
    <3>2. i + 1 = k + 1
      BY <3>1, <1>6, <2>1 DEF Queued
    <3> QED BY <3>2
  <2>2. CASE d # c
    BY <1>1, <1>2, <1>6, <2>2 DEF Queued
  <2> QED BY <2>1, <2>2
<1> QED BY <1>5, <1>6 DEF Queued

\* The handlers keep OneRuns.
LEMMA OneRunsHandler ==
    ASSUME DelegationInv, NEW r \in Requests, HandlerStep(r)
    PROVE  OneRuns'
<1> USE DEF DelegationInv, Keys
<1>1. UNCHANGED <<container, job>>
  BY HandlerFrame
<1>2. CASE UNCHANGED <<child, closure>>
  BY <1>1, <1>2 DEF OneRuns, Alive
<1>3. CASE FindChild(r) \/ CreateChild(r)
  <2>1. UNCHANGED closure
    BY <1>3 DEF FindChild, CreateChild, queue
  <2>2. /\ closure[r] = "none"
        /\ \A s \in Requests : s # r => child'[s] = child[s]
    BY <1>3, ChildIsWrittenEarly
  <2>3. \A s \in Requests : closure[s] = "running" => child'[s] = child[s]
    BY <2>2
  <2> QED BY <1>1, <2>1, <2>3 DEF OneRuns, Alive
<1>4. CASE Enqueue(r)
  BY <1>1, <1>4 DEF Enqueue, OneRuns, Alive, TypeOK
<1> QED BY <1>2, <1>3, <1>4, HandlerFrame

\* The executor keeps OneRuns: a container is registered as it starts.
LEMMA OneRunsExecutor ==
    ASSUME DelegationInv, NEW r \in Requests, Executor(r)
    PROVE  OneRuns'
<1> USE DEF DelegationInv, TypeOK, OneRuns, Keys, Stages, CloseClosure, queue, handler, Alive
<1>1. CASE StartContainer(r)
  BY <1>1 DEF StartContainer
<1>2. CASE ExecuteRaises(r)
  BY <1>2 DEF ExecuteRaises
<1>3. CASE ExecuteReturns(r)
  BY <1>3 DEF ExecuteReturns
<1>4. CASE Deadline(r)
  BY <1>4 DEF Deadline
<1>5. CASE OnOutput(r)
  BY <1>5 DEF OnOutput
<1> QED BY <1>1, <1>2, <1>3, <1>4, <1>5 DEF Executor

\* The agents keep OneRuns.
LEMMA OneRunsAgent ==
    ASSUME DelegationInv, NEW r \in Requests, Agent(r)
    PROVE  OneRuns'
<1> USE DEF DelegationInv, TypeOK, OneRuns, Keys, queue, handler, Alive, Ends
<1>1. CASE Block(r)
  BY <1>1 DEF Block
<1>2. CASE Settle(r)
  BY <1>2 DEF Settle
<1>3. CASE Fail(r)
  BY <1>3 DEF Fail
<1>4. CASE ShutDown(r)
  BY <1>4 DEF ShutDown
<1>5. CASE Die(r)
  BY <1>5 DEF Die
<1> QED BY <1>1, <1>2, <1>3, <1>4, <1>5 DEF Agent

\* The queue keeps OneRuns: it starts a closure when none of the key runs.
LEMMA OneRunsStartClosure ==
    ASSUME DelegationInv, NEW c \in Requests, StartClosure(c)
    PROVE  OneRuns'
<1> USE DEF DelegationInv, Keys
<1> DEFINE h == Head(waiting[c])
<1>1. /\ 1 \in 1..Len(waiting[c]) /\ h = waiting[c][1] /\ h \in Requests
  BY DEF StartClosure, TypeOK
<1>2. child[h] = c /\ closure[h] = "queued" /\ container[h] = "none"
  BY <1>1 DEF Queued, Stages
<1>3. /\ closure' = [closure EXCEPT ![h] = "running"]
      /\ UNCHANGED <<child, job, container>>
      /\ \A s \in Requests : closure[s] = "running" => child[s] # c
  BY DEF StartClosure, Active, handler, agent
<1> HIDE DEF h
<1>4. closure'[h] = "running" /\ \A s \in Requests : s # h => closure'[s] = closure[s]
  BY <1>1, <1>3 DEF TypeOK
<1> QED BY <1>1, <1>2, <1>3, <1>4 DEF OneRuns, Alive

\* The handlers keep Stages.
LEMMA StagesHandler ==
    ASSUME DelegationInv, NEW r \in Requests, HandlerStep(r)
    PROVE  Stages'
<1> USE DelegationAssumptions
    DEF DelegationInv, TypeOK, Stages, Sticky, Keys, Early, Goto, queue, agent
<1>1. CASE Refuse(r)
  BY <1>1 DEF Refuse
<1>2. CASE Accept(r)
  BY <1>2 DEF Accept
<1>3. CASE FindChild(r)
  BY <1>3 DEF FindChild
<1>4. CASE CreateChild(r)
  BY <1>4 DEF CreateChild
<1>5. CASE GetSession(r)
  BY <1>5 DEF GetSession
<1>6. CASE InsertDelegation(r)
  BY <1>6 DEF InsertDelegation
<1>7. CASE RefuseLate(r)
  BY <1>7 DEF RefuseLate
<1>8. CASE Enqueue(r)
  BY <1>8 DEF Enqueue
<1>9. CASE OuterGuard(r)
  BY <1>9 DEF OuterGuard
<1>10. CASE SeeStart(r)
  BY <1>10 DEF SeeStart
<1>11. CASE SeeResult(r)
  BY <1>11 DEF SeeResult
<1>12. CASE SaveSession(r)
  BY <1>12 DEF SaveSession
<1>13. CASE Seal(r)
  BY <1>13 DEF Seal
<1>14. CASE Respond(r)
  BY <1>14 DEF Respond
<1>15. CASE DbFails(r)
  BY <1>15 DEF DbFails
<1> QED BY <1>1, <1>2, <1>3, <1>4, <1>5, <1>6, <1>7, <1>8, <1>9, <1>10, <1>11, <1>12,
           <1>13, <1>14, <1>15 DEF HandlerStep, Handler

\* The executor keeps Stages.
LEMMA StagesExecutor ==
    ASSUME DelegationInv, NEW r \in Requests, Executor(r)
    PROVE  Stages'
<1> USE DEF DelegationInv, TypeOK, Stages, Keys, CloseClosure, SetFuture, queue, handler
<1>1. CASE StartContainer(r)
  BY <1>1 DEF StartContainer
<1>2. CASE ExecuteRaises(r)
  BY <1>2 DEF ExecuteRaises
<1>3. CASE ExecuteReturns(r)
  BY <1>3 DEF ExecuteReturns
<1>4. CASE Deadline(r)
  BY <1>4 DEF Deadline
<1>5. CASE OnOutput(r)
  BY <1>5 DEF OnOutput
<1> QED BY <1>1, <1>2, <1>3, <1>4, <1>5 DEF Executor

\* The agents keep Stages.
LEMMA StagesAgent ==
    ASSUME DelegationInv, NEW r \in Requests, Agent(r)
    PROVE  Stages'
<1> USE DEF DelegationInv, TypeOK, Stages, Keys, queue, handler, Alive, Ends
<1>1. CASE Block(r)
  BY <1>1 DEF Block
<1>2. CASE Settle(r)
  BY <1>2 DEF Settle
<1>3. CASE Fail(r)
  BY <1>3 DEF Fail
<1>4. CASE ShutDown(r)
  BY <1>4 DEF ShutDown
<1>5. CASE Die(r)
  BY <1>5 DEF Die
<1> QED BY <1>1, <1>2, <1>3, <1>4, <1>5 DEF Agent

\* The queue keeps Stages.
LEMMA StagesStartClosure ==
    ASSUME DelegationInv, NEW c \in Requests, StartClosure(c)
    PROVE  Stages'
<1> USE DEF DelegationInv, Keys
<1> DEFINE h == Head(waiting[c])
<1>1. 1 \in 1..Len(waiting[c]) /\ h = waiting[c][1] /\ h \in Requests
  BY DEF StartClosure, TypeOK
<1>2. child[h] = c /\ closure[h] = "queued"
  BY <1>1 DEF Queued
<1>3. closure' = [closure EXCEPT ![h] = "running"]
  BY DEF StartClosure
<1> HIDE DEF h
<1> QED BY <1>1, <1>2, <1>3, StartClosureFrame, DelegationAssumptions DEF Stages, Early, TypeOK

\* A shutdown request: the job it addresses is asked if its container is alive,
\* and nobody else's request is withdrawn.
LEMMA ShutdownAsks ==
    ASSUME DelegationInv, NEW c \in Requests \cup {None}, RequestShutdown(c)
    PROVE  /\ \A s \in Requests : asked[s] /\ Alive(s) => asked'[s]
           /\ \A s \in Requests : closure[s] = "running" /\ child[s] = c /\ Alive(s) => asked'[s]
           /\ asked' \in [Requests -> BOOLEAN]
<1> USE DelegationAssumptions DEF DelegationInv, Keys
<1>1. asked \in [Requests -> BOOLEAN]
  BY DEF TypeOK
<1>2. CASE ~Active(c) \/ job[c] = None
  <2>1. asked' = asked
    BY <1>2 DEF RequestShutdown
  <2>2. \A s \in Requests : closure[s] = "running" /\ child[s] = c /\ Alive(s) => FALSE
    BY <1>2 DEF Active, OneRuns
  <2> QED BY <1>1, <2>1, <2>2
<1>3. CASE Active(c) /\ job[c] # None
  <2>0. c \in Requests
    BY <1>3 DEF Active, Stages
  <2>1. job[c] \in Requests
    BY <1>3, <2>0 DEF TypeOK
  <2>2. asked' = [asked EXCEPT ![job[c]] = Alive(job[c])]
    BY <1>3 DEF RequestShutdown
  <2>3. Alive(job[c]) \in BOOLEAN
    BY DEF Alive
  <2>4. \A s \in Requests : asked'[s] = IF s = job[c] THEN Alive(s) ELSE asked[s]
    BY <1>1, <2>1, <2>2
  <2>5. \A s \in Requests : closure[s] = "running" /\ child[s] = c /\ Alive(s) => s = job[c]
    BY DEF OneRuns
  <2>6. asked' \in [Requests -> BOOLEAN]
    BY <1>1, <2>1, <2>2, <2>3
  <2> QED BY <2>4, <2>5, <2>6
<1> QED BY <1>2, <1>3 DEF RequestShutdown

\* The handlers end no closure.
LEMMA OutlivingHandler ==
    ASSUME DelegationInv, NEW r \in Requests, HandlerStep(r)
    PROVE  OutlivingContainerWasAsked'
<1>1. UNCHANGED <<reader, container, asked>>
  BY HandlerFrame
<1>2. \A s \in Requests : closure'[s] = "done" => closure[s] = "done"
  <2>1. CASE UNCHANGED closure
    BY <2>1
  <2>2. CASE Enqueue(r)
    BY <2>2 DEF Enqueue, DelegationInv, TypeOK
  <2> QED BY <2>1, <2>2, HandlerFrame
<1> QED BY <1>1, <1>2 DEF OutlivingContainerWasAsked, Alive, DelegationInv, Keys

\* The executor asks the container that outlives its closure, or does not read
\* its results.
LEMMA OutlivingExecutor ==
    ASSUME DelegationInv, NEW r \in Requests, Executor(r)
    PROVE  OutlivingContainerWasAsked'
<1> USE DEF DelegationInv, TypeOK, Keys, OutlivingContainerWasAsked, CloseClosure
<1>1. CASE StartContainer(r)
  BY <1>1 DEF StartContainer, Alive
<1>2. CASE ExecuteRaises(r)
  <2>1. ~reader[r] /\ UNCHANGED <<reader, asked>>
    BY <1>2 DEF ExecuteRaises, Stages
  <2>2. \A s \in Requests : s # r => closure'[s] = closure[s] /\ container'[s] = container[s]
    BY <1>2 DEF ExecuteRaises
  <2> QED BY <2>1, <2>2 DEF Alive
<1>3. CASE ExecuteReturns(r)
  BY <1>3 DEF ExecuteReturns, Alive
<1>4. CASE Deadline(r)
  <2>1. closure[r] = "running" /\ reader' = reader /\ child[r] \in Requests \cup {None}
    BY <1>4 DEF Deadline
  <2>2. \A s \in Requests : s # r => closure'[s] = closure[s]
    BY <1>4 DEF Deadline
  <2>3. CASE container' = container /\ RequestShutdown(child[r])
    <3>1. Alive(r) => asked'[r]
      BY <2>1, <2>3, ShutdownAsks
    <3>2. \A s \in Requests : asked[s] /\ Alive(s) => asked'[s]
      BY <2>1, <2>3, ShutdownAsks
    <3> QED BY <2>1, <2>2, <2>3, <3>1, <3>2 DEF Alive
  <2>4. CASE /\ container[r] = "none"
             /\ container' = [container EXCEPT ![r] = "working"]
             /\ asked' \in {asked, [asked EXCEPT ![r] = TRUE]}
    <3>1. ~reader[r]
      BY <2>4 DEF Stages
    <3>2. \A s \in Requests : s # r => container'[s] = container[s] /\ asked'[s] = asked[s]
      BY <2>4
    <3> QED BY <2>1, <2>2, <3>1, <3>2 DEF Alive
  <2> QED BY <1>4, <2>3, <2>4 DEF Deadline
<1>5. CASE OnOutput(r)
  <2>1. RequestShutdown(child[r]) /\ child[r] \in Requests \cup {None}
    BY <1>5 DEF OnOutput
  <2>2. UNCHANGED <<container, closure, reader>>
    BY <1>5 DEF OnOutput, queue
  <2>3. \A s \in Requests : asked[s] /\ Alive(s) => asked'[s]
    BY <2>1, ShutdownAsks
  <2> QED BY <2>2, <2>3 DEF Alive
<1> QED BY <1>1, <1>2, <1>3, <1>4, <1>5 DEF Executor

\* An agent withdraws a request to its container only as the container ends.
LEMMA OutlivingAgent ==
    ASSUME DelegationInv, NEW r \in Requests, Agent(r)
    PROVE  OutlivingContainerWasAsked'
<1> USE WorkerFrame, AgentFrame DEF DelegationInv, TypeOK, Keys, OutlivingContainerWasAsked,
                                    Alive, Ends, WorkerStep
<1>1. CASE Block(r)
  BY <1>1 DEF Block
<1>2. CASE Settle(r)
  BY <1>2 DEF Settle
<1>3. CASE Fail(r)
  BY <1>3 DEF Fail
<1>4. CASE ShutDown(r)
  BY <1>4 DEF ShutDown
<1>5. CASE Die(r)
  BY <1>5 DEF Die
<1> QED BY <1>1, <1>2, <1>3, <1>4, <1>5 DEF Agent

\* The queue ends no closure.
LEMMA OutlivingStartClosure ==
    ASSUME DelegationInv, NEW c \in Requests, StartClosure(c)
    PROVE  OutlivingContainerWasAsked'
<1>1. \A s \in Requests : closure'[s] = "done" => closure[s] = "done"
  BY DEF StartClosure, DelegationInv, TypeOK
<1> QED BY <1>1, StartClosureFrame DEF OutlivingContainerWasAsked, Alive, DelegationInv, Keys

-----------------------------------------------------------------------------
(* Types.                                                                  *)

\* One value of a function is replaced.
LEMMA UpdateType ==
    ASSUME NEW S, NEW T, NEW f \in [S -> T], NEW x, NEW v \in T
    PROVE  [f EXCEPT ![x] = v] \in [S -> T]
OBVIOUS

\* SetFuture keeps the type of the futures.
LEMMA FutureType ==
    ASSUME DelegationInv, NEW r \in Requests, NEW v \in {"done", "timeout", "raised"},
           SetFuture(r, v)
    PROVE  future' \in [Requests -> {"pending", "done", "timeout", "raised"}]
BY DEF DelegationInv, TypeOK, SetFuture

\* CloseClosure keeps the types of the queue.
LEMMA CloseTypes ==
    ASSUME DelegationInv, NEW r \in Requests, CloseClosure(r)
    PROVE  /\ closure' \in [Requests -> {"none", "queued", "running", "done"}]
           /\ waiting' \in [Requests -> Seq(Requests)]
           /\ job' \in [Requests -> Requests \cup {None}]
BY DEF DelegationInv, TypeOK, CloseClosure

\* The handlers keep the types.
LEMMA TypesHandler ==
    ASSUME DelegationInv, NEW r \in Requests, HandlerStep(r)
    PROVE  TypeOK'
<1> USE DelegationAssumptions DEF DelegationInv, TypeOK, Goto, handler, queue, agent, tables
<1>1. CASE Refuse(r)
  BY <1>1 DEF Refuse, Outcomes
<1>2. CASE Accept(r)
  BY <1>2 DEF Accept
<1>3. CASE FindChild(r)
  BY <1>3 DEF FindChild
<1>4. CASE CreateChild(r)
  <2>1. /\ child' \in [Requests -> Requests \cup {None}]
        /\ sticky' \in Requests \cup {None}
    <3>1. PICK c : /\ c \in Requests
                   /\ child' = [child EXCEPT ![r] = c]
                   /\ sticky' \in {sticky, r}
      BY <1>4 DEF CreateChild
    <3> QED BY <3>1
  <2>2. pc' = [pc EXCEPT ![r] = IF mode[r] = "sticky" THEN "session" ELSE "audit"]
    BY <1>4 DEF CreateChild
  <2> QED BY <1>4, <2>1, <2>2 DEF CreateChild
<1>5. CASE GetSession(r)
  <2>1. session[child[r]] \in SUBSET Requests
    BY <1>5 DEF GetSession, Sticky
  <2> QED BY <1>5, <2>1 DEF GetSession
<1>6. CASE InsertDelegation(r)
  BY <1>6 DEF InsertDelegation
<1>7. CASE RefuseLate(r)
  BY <1>7 DEF RefuseLate, Outcomes
<1>8. CASE Enqueue(r)
  <2>1. waiting' \in [Requests -> Seq(Requests)]
    <3>1. child[r] \in Requests
      BY <1>8 DEF Enqueue, Stages, Keys
    <3>2. Append(waiting[child[r]], r) \in Seq(Requests)
      BY <3>1
    <3> QED BY <1>8, <3>2 DEF Enqueue
  <2> QED BY <1>8, <2>1 DEF Enqueue
<1>9. CASE OuterGuard(r)
  BY <1>9 DEF OuterGuard
<1>10. CASE SeeStart(r)
  BY <1>10 DEF SeeStart
<1>11. CASE SeeResult(r)
  <2>1. Merged(seen[r]) \in Outcomes
    BY DEF Merged, Outcomes
  <2>2. PICK v : v \in Outcomes /\ verdict' = [verdict EXCEPT ![r] = v]
    BY <1>11, <2>1 DEF SeeResult, Outcomes
  <2>3. verdict' \in [Requests -> Outcomes \cup {"none", "stalled"}]
    BY <2>2
  <2>4. pc' = [pc EXCEPT ![r] = "save"] \/ pc' = [pc EXCEPT ![r] = "seal"]
    BY <1>11 DEF SeeResult
  <2>5. pc' \in [Requests -> {"unsent", "find", "create", "session", "audit",
                             "enqueue", "waitStart", "waitResult", "save",
                             "seal", "respond", "done", "lost"}]
    <3>1. pc \in [Requests -> {"unsent", "find", "create", "session", "audit",
                              "enqueue", "waitStart", "waitResult", "save",
                              "seal", "respond", "done", "lost"}]
      OBVIOUS
    <3> HIDE DEF TypeOK
    <3> QED BY <2>4, <3>1
  <2>6. UNCHANGED <<up, mode, child, resume, reply, future, seen, closure, waiting, job,
                    reader, container, returned, outbox, asked, row, sticky, session,
                    dbFailures, crashes>>
    BY <1>11 DEF SeeResult
  <2> QED BY <2>3, <2>5, <2>6
<1>12. CASE SaveSession(r)
  <2>1. session' \in [Requests -> SUBSET Requests]
    <3>1. resume[r] \cup {r} \in SUBSET Requests
      OBVIOUS
    <3>2. \/ session' = session
          \/ session' = [session EXCEPT ![child[r]] = resume[r] \cup {r}]
      BY <1>12 DEF SaveSession
    <3>3. session \in [Requests -> SUBSET Requests]
      OBVIOUS
    <3> HIDE DEF TypeOK
    <3> QED BY <3>1, <3>2, <3>3, UpdateType
  <2>2. dbFailures' \in 0..MaxFaults
    BY <1>12 DEF SaveSession, MayFail
  <2> QED BY <1>12, <2>1, <2>2 DEF SaveSession
<1>13. CASE Seal(r)
  <2>1. verdict[r] \in Outcomes \cup {"stalled"}
    BY <1>13 DEF Seal, Audit
  <2> QED BY <1>13, <2>1 DEF Seal, Status, Outcomes
<1>14. CASE Respond(r)
  <2>1. Status(verdict[r]) \in Outcomes
    BY <1>14 DEF Respond, Audit
  <2> QED BY <1>14, <2>1 DEF Respond
<1>15. CASE DbFails(r)
  BY <1>15 DEF DbFails, MayFail, Outcomes
<1> QED BY <1>1, <1>2, <1>3, <1>4, <1>5, <1>6, <1>7, <1>8, <1>9, <1>10, <1>11, <1>12,
           <1>13, <1>14, <1>15 DEF HandlerStep, Handler

\* The executor keeps the types.
LEMMA TypesExecutor ==
    ASSUME DelegationInv, NEW r \in Requests, Executor(r)
    PROVE  TypeOK'
<1> USE DelegationAssumptions DEF DelegationInv, TypeOK, handler, queue, agent, tables
<1>1. CASE StartContainer(r)
  BY <1>1 DEF StartContainer
<1>2. CASE ExecuteRaises(r)
  <2>1. CloseClosure(r) /\ SetFuture(r, "raised")
    BY <1>2 DEF ExecuteRaises
  <2>2. container' = [container EXCEPT ![r] = "none"]
        \/ container' = [container EXCEPT ![r] = "working"]
    BY <1>2 DEF ExecuteRaises
  <2>3. future' \in [Requests -> {"pending", "done", "timeout", "raised"}]
    BY <2>1, FutureType
  <2>4. container' \in [Requests -> {"none", "working", "broken", "settled",
                                     "exited", "crashed", "gone"}]
    <3>1. container \in [Requests -> {"none", "working", "broken", "settled",
                                      "exited", "crashed", "gone"}]
      OBVIOUS
    <3> HIDE DEF TypeOK
    <3> QED BY <2>2, <3>1
  <2> QED BY <1>2, <2>1, <2>3, <2>4, CloseTypes DEF ExecuteRaises
<1>3. CASE ExecuteReturns(r)
  <2>1. CloseClosure(r) /\ SetFuture(r, "done")
    BY <1>3 DEF ExecuteReturns
  <2>2. future' \in [Requests -> {"pending", "done", "timeout", "raised"}]
    BY <2>1, FutureType
  <2>3. outbox' \in [Requests -> Seq({"marker", "error", "safety_blocked"})]
    BY <1>3 DEF ExecuteReturns
  <2> QED BY <1>3, <2>1, <2>2, <2>3, CloseTypes DEF ExecuteReturns
<1>4. CASE Deadline(r)
  <2>1. CloseClosure(r) /\ SetFuture(r, "timeout") /\ child[r] \in Requests \cup {None}
    BY <1>4 DEF Deadline
  <2>2. future' \in [Requests -> {"pending", "done", "timeout", "raised"}]
    BY <2>1, FutureType
  <2>3. asked' \in [Requests -> BOOLEAN]
    <3>1. CASE RequestShutdown(child[r])
      BY <2>1, <3>1, ShutdownAsks
    <3>2. CASE asked' \in {asked, [asked EXCEPT ![r] = TRUE]}
      <4>1. asked \in [Requests -> BOOLEAN]
        OBVIOUS
      <4> HIDE DEF TypeOK
      <4> QED BY <3>2, <4>1
    <3> QED BY <1>4, <3>1, <3>2 DEF Deadline
  <2>4. container' \in [Requests -> {"none", "working", "broken", "settled",
                                     "exited", "crashed", "gone"}]
    <3>1. container' = container \/ container' = [container EXCEPT ![r] = "working"]
      BY <1>4 DEF Deadline
    <3>2. container \in [Requests -> {"none", "working", "broken", "settled",
                                      "exited", "crashed", "gone"}]
      OBVIOUS
    <3> HIDE DEF TypeOK
    <3> QED BY <3>1, <3>2
  <2> QED BY <1>4, <2>1, <2>2, <2>3, <2>4, CloseTypes DEF Deadline
<1>5. CASE OnOutput(r)
  <2>1. SetFuture(r, "done") /\ RequestShutdown(child[r])
        /\ child[r] \in Requests \cup {None}
    BY <1>5 DEF OnOutput
  <2>2. future' \in [Requests -> {"pending", "done", "timeout", "raised"}]
    BY <2>1, FutureType
  <2>3. asked' \in [Requests -> BOOLEAN]
    BY <2>1, ShutdownAsks
  <2>4. /\ Tail(outbox[r]) \in Seq({"marker", "error", "safety_blocked"})
        /\ Head(outbox[r]) \in {"marker", "error", "safety_blocked"}
    BY <1>5 DEF OnOutput
  <2>5. outbox' \in [Requests -> Seq({"marker", "error", "safety_blocked"})]
    BY <1>5, <2>4 DEF OnOutput
  <2>6. seen' \in [Requests -> [marker : BOOLEAN, terminal : {"none", "error", "safety_blocked"}]]
    <3> DEFINE Events == [marker : BOOLEAN, terminal : {"none", "error", "safety_blocked"}]
    <3>1. seen[r] \in Events /\ seen \in [Requests -> Events]
      OBVIOUS
    <3>2. [seen[r] EXCEPT !.marker = TRUE] \in Events
      BY <3>1
    <3>3. Head(outbox[r]) # "marker" => [seen[r] EXCEPT !.terminal = Head(outbox[r])] \in Events
      BY <3>1, <2>4
    <3>4. PICK e : e \in Events /\ seen' = [seen EXCEPT ![r] = e]
      BY <1>5, <3>2, <3>3 DEF OnOutput
    <3> HIDE DEF TypeOK
    <3> QED BY <3>1, <3>4
  <2> QED BY <1>5, <2>2, <2>3, <2>5, <2>6 DEF OnOutput
<1> QED BY <1>1, <1>2, <1>3, <1>4, <1>5 DEF Executor

\* The agents keep the types.
LEMMA TypesAgent ==
    ASSUME DelegationInv, NEW r \in Requests, Agent(r)
    PROVE  TypeOK'
<1> USE DEF DelegationInv, TypeOK, Publish, Ends, handler, queue, tables
<1>1. CASE Block(r)
  BY <1>1 DEF Block
<1>2. CASE Settle(r)
  BY <1>2 DEF Settle
<1>3. CASE Fail(r)
  BY <1>3 DEF Fail
<1>4. CASE ShutDown(r)
  <2>1. outbox' = outbox \/ outbox' = [outbox EXCEPT ![r] = Append(@, "error")]
    BY <1>4 DEF ShutDown
  <2>2. outbox' \in [Requests -> Seq({"marker", "error", "safety_blocked"})]
    <3>1. /\ outbox \in [Requests -> Seq({"marker", "error", "safety_blocked"})]
          /\ Append(outbox[r], "error") \in Seq({"marker", "error", "safety_blocked"})
      OBVIOUS
    <3> HIDE DEF TypeOK
    <3> QED BY <2>1, <3>1, UpdateType
  <2> QED BY <1>4, <2>2 DEF ShutDown
<1>5. CASE Die(r)
  BY <1>5 DEF Die
<1> QED BY <1>1, <1>2, <1>3, <1>4, <1>5 DEF Agent

\* The queue keeps the types.
LEMMA TypesStartClosure ==
    ASSUME DelegationInv, NEW c \in Requests, StartClosure(c)
    PROVE  TypeOK'
<1>1. Head(waiting[c]) \in Requests /\ Tail(waiting[c]) \in Seq(Requests)
  BY DEF StartClosure, DelegationInv, TypeOK
<1> QED BY <1>1 DEF StartClosure, DelegationInv, TypeOK, handler, agent, tables

-----------------------------------------------------------------------------
(* The orchestrator stops and starts again.                                *)

\* A crash keeps the invariant: it leaves no handler and no closure at work.
LEMMA CrashStep == DelegationInv /\ Crash => DelegationInv'
<1> SUFFICES ASSUME DelegationInv, Crash PROVE DelegationInv'
  OBVIOUS
<1> USE DEF DelegationInv
<1>1. TypeOK'
  <2>1. crashes' \in 0..MaxFaults
    BY DelegationAssumptions DEF Crash, MayFail, TypeOK
  <2>2. seen' \in [Requests -> [marker : BOOLEAN, terminal : {"none", "error", "safety_blocked"}]]
    <3>1. Nothing \in [marker : BOOLEAN, terminal : {"none", "error", "safety_blocked"}]
      BY DEF Nothing
    <3>2. \A r \in Requests : seen'[r] = Nothing \/ seen'[r] = seen[r]
      BY DEF Crash
    <3> QED BY <3>1, <3>2 DEF Crash, TypeOK
  <2>3. /\ up' \in BOOLEAN
        /\ pc' \in [Requests -> {"unsent", "find", "create", "session", "audit",
                                 "enqueue", "waitStart", "waitResult", "save",
                                 "seal", "respond", "done", "lost"}]
        /\ resume' \in [Requests -> SUBSET Requests]
        /\ verdict' \in [Requests -> Outcomes \cup {"none", "stalled"}]
    BY DEF Crash, TypeOK
  <2>4. /\ future' \in [Requests -> {"pending", "done", "timeout", "raised"}]
        /\ returned' \in [Requests -> {"none", "success", "error"}]
        /\ closure' \in [Requests -> {"none", "queued", "running", "done"}]
        /\ waiting' \in [Requests -> Seq(Requests)]
    BY DEF Crash, TypeOK
  <2>5. /\ job' \in [Requests -> Requests \cup {None}]
        /\ reader' \in [Requests -> BOOLEAN]
    BY DEF Crash, TypeOK
  <2>6. UNCHANGED <<mode, child, reply, container, outbox, asked, row, sticky, session, dbFailures>>
    BY DEF Crash, tables
  <2> QED BY <2>1, <2>2, <2>3, <2>4, <2>5, <2>6 DEF TypeOK
<1>2. \A r \in Requests : /\ pc'[r] \in {"unsent", "done", "lost"}
                          /\ pc'[r] = "unsent" <=> pc[r] = "unsent"
                          /\ pc'[r] = "done" <=> pc[r] = "done"
  BY DEF Crash, TypeOK
<1>3. Audit'
  BY <1>2 DEF Audit, ReplyAgreesWithAudit, RunningRowIsOwned, Early, Middle, Crash, tables
<1>4. Waits'
  BY <1>2 DEF Waits
<1>5. Sticky'
  BY <1>2 DEF Sticky, Crash, tables
<1>6. \A r \in Requests : /\ closure'[r] \in {"none", "done"}
                          /\ closure'[r] = "none" <=> closure[r] = "none"
                          /\ ~reader'[r]
                          /\ waiting'[r] = <<>>
  BY DEF Crash, TypeOK
<1>7. Queued'
  BY <1>6 DEF Queued
<1>8. OneRuns'
  BY <1>6 DEF OneRuns
<1>9. Stages'
  BY <1>2, <1>6 DEF Stages, Keys, Early, Crash
<1>10. OutlivingContainerWasAsked'
  BY <1>6 DEF OutlivingContainerWasAsked
<1> QED BY <1>1, <1>3, <1>4, <1>5, <1>7, <1>8, <1>9, <1>10 DEF Keys

\* A restart keeps it: the sweep ends the rows that no handler owns.
LEMMA RestartStep == DelegationInv /\ Restart => DelegationInv'
<1> SUFFICES ASSUME DelegationInv, Restart PROVE DelegationInv'
  OBVIOUS
<1> USE DEF DelegationInv
<1>0. UNCHANGED <<pc, mode, child, resume, verdict, reply, future, seen, closure, waiting, job,
                  reader, returned, outbox, sticky, session, dbFailures, crashes>>
  BY DEF Restart, handler, queue
<1>1. \A r \in Requests : pc[r] \in {"unsent", "done", "lost"}
  BY DEF Restart, Audit
<1>2. \A r \in Requests : Alive(r)' => FALSE
  BY DEF Restart, StopOrphans, Alive
<1>3. \A r \in Requests : container'[r] = "none" => container[r] = "none"
  BY DEF Restart, StopOrphans, Alive
<1>4. \A r \in Requests : container[r] = "none" => container'[r] = "none"
  BY DEF Restart, StopOrphans, Alive
<1>5. TypeOK'
  <2>1. up' = TRUE /\ row' \in [Requests -> Outcomes \cup {"none", "running"}]
    BY DEF Restart, TypeOK, Outcomes
  <2>2. container' \in [Requests -> {"none", "working", "broken", "settled",
                                     "exited", "crashed", "gone"}]
    BY DEF Restart, StopOrphans, TypeOK
  <2>3. asked' \in [Requests -> BOOLEAN]
    BY DEF Restart, StopOrphans
  <2> QED BY <1>0, <2>1, <2>2, <2>3 DEF TypeOK
<1>6. Audit'
  <2>1. \A r \in Requests : row'[r] # "running" /\ (row[r] # "running" => row'[r] = row[r])
                            /\ (row[r] = "running" => row'[r] = "error")
    BY DEF Restart
  <2>2. \A r \in Requests : reply[r] \in Outcomes \ {"error"} => row[r] \in Outcomes
    BY DEF Audit, ReplyAgreesWithAudit
  <2>3. \A r \in Requests : reply[r] # "none" /\ row[r] = "running" => reply[r] = "error"
    BY <2>2 DEF TypeOK, Outcomes
  <2>4. ReplyAgreesWithAudit'
    BY <1>0, <2>1, <2>3 DEF Audit, ReplyAgreesWithAudit, Outcomes
  <2>5. RunningRowIsOwned'
    BY <2>1 DEF RunningRowIsOwned
  <2>6. up'
    BY DEF Restart
  <2> QED BY <1>0, <1>1, <2>1, <2>4, <2>5, <2>6 DEF Audit, Early, Middle
<1>7. Waits' /\ Sticky' /\ Queued'
  BY <1>0 DEF Waits, Sticky, Queued, Keys
<1>8. OneRuns'
  BY <1>0, <1>2 DEF OneRuns, Keys
<1>9. Stages'
  BY <1>0, <1>3, <1>4 DEF Stages, Keys
<1>10. OutlivingContainerWasAsked'
  BY <1>2 DEF OutlivingContainerWasAsked
<1> QED BY <1>5, <1>6, <1>7, <1>8, <1>9, <1>10 DEF Keys

-----------------------------------------------------------------------------

\* The initial states satisfy the invariant.
LEMMA InitInv == Init => DelegationInv
<1> SUFFICES ASSUME Init PROVE DelegationInv
  OBVIOUS
<1> USE DelegationAssumptions
<1>1. TypeOK
  <2>1. Nothing \in [marker : BOOLEAN, terminal : {"none", "error", "safety_blocked"}]
    BY DEF Nothing
  <2>2. seen \in [Requests -> [marker : BOOLEAN, terminal : {"none", "error", "safety_blocked"}]]
    BY <2>1 DEF Init
  <2>3. /\ reader \in [Requests -> BOOLEAN] /\ asked \in [Requests -> BOOLEAN]
        /\ up \in BOOLEAN
    BY DEF Init
  <2>4. mode \in [Requests -> Modes]
    BY DEF Init
  <2> QED BY <2>2, <2>3, <2>4 DEF Init, TypeOK, Outcomes
<1>2. Audit /\ Waits /\ Sticky
  BY DEF Init, Audit, ReplyAgreesWithAudit, RunningRowIsOwned, Waits, Sticky, Early,
     Middle, Outcomes
<1>3. Queued /\ OneRuns /\ Stages /\ OutlivingContainerWasAsked
  BY DEF Init, Queued, OneRuns, Stages, OutlivingContainerWasAsked, Early
<1> QED BY <1>1, <1>2, <1>3 DEF DelegationInv, Keys

\* A step of a handler keeps the invariant.
LEMMA HandlerKeeps ==
    ASSUME DelegationInv, NEW r \in Requests, HandlerStep(r)
    PROVE  DelegationInv'
BY TypesHandler, AuditHandler, WaitsHandler, StickyHandler, QueuedHandler, OneRunsHandler,
   StagesHandler, OutlivingHandler DEF DelegationInv, Keys

\* A step of an executor or an agent keeps it.
LEMMA WorkerKeeps ==
    ASSUME DelegationInv, NEW r \in Requests, WorkerStep(r)
    PROVE  DelegationInv'
<1>1. Audit'
  BY WorkerFrame, AuditSame
<1>2. Sticky'
  BY WorkerFrame DEF Sticky, DelegationInv
<1>3. CASE Executor(r)
  BY <1>1, <1>2, <1>3, TypesExecutor, WaitsExecutor, QueuedExecutor, OneRunsExecutor,
     StagesExecutor, OutlivingExecutor DEF DelegationInv, Keys
<1>4. CASE Agent(r)
  <2>1. Waits' /\ Queued'
    BY <1>4, WorkerFrame, AgentFrame DEF Waits, Queued, DelegationInv, Keys
  <2> QED BY <1>1, <1>2, <1>4, <2>1, TypesAgent, OneRunsAgent, StagesAgent, OutlivingAgent
          DEF DelegationInv, Keys
<1> QED BY <1>3, <1>4 DEF WorkerStep

\* The queue starting a closure keeps it.
LEMMA StartClosureKeeps ==
    ASSUME DelegationInv, NEW c \in Requests, StartClosure(c)
    PROVE  DelegationInv'
<1>1. Audit' /\ Sticky'
  BY StartClosureFrame, AuditSame DEF Sticky, DelegationInv
<1>2. Waits'
  <2>1. \A s \in Requests : closure'[s] \in {"running", closure[s]}
    BY DEF StartClosure, DelegationInv, TypeOK
  <2> QED BY <2>1, StartClosureFrame DEF Waits, DelegationInv
<1> QED BY <1>1, <1>2, TypesStartClosure, QueuedStartClosure, OneRunsStartClosure,
           StagesStartClosure, OutlivingStartClosure DEF DelegationInv, Keys

\* The invariant holds in every state.
THEOREM DelegationInvariant == Spec => []DelegationInv
<1>1. DelegationInv /\ [Next]_vars => DelegationInv'
  <2> SUFFICES ASSUME DelegationInv, [Next]_vars PROVE DelegationInv'
    OBVIOUS
  <2>1. CASE \E r \in Requests : HandlerStep(r)
    BY <2>1, HandlerKeeps
  <2>2. CASE \E r \in Requests : WorkerStep(r)
    BY <2>2, WorkerKeeps
  <2>3. CASE \E c \in Requests : StartClosure(c)
    BY <2>3, StartClosureKeeps
  <2>4. CASE Crash
    BY <2>4, CrashStep
  <2>5. CASE Restart
    BY <2>5, RestartStep
  <2>6. CASE UNCHANGED vars
    BY <2>6 DEF vars, handler, queue, agent, tables, DelegationInv, TypeOK, Audit,
       ReplyAgreesWithAudit, RunningRowIsOwned, Waits, Sticky, Keys, Queued, OneRuns, Stages,
       OutlivingContainerWasAsked, Alive
  <2> QED BY <2>1, <2>2, <2>3, <2>4, <2>5, <2>6 DEF Next, HandlerStep, WorkerStep
<1> QED BY InitInv, <1>1, PTL DEF Spec

\* The types of the handler, the queue, the containers and the tables.
THEOREM DelegationTypeCorrect == Spec => []TypeOK
BY DelegationInvariant, PTL DEF DelegationInv

\* The response that msg.respond sends and the row that
\* update_delegation_terminal writes never contradict each other, with any
\* number of requests, failed statements and crashes.
THEOREM ReplyIsAudited == Spec => []ReplyAgreesWithAudit
<1>1. DelegationInv => ReplyAgreesWithAudit
  BY DEF DelegationInv, Audit
<1> QED BY <1>1, DelegationInvariant, PTL

\* A row is 'running' only while a handler will end it, or until the sweep of
\* cleanup_running_delegations, unless an UPDATE failed.
THEOREM RunningRowHasOwner == Spec => []RunningRowIsOwned
<1>1. DelegationInv => RunningRowIsOwned
  BY DEF DelegationInv, Audit
<1> QED BY <1>1, DelegationInvariant, PTL

\* A handler that waits on result_future without a timeout has a future that is
\* resolved, or a closure whose deadline will resolve it.
THEOREM HandlerIsWoken == Spec => []WaitingHandlerIsWoken
<1>1. DelegationInv => WaitingHandlerIsWoken
  BY DEF DelegationInv, Waits, WaitingHandlerIsWoken
<1> QED BY <1>1, DelegationInvariant, PTL

\* find_child_conversation and create_child_conversation give every sticky
\* request the same child, however they interleave.
THEOREM StickyChildIsOne == Spec => []OneStickyChild
<1>1. DelegationInv => OneStickyChild
  BY DEF DelegationInv, Sticky, OneStickyChild
<1> QED BY <1>1, DelegationInvariant, PTL

\* A container that outlives its closure and whose results are read was asked to
\* shut down: the job that request_shutdown finds under the key is its own.
THEOREM ContainerWasAsked == Spec => []OutlivingContainerWasAsked
<1>1. DelegationInv => OutlivingContainerWasAsked
  BY DEF DelegationInv, Keys
<1> QED BY <1>1, DelegationInvariant, PTL

=============================================================================
