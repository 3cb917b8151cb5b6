------------------------------ MODULE Delegation ------------------------------
(***************************************************************************)
(* A frontdesk coworker delegates to a specialist                          *)
(* (rolemesh/orchestration/delegation.py, rolemesh/db/delegation.py): the  *)
(* handler of a delegate request, the closure it gives to the GroupQueue,  *)
(* the executor that runs the specialist's container, the delegations and  *)
(* sessions tables, and a restart of the orchestrator.                     *)
(*                                                                         *)
(* The requests are the delegations of one conversation to one specialist: *)
(* the sticky ones share a child conversation, an isolated one has a child *)
(* of its own.  A child conversation is named by the request that created  *)
(* it.  A session is the set of the requests it remembers.                 *)
(*                                                                         *)
(* An action is one run of a coroutine between two awaits, one statement   *)
(* of the database, or one step of an agent container.  The GroupQueue is  *)
(* seen from outside: the closures of one key run one at a time, in order, *)
(* and the next one may have to wait for any time (GroupQueue.tla says     *)
(* why).                                                                   *)
(*                                                                         *)
(* An operator introduced by "Fault:" is not part of the model: it is a    *)
(* variant of the operator after it, with a mistake the properties must    *)
(* notice.                                                                 *)
(***************************************************************************)
EXTENDS Naturals, Sequences, FiniteSets

CONSTANTS
    Requests,       \* delegate requests
    Modes,          \* values of contextMode: "sticky", "isolated"
    MaxIsolated,    \* bound: isolated requests
    MaxFaults,      \* bound: failed statements and crashes, together
    None

ASSUME DelegationAssumptions ==
    /\ Modes \subseteq {"sticky", "isolated"}
    /\ MaxIsolated \in Nat
    /\ MaxFaults \in Nat
    /\ None \notin Requests

VARIABLES
    up,         \* the orchestrator runs
    pc,         \* where the handler of each request is
    mode,       \* contextMode of each request
    child,      \* child_conv of each request
    resume,     \* session_id the handler read for its AgentInput
    verdict,    \* what the handler is about to record and reply
    reply,      \* the response sent to the frontdesk
    future,     \* result_future
    seen,       \* final_marker and terminal_event
    closure,    \* the closure: "none", "queued", "running", "done"
    waiting,    \* the pending tasks of each queue key
    job,        \* the job the GroupQueue has registered for each key
    reader,     \* the executor reads the container's results
    container,  \* the container and the agent in it
    returned,   \* the status of the AgentOutput that execute returned
    outbox,     \* results published and not read yet
    asked,      \* a shutdown request was addressed to the container's job
    row,        \* delegations.status
    sticky,     \* the sticky child conversation, if it exists
    session,    \* the sessions table, by child conversation
    dbFailures, crashes

handler == <<pc, mode, child, resume, verdict, reply, future, seen>>
queue   == <<closure, waiting, job>>
agent   == <<container, returned, outbox, asked>>
tables  == <<row, sticky, session>>
vars    == <<up, handler, queue, reader, agent, tables,
             dbFailures, crashes>>

Nothing  == [marker |-> FALSE, terminal |-> "none"]
Outcomes == {"success", "error", "timeout", "safety_blocked"}

\* The audit status and the response status of a verdict: a closure that did
\* not start is audited as an error.
Status(v) == IF v = "stalled" THEN "error" ELSE v

Alive(r) == container[r] \in {"working", "broken", "settled"}

Active(c) == \E r \in Requests : closure[r] = "running" /\ child[r] = c

MayFail == dbFailures + crashes < MaxFaults

Init ==
    /\ up = TRUE
    /\ pc = [r \in Requests |-> "unsent"]
    /\ mode \in {m \in [Requests -> Modes] :
                  Cardinality({r \in Requests : m[r] = "isolated"}) <= MaxIsolated}
    /\ child = [r \in Requests |-> None]
    /\ resume = [r \in Requests |-> {}]
    /\ verdict = [r \in Requests |-> "none"]
    /\ reply = [r \in Requests |-> "none"]
    /\ future = [r \in Requests |-> "pending"]
    /\ seen = [r \in Requests |-> Nothing]
    /\ closure = [r \in Requests |-> "none"]
    /\ waiting = [c \in Requests |-> <<>>]
    /\ job = [c \in Requests |-> None]
    /\ reader = [r \in Requests |-> FALSE]
    /\ container = [r \in Requests |-> "none"]
    /\ returned = [r \in Requests |-> "none"]
    /\ outbox = [r \in Requests |-> <<>>]
    /\ asked = [r \in Requests |-> FALSE]
    /\ row = [r \in Requests |-> "none"]
    /\ sticky = None
    /\ session = [c \in Requests |-> {}]
    /\ dbFailures = 0
    /\ crashes = 0

-----------------------------------------------------------------------------
(* The handler, up to the queue.                                           *)

Goto(r, here, there) ==
    /\ up
    /\ pc[r] = here
    /\ pc' = [pc EXCEPT ![r] = there]

\* The validation of a request and the resolution of its target: a refused
\* request is answered at once and leaves no audit row.
Refuse(r) ==
    /\ Goto(r, "unsent", "done")
    /\ reply' = [reply EXCEPT ![r] = "error"]
    /\ UNCHANGED <<up, mode, child, resume, verdict, future, seen, queue,
                   reader, agent, tables, dbFailures, crashes>>

Accept(r) ==
    /\ Goto(r, "unsent", IF mode[r] = "sticky" THEN "find" ELSE "create")
    /\ UNCHANGED <<up, mode, child, resume, verdict, reply, future, seen,
                   queue, reader, agent, tables, dbFailures, crashes>>

\* find_child_conversation.
FindChild(r) ==
    /\ Goto(r, "find", IF sticky = None THEN "create" ELSE "session")
    /\ child' = [child EXCEPT ![r] = sticky]
    /\ UNCHANGED <<up, mode, resume, verdict, reply, future, seen, queue,
                   reader, agent, tables, dbFailures, crashes>>

\* Fault: the INSERT does not meet the unique key of a sticky child.
CreateChildAnew(r) ==
    /\ Goto(r, "create", IF mode[r] = "sticky" THEN "session" ELSE "audit")
    /\ child' = [child EXCEPT ![r] = r]
    /\ sticky' = IF mode[r] = "sticky" THEN r ELSE sticky
    /\ UNCHANGED <<up, mode, resume, verdict, reply, future, seen, queue,
                   reader, agent, row, session, dbFailures, crashes>>

\* create_child_conversation: the loser of a race takes the winner's row.
CreateChild(r) ==
    /\ Goto(r, "create", IF mode[r] = "sticky" THEN "session" ELSE "audit")
    /\ \/ /\ mode[r] = "sticky" /\ sticky # None
          /\ child' = [child EXCEPT ![r] = sticky]
          /\ sticky' = sticky
       \/ /\ mode[r] = "sticky" /\ sticky = None
          /\ child' = [child EXCEPT ![r] = r]
          /\ sticky' = r
       \/ /\ mode[r] = "isolated"
          /\ child' = [child EXCEPT ![r] = r]
          /\ sticky' = sticky
    /\ UNCHANGED <<up, mode, resume, verdict, reply, future, seen, queue,
                   reader, agent, row, session, dbFailures, crashes>>

\* get_session, for a sticky request.
GetSession(r) ==
    /\ Goto(r, "session", "audit")
    /\ resume' = [resume EXCEPT ![r] = session[child[r]]]
    /\ UNCHANGED <<up, mode, child, verdict, reply, future, seen, queue,
                   reader, agent, tables, dbFailures, crashes>>

\* insert_delegation.
InsertDelegation(r) ==
    /\ Goto(r, "audit", "enqueue")
    /\ row' = [row EXCEPT ![r] = "running"]
    /\ UNCHANGED <<up, mode, child, resume, verdict, reply, future, seen,
                   queue, reader, agent, sticky, session, dbFailures,
                   crashes>>

\* The queue is shutting down, or the backend has no executor.  (A queue that
\* shuts down while the closure waits is one that never starts it.)
RefuseLate(r) ==
    /\ Goto(r, "enqueue", "seal")
    /\ verdict' = [verdict EXCEPT ![r] = "error"]
    /\ UNCHANGED <<up, mode, child, resume, reply, future, seen, queue,
                   reader, agent, tables, dbFailures, crashes>>

\* enqueue_task.
Enqueue(r) ==
    /\ Goto(r, "enqueue", "waitStart")
    /\ closure' = [closure EXCEPT ![r] = "queued"]
    /\ waiting' = [waiting EXCEPT ![child[r]] = Append(@, r)]
    /\ UNCHANGED <<up, mode, child, resume, verdict, reply, future, seen,
                   job, reader, agent, tables, dbFailures, crashes>>

-----------------------------------------------------------------------------
(* The closure and the executor.                                           *)

\* request_shutdown(queue_key): it addresses the job that is registered for
\* the key now.
RequestShutdown(c) ==
    LET j == job[c] IN
    \/ /\ ~Active(c) \/ j = None
       /\ UNCHANGED asked
    \/ /\ Active(c) /\ j # None
       /\ asked' = [asked EXCEPT ![j] = Alive(j)]

SetFuture(r, value) ==
    future' = IF future[r] = "pending" THEN [future EXCEPT ![r] = value]
                                       ELSE future

\* The end of GroupQueue._run_task.
CloseClosure(r) ==
    /\ closure' = [closure EXCEPT ![r] = "done"]
    /\ job' = [job EXCEPT ![child[r]] = None]
    /\ waiting' = waiting

\* The queue has room for the next closure of the key.
StartClosure(c) ==
    /\ up
    /\ waiting[c] # <<>>
    /\ ~Active(c)
    /\ closure' = [closure EXCEPT ![Head(waiting[c])] = "running"]
    /\ waiting' = [waiting EXCEPT ![c] = Tail(@)]
    /\ UNCHANGED <<up, handler, job, reader, agent, tables,
                   dbFailures, crashes>>

\* execute: the container starts, on_process registers its job, and its
\* results are read from now on.
StartContainer(r) ==
    /\ up
    /\ closure[r] = "running" /\ container[r] = "none"
    /\ container' = [container EXCEPT ![r] = "working"]
    /\ job' = [job EXCEPT ![child[r]] = r]
    /\ reader' = [reader EXCEPT ![r] = TRUE]
    /\ UNCHANGED <<up, handler, closure, waiting, returned, outbox,
                   asked, tables, dbFailures, crashes>>

\* execute raises: the container could not be started, or it was and its
\* results could not be subscribed.  Nothing stops a container that did start.
ExecuteRaises(r) ==
    /\ up
    /\ closure[r] = "running" /\ container[r] = "none"
    /\ \E started \in {"none", "working"} :
         container' = [container EXCEPT ![r] = started]
    /\ CloseClosure(r)
    /\ SetFuture(r, "raised")
    /\ UNCHANGED <<up, pc, mode, child, resume, verdict, reply, seen,
                   reader, returned, outbox, asked, tables, dbFailures,
                   crashes>>

\* execute returns once the container has exited: the reader is cancelled
\* with the results it has not read, and the closure does not look at the
\* status that execute returns.
ExecuteReturns(r) ==
    /\ up
    /\ closure[r] = "running" /\ container[r] \in {"exited", "crashed"}
    /\ returned' = [returned EXCEPT ![r] =
                      IF container[r] = "exited" THEN "success" ELSE "error"]
    /\ container' = [container EXCEPT ![r] = "gone"]
    /\ reader' = [reader EXCEPT ![r] = FALSE]
    /\ outbox' = [outbox EXCEPT ![r] = <<>>]
    /\ CloseClosure(r)
    /\ SetFuture(r, "done")
    /\ UNCHANGED <<up, pc, mode, child, resume, verdict, reply, seen,
                   asked, tables, dbFailures, crashes>>

\* Fault: the deadline does not ask the container to exit.
DeadlineForgetsContainer(r) ==
    /\ up
    /\ closure[r] = "running"
    /\ UNCHANGED asked
    /\ CloseClosure(r)
    /\ SetFuture(r, "timeout")
    /\ UNCHANGED <<up, pc, mode, child, resume, verdict, reply, seen,
                   reader, container, returned, outbox, tables, dbFailures, crashes>>

\* Fault: the deadline does not resolve the handler's future.
DeadlineForgetsHandler(r) ==
    /\ up
    /\ closure[r] = "running"
    /\ RequestShutdown(child[r])
    /\ CloseClosure(r)
    /\ future' = future
    /\ UNCHANGED <<up, pc, mode, child, resume, verdict, reply, seen,
                   reader, container, returned, outbox, tables, dbFailures, crashes>>

\* The business deadline: execute is cancelled where it waits, and the tasks
\* it created, the reader among them, live on.  A container that execute was
\* starting may start all the same: without a job, so that there is nobody to
\* ask, or, if execute was about to subscribe the results, with one.
Deadline(r) ==
    /\ up
    /\ closure[r] = "running"
    /\ \/ /\ container' = container
          /\ RequestShutdown(child[r])
       \/ /\ container[r] = "none"
          /\ container' = [container EXCEPT ![r] = "working"]
          /\ asked' \in {asked, [asked EXCEPT ![r] = TRUE]}
    /\ CloseClosure(r)
    /\ SetFuture(r, "timeout")
    /\ UNCHANGED <<up, pc, mode, child, resume, verdict, reply, seen,
                   reader, returned, outbox, tables, dbFailures, crashes>>

\* _on_output, for the next result of the container.
OnOutput(r) ==
    /\ up
    /\ reader[r] /\ outbox[r] # <<>>
    /\ outbox' = [outbox EXCEPT ![r] = Tail(@)]
    /\ \/ /\ Head(outbox[r]) = "marker"
          /\ seen' = [seen EXCEPT ![r].marker = TRUE]
       \/ /\ Head(outbox[r]) # "marker"
          /\ seen' = [seen EXCEPT ![r].terminal = Head(outbox[r])]
    /\ RequestShutdown(child[r])
    /\ SetFuture(r, "done")
    /\ UNCHANGED <<up, pc, mode, child, resume, verdict, reply, queue,
                   reader, container, returned, tables, dbFailures, crashes>>

-----------------------------------------------------------------------------
(* The agent container: agent_runner/main.py.  A container whose results   *)
(* nobody reads only has an end.  A shutdown request that is lost is one   *)
(* the agent never acts on.                                                *)

Publish(r, event) == outbox' = [outbox EXCEPT ![r] = Append(@, event)]

Ends(r, how) ==
    /\ container' = [container EXCEPT ![r] =
                       IF closure[r] = "running" /\ reader[r] THEN how ELSE "gone"]
    /\ asked' = [asked EXCEPT ![r] = FALSE]

\* A safety hook blocks the turn.
Block(r) ==
    /\ container[r] = "working" /\ reader[r]
    /\ container' = [container EXCEPT ![r] = "broken"]
    /\ Publish(r, "safety_blocked")
    /\ UNCHANGED <<up, handler, queue, reader, returned, asked,
                   tables, dbFailures, crashes>>

\* The batch-final marker.
Settle(r) ==
    /\ container[r] \in {"working", "broken"} /\ reader[r]
    /\ container' = [container EXCEPT ![r] = "settled"]
    /\ Publish(r, "marker")
    /\ UNCHANGED <<up, handler, queue, reader, returned, asked,
                   tables, dbFailures, crashes>>

\* The agent raises: an error result, then exit code 1.
Fail(r) ==
    /\ container[r] = "working" /\ reader[r]
    /\ Ends(r, "crashed")
    /\ Publish(r, "error")
    /\ UNCHANGED <<up, handler, queue, reader, returned, tables,
                   dbFailures, crashes>>

\* A shutdown request ends the loop, without a marker for a turn in progress,
\* which is aborted and may publish a "stopped" result; the handler takes that
\* for an error.
ShutDown(r) ==
    /\ Alive(r) /\ asked[r]
    /\ Ends(r, "exited")
    /\ \/ outbox' = outbox
       \/ container[r] # "settled" /\ reader[r] /\ Publish(r, "error")
    /\ UNCHANGED <<up, handler, queue, reader, returned, tables, dbFailures,
                   crashes>>

\* The container is killed: out of memory, the inactivity watchdog, an
\* operator.
Die(r) ==
    /\ Alive(r)
    /\ Ends(r, "crashed")
    /\ UNCHANGED <<up, handler, queue, reader, returned, outbox, tables,
                   dbFailures, crashes>>

-----------------------------------------------------------------------------
(* The handler, after the queue.                                           *)

\* OUTER_GUARD_S has passed.  The closure stays where it is.
OuterGuard(r) ==
    /\ Goto(r, "waitStart", "seal")
    /\ verdict' = [verdict EXCEPT ![r] = "stalled"]
    /\ UNCHANGED <<up, mode, child, resume, reply, future, seen, queue,
                   reader, agent, tables, dbFailures, crashes>>

SeeStart(r) ==
    /\ closure[r] \in {"running", "done"}
    /\ Goto(r, "waitStart", "waitResult")
    /\ UNCHANGED <<up, mode, child, resume, verdict, reply, future, seen,
                   queue, reader, agent, tables, dbFailures, crashes>>

\* _merge_pi_two_event_pattern and _map_output_to_response: the audit status.
Merged(events) ==
    CASE events.terminal = "safety_blocked"     -> "safety_blocked"
      [] events.terminal = "error"              -> "error"
      [] events.terminal = "none"               -> "success"

\* The result future is resolved.  The session of a sticky success is saved if
\* the marker, or a text event before it, carried its id.
SeeResult(r) ==
    /\ future[r] # "pending"
    /\ LET v == CASE future[r] = "timeout" -> "timeout"
                  [] future[r] = "raised"  -> "error"
                  [] future[r] = "done"    -> Merged(seen[r])
           saves == v = "success" /\ mode[r] = "sticky"
       IN /\ verdict' = [verdict EXCEPT ![r] = v]
          /\ \/ saves /\ Goto(r, "waitResult", "save")
             \/ ~(saves /\ seen[r].marker) /\ Goto(r, "waitResult", "seal")
    /\ UNCHANGED <<up, mode, child, resume, reply, future, seen, queue,
                   reader, agent, tables, dbFailures, crashes>>

\* set_session: a failure is logged, and the reply is still a success.
SaveSession(r) ==
    /\ Goto(r, "save", "seal")
    /\ \/ /\ session' = [session EXCEPT ![child[r]] = resume[r] \cup {r}]
          /\ dbFailures' = dbFailures
       \/ /\ MayFail
          /\ dbFailures' = dbFailures + 1
          /\ session' = session
    /\ UNCHANGED <<up, mode, child, resume, verdict, reply, future, seen,
                   queue, reader, agent, row, sticky, crashes>>

\* Fault: a closure that did not start is recorded under a status that the
\* table does not have.
SealStalled(r) ==
    /\ Goto(r, "seal", "respond")
    /\ row' = IF row[r] = "running" THEN [row EXCEPT ![r] = verdict[r]] ELSE row
    /\ UNCHANGED <<up, mode, child, resume, verdict, reply, future, seen,
                   queue, reader, agent, sticky, session, dbFailures, crashes>>

\* update_delegation_terminal.
Seal(r) ==
    /\ Goto(r, "seal", "respond")
    /\ row' = IF row[r] = "running"
              THEN [row EXCEPT ![r] = Status(verdict[r])] ELSE row
    /\ UNCHANGED <<up, mode, child, resume, verdict, reply, future, seen,
                   queue, reader, agent, sticky, session, dbFailures,
                   crashes>>

\* Fault: the response is made from the events seen when it is sent.
RespondFromEvents(r) ==
    /\ Goto(r, "respond", "done")
    /\ verdict' = [verdict EXCEPT ![r] = "none"]
    /\ resume' = [resume EXCEPT ![r] = {}]
    /\ reply' = [reply EXCEPT ![r] = Merged(seen[r])]
    /\ UNCHANGED <<up, mode, child, future, seen, queue,
                   reader, agent, tables, dbFailures, crashes>>

\* msg.respond.
Respond(r) ==
    /\ Goto(r, "respond", "done")
    /\ verdict' = [verdict EXCEPT ![r] = "none"]
    /\ resume' = [resume EXCEPT ![r] = {}]
    /\ reply' = [reply EXCEPT ![r] = Status(verdict[r])]
    /\ UNCHANGED <<up, mode, child, future, seen, queue,
                   reader, agent, tables, dbFailures, crashes>>

\* A statement of the database raises: the handler answers with an error and
\* leaves the audit row as it is.
DbFails(r) ==
    /\ MayFail
    /\ pc[r] \in {"find", "create", "session", "audit", "seal"}
    /\ Goto(r, pc[r], "done")
    /\ reply' = [reply EXCEPT ![r] = "error"]
    /\ verdict' = [verdict EXCEPT ![r] = "none"]
    /\ resume' = [resume EXCEPT ![r] = {}]
    /\ dbFailures' = dbFailures + 1
    /\ UNCHANGED <<up, mode, child, future, seen, queue,
                   reader, agent, tables, crashes>>

-----------------------------------------------------------------------------
(* The orchestrator stops, crashes and starts again.                       *)

\* The process ends; the containers do not.
Crash ==
    LET lost == {r \in Requests : pc[r] \notin {"unsent", "done"}} IN
    /\ up /\ MayFail
    /\ up' = FALSE
    /\ crashes' = crashes + 1
    /\ pc' = [r \in Requests |-> IF r \in lost THEN "lost" ELSE pc[r]]
    /\ resume' = [r \in Requests |-> {}]
    /\ verdict' = [r \in Requests |-> "none"]
    /\ future' = [r \in Requests |-> IF r \in lost THEN "pending" ELSE future[r]]
    /\ seen' = [r \in Requests |-> IF r \in lost THEN Nothing ELSE seen[r]]
    /\ returned' = [r \in Requests |-> IF r \in lost THEN "none" ELSE returned[r]]
    /\ closure' = [r \in Requests |-> IF closure[r] = "none" THEN "none"
                                      ELSE "done"]
    /\ waiting' = [c \in Requests |-> <<>>]
    /\ job' = [c \in Requests |-> None]
    /\ reader' = [r \in Requests |-> FALSE]
    /\ UNCHANGED <<mode, child, reply, container, outbox, asked, tables,
                   dbFailures>>

\* cleanup_orphans: every container of a former process is stopped.
StopOrphans ==
    /\ container' = [r \in Requests |-> IF Alive(r) THEN "gone" ELSE container[r]]
    /\ asked' = [r \in Requests |-> FALSE]

\* Fault: no sweep at startup.
RestartSweepsNothing ==
    /\ ~up
    /\ up' = TRUE
    /\ StopOrphans
    /\ UNCHANGED <<handler, queue, reader, returned, outbox, tables, dbFailures,
                   crashes>>

\* cleanup_running_delegations, before the responder is subscribed.
Restart ==
    /\ ~up
    /\ up' = TRUE
    /\ row' = [r \in Requests |-> IF row[r] = "running" THEN "error" ELSE row[r]]
    /\ StopOrphans
    /\ UNCHANGED <<handler, queue, reader, returned, outbox, sticky, session,
                   dbFailures, crashes>>

-----------------------------------------------------------------------------

Handler(r) ==
    \/ FindChild(r) \/ CreateChild(r) \/ GetSession(r) \/ InsertDelegation(r)
    \/ RefuseLate(r) \/ Enqueue(r) \/ OuterGuard(r) \/ SeeStart(r)
    \/ SeeResult(r) \/ SaveSession(r) \/ Seal(r) \/ Respond(r) \/ DbFails(r)

Executor(r) ==
    \/ StartContainer(r) \/ ExecuteRaises(r) \/ ExecuteReturns(r)
    \/ Deadline(r) \/ OnOutput(r)

Agent(r) ==
    Block(r) \/ Settle(r) \/ Fail(r) \/ ShutDown(r) \/ Die(r)

Next ==
    \/ \E r \in Requests :
         Refuse(r) \/ Accept(r) \/ Handler(r) \/ Executor(r) \/ Agent(r)
    \/ \E c \in Requests : StartClosure(c)
    \/ Crash \/ Restart

Spec == Init /\ [][Next]_vars

-----------------------------------------------------------------------------

\* The types of the variables.
TypeOK ==
    /\ up \in BOOLEAN
    /\ pc \in [Requests -> {"unsent", "find", "create", "session", "audit",
                            "enqueue", "waitStart", "waitResult", "save",
                            "seal", "respond", "done", "lost"}]
    /\ mode \in [Requests -> Modes]
    /\ child \in [Requests -> Requests \cup {None}]
    /\ resume \in [Requests -> SUBSET Requests]
    /\ verdict \in [Requests -> Outcomes \cup {"none", "stalled"}]
    /\ reply \in [Requests -> Outcomes \cup {"none"}]
    /\ future \in [Requests -> {"pending", "done", "timeout", "raised"}]
    /\ seen \in [Requests -> [marker : BOOLEAN,
                   terminal : {"none", "error", "safety_blocked"}]]
    /\ closure \in [Requests -> {"none", "queued", "running", "done"}]
    /\ waiting \in [Requests -> Seq(Requests)]
    /\ job \in [Requests -> Requests \cup {None}]
    /\ reader \in [Requests -> BOOLEAN]
    /\ container \in [Requests -> {"none", "working", "broken", "settled",
                                   "exited", "crashed", "gone"}]
    /\ returned \in [Requests -> {"none", "success", "error"}]
    /\ outbox \in [Requests -> Seq({"marker", "error", "safety_blocked"})]
    /\ asked \in [Requests -> BOOLEAN]
    /\ row \in [Requests -> Outcomes \cup {"none", "running"}]
    /\ sticky \in Requests \cup {None}
    /\ session \in [Requests -> SUBSET Requests]
    /\ dbFailures \in 0..MaxFaults
    /\ crashes \in 0..MaxFaults

\* The response and the audit row never contradict each other, whatever fails
\* and in whatever order the events, the deadline and the guard come: a
\* response that was sent says what the row says once the row has ended, and a
\* success is not reported before it is recorded (handle_delegate_request:
\* "Errors are routed through _process_one, which writes an audit row before
\* returning the wire payload").
ReplyAgreesWithAudit ==
    \A r \in Requests :
        /\ reply[r] # "none" /\ row[r] \in Outcomes => reply[r] = row[r]
        /\ reply[r] \in Outcomes \ {"error"} => row[r] \in Outcomes

\* Sticky requests converge on one child conversation, however their lookups
\* and their INSERTs interleave (contract (g), create_child_conversation).
OneStickyChild ==
    \A r, s \in Requests :
        /\ mode[r] = "sticky" /\ child[r] # None
        /\ mode[s] = "sticky" /\ child[s] # None
        => child[r] = child[s]

\* Contract (b): a container does not exit by itself, so one that outlives its
\* closure and whose results execute has begun to read was asked to shut down,
\* whichever of the deadline, a result and the next closure of its key came
\* first.  Nothing can ask a container whose results were not read: execute
\* raised while it started, the deadline cut its start before its job was
\* registered, or the process died.
OutlivingContainerWasAsked ==
    \A r \in Requests :
        closure[r] = "done" /\ Alive(r) /\ reader[r] => asked[r]

\* "Always replies (success or error), never raises out": the wait on the result
\* has no timeout of its own, so while a handler waits its future is resolved,
\* or its closure still runs and the business deadline will resolve it.  This
\* holds even if the queue stalls, the container hangs or its executor raises.
WaitingHandlerIsWoken ==
    \A r \in Requests :
        pc[r] = "waitResult" => future[r] # "pending" \/ closure[r] = "running"

\* No audit row is left 'running' for ever: while the orchestrator is up, it
\* has a handler that will end it; a crash leaves it to the sweep of the next
\* start.  Only a failed UPDATE leaves a row behind.
RunningRowIsOwned ==
    \A r \in Requests :
        row[r] = "running" /\ up /\ dbFailures = 0
        => pc[r] \in {"enqueue", "waitStart", "waitResult", "save", "seal"}

=============================================================================
