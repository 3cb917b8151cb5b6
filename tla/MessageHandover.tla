-------------------------- MODULE MessageHandover --------------------------
(***************************************************************************)
(* How the messages of a web conversation come to an agent: the WebSocket  *)
(* handler that stores them (webui/v1/ws_stream.py), and the orchestrator's*)
(* listener, message loop and batch processing (rolemesh/main.py), with    *)
(* the cursors that say which messages an agent has been given.            *)
(*                                                                         *)
(* Messages are numbered by their timestamps.  An action is one run of a   *)
(* coroutine between two awaits, one statement of the database, or one     *)
(* step of the agent container.  The GroupQueue is seen from outside: it   *)
(* runs the processing of the conversation once at a time, and may let it  *)
(* wait for any time (GroupQueue.tla says why).  What the agent answers,   *)
(* and what becomes of the runs, is in RunLifecycle.tla.                   *)
(*                                                                         *)
(* An operator introduced by "Fault:" is not part of the model: it is a    *)
(* variant of the operator after it, with a mistake the properties must    *)
(* notice.                                                                 *)
(***************************************************************************)
EXTENDS Naturals

CONSTANTS
    MaxMessages,  \* bound: messages sent
    MaxRetries,   \* _MAX_RETRIES
    MaxFaults     \* bound: failed statements, lost events and crashes

ASSUME HandoverAssumptions ==
    MaxMessages \in Nat /\ MaxRetries \in Nat /\ MaxFaults \in Nat

Messages == 1..MaxMessages

VARIABLES
    web,         \* the request.run handler of each message
    sent,        \* the last message created
    stored,      \* the messages table
    inbound,     \* web.inbound events under way
    up,          \* the orchestrator runs
    known,       \* the conversation is in _state
    cursor,      \* conv_state.last_agent_timestamp
    dbCursor,    \* conversations.last_agent_invocation
    polled,      \* the tenant's message cursor
    check,       \* a message check is pending in the GroupQueue
    retries,     \* retry_count of the GroupQueue
    retryTimer,  \* a retry is scheduled
    dropped,     \* the retries are exhausted
    loop,        \* the message loop
    runner,      \* _process_conversation_messages
    container,   \* the registered job: "none", "running", or "gone" if its
                 \* agent has ended and the run of the GroupQueue has not
    piped,       \* input on its way to the running agent
    handed,      \* messages given to an agent and not taken back for a retry
    late,        \* history: messages stored after a later one
    missed,      \* history: messages the tenant's cursor passed unseen
    stray,       \* history: messages the cursor passed for a pipe no agent read
    dbFailures, crashes, lostEvents, escapes

browser == <<web, sent, stored, inbound>>
cursors == <<cursor, dbCursor, polled>>
queue   == <<check, retries, retryTimer, dropped>>
agent   == <<container, piped, handed, stray>>
faults  == <<dbFailures, crashes, lostEvents, escapes>>
vars    == <<browser, up, known, cursors, queue, loop, runner, agent, late,
             missed, faults>>

Maximum(S) == CHOOSE m \in S : \A n \in S : n <= m
Mishaps    == dbFailures + crashes + lostEvents + escapes
MayFail    == Mishaps < MaxFaults
IdleLoop   == [at |-> "idle", batch |-> {}]
IdleRunner == [at |-> "idle", batch |-> {}, prev |-> 0]

\* The conversation was there when the orchestrator started, or is new.
Init ==
    /\ web = [m \in Messages |-> "none"] /\ sent = 0 /\ stored = {} /\ inbound = {}
    /\ up = TRUE
    /\ known \in BOOLEAN
    /\ cursor = 0 /\ dbCursor = 0 /\ polled = 0
    /\ check = FALSE /\ retries = 0 /\ retryTimer = FALSE /\ dropped = FALSE
    /\ loop = IdleLoop /\ runner = IdleRunner
    /\ container = "none" /\ piped = {} /\ handed = {} /\ stray = {}
    /\ late = {} /\ missed = {}
    /\ dbFailures = 0 /\ crashes = 0 /\ lostEvents = 0 /\ escapes = 0

\* get_messages_since.
MessagesSince(t) == {m \in stored : m > t}

-----------------------------------------------------------------------------
(* The web process.  The lock of a handler is that of its socket, so the   *)
(* handlers of two tabs of one conversation interleave.  A statement that  *)
(* fails ends its handler, like one that is never run.                     *)

\* create_run, in a transaction of its own; then the timestamp is taken.
CreateRun ==
    /\ sent < MaxMessages
    /\ sent' = sent + 1
    /\ web' = [web EXCEPT ![sent + 1] = "created"]
    /\ UNCHANGED <<stored, inbound, up, known, cursors, queue, loop, runner, agent,
                   late, missed, faults>>

\* store_message, in another one: the rows of two handlers may come in either
\* order, and after the tenant's cursor has moved past them.
StoreMessage(m) ==
    /\ web[m] = "created"
    /\ web' = [web EXCEPT ![m] = "stored"]
    /\ stored' = stored \cup {m}
    /\ late' = late \cup {n \in {m} : MessagesSince(n) # {}}
    /\ missed' = missed \cup {n \in {m} : n <= polled}
    /\ UNCHANGED <<sent, inbound, up, known, cursors, queue, loop, runner, agent,
                   faults>>

\* The publish on web.inbound; a failure is logged.
PublishInbound(m) ==
    /\ web[m] = "stored"
    /\ web' = [web EXCEPT ![m] = "done"]
    /\ \/ /\ inbound' = inbound \cup {m}
          /\ lostEvents' = lostEvents
       \/ /\ MayFail
          /\ inbound' = inbound
          /\ lostEvents' = lostEvents + 1
    /\ UNCHANGED <<sent, stored, up, known, cursors, queue, loop, runner, agent,
                   late, missed, dbFailures, crashes, escapes>>

\* The web process dies, and its handlers with it.
WebCrash ==
    /\ MayFail
    /\ \E m \in Messages : web[m] \in {"created", "stored"}
    /\ web' = [m \in Messages |-> IF web[m] = "none" THEN "none" ELSE "done"]
    /\ crashes' = crashes + 1
    /\ UNCHANGED <<sent, stored, inbound, up, known, cursors, queue, loop, runner,
                   agent, late, missed, dbFailures, lostEvents, escapes>>

-----------------------------------------------------------------------------
(* The listener and the message loop.                                      *)

\* _handle_incoming: a conversation that is not in _state is loaded, the message
\* is stored again, under the same id, and a check is enqueued.  The listener
\* acknowledges the event also if a statement fails, before or after the load,
\* and if the binding, the coworker (the event that would have loaded it was
\* missed) or the conversation is not found.
HandleIncoming(m) ==
    /\ up /\ m \in inbound
    /\ inbound' = inbound \ {m}
    /\ \/ /\ known' = TRUE /\ check' = TRUE
          /\ UNCHANGED <<dbFailures, lostEvents>>
       \/ /\ MayFail
          /\ known' \in {known, TRUE}
          /\ dbFailures' = dbFailures + 1
          /\ UNCHANGED <<check, lostEvents>>
       \/ /\ MayFail /\ ~known
          /\ lostEvents' = lostEvents + 1
          /\ UNCHANGED <<known, check, dbFailures>>
    /\ UNCHANGED <<web, sent, stored, up, cursors, retries, retryTimer, dropped,
                   loop, runner, agent, late, missed, crashes, escapes>>

\* get_new_messages_for_conversations for the conversations of _state; the
\* tenant's cursor moves past what it returned, of this conversation and of
\* others, before any of it is handled.
Poll ==
    /\ up /\ loop.at = "idle" /\ known
    /\ MessagesSince(polled) # {}
    /\ polled' \in Maximum(MessagesSince(polled))..sent
    /\ loop' = [loop EXCEPT !.at = "polled"]
    /\ UNCHANGED <<browser, up, known, cursor, dbCursor, queue, runner, agent, late,
                   missed, faults>>

\* A round that returns messages of other conversations only.
PollOthers ==
    /\ up /\ loop.at = "idle"
    /\ known => MessagesSince(polled) = {}
    /\ polled' \in (polled + 1)..sent
    /\ missed' = missed \cup {m \in MessagesSince(polled) : m <= polled'}
    /\ UNCHANGED <<browser, up, known, cursor, dbCursor, queue, loop, runner, agent,
                   late, faults>>

\* What the conversation has pending is read, since its own cursor.  If this
\* or the UPDATE of the tenant's cursor raises, the round ends (or the process,
\* as in Crash, if the exception is not one the loop catches).
LoopReads ==
    /\ up /\ loop.at = "polled"
    /\ \/ /\ loop' = IF MessagesSince(cursor) = {} THEN IdleLoop
                     ELSE [at |-> "read", batch |-> MessagesSince(cursor)]
          /\ dbFailures' = dbFailures
       \/ /\ MayFail
          /\ loop' = IdleLoop
          /\ dbFailures' = dbFailures + 1
    /\ UNCHANGED <<browser, up, known, cursors, queue, runner, agent, late, missed,
                   crashes, lostEvents, escapes>>

\* A job is registered from the start of its container to the end of the run
\* of the GroupQueue, longer than its agent lives.
Registered == container # "none"

\* send_message takes the batch, and the cursor is moved.  The input is
\* published in the background: an agent that runs can still read it, one that
\* has ended cannot, and the publish may fail.
LoopPipes ==
    /\ up /\ loop.at = "read" /\ Registered
    /\ cursor' = Maximum(loop.batch)
    /\ loop' = [loop EXCEPT !.at = "piped"]
    /\ \/ /\ container = "running"
          /\ piped' = piped \cup loop.batch
          /\ UNCHANGED <<stray, lostEvents>>
       \/ /\ container = "gone"
          /\ stray' = stray \cup {m \in stored \ handed : m <= cursor'}
          /\ UNCHANGED <<piped, lostEvents>>
       \/ /\ MayFail
          /\ stray' = stray \cup {m \in stored \ handed : m <= cursor'}
          /\ lostEvents' = lostEvents + 1
          /\ piped' = piped
    /\ UNCHANGED <<browser, up, known, dbCursor, polled, queue, runner, container,
                   handed, late, missed, dbFailures, crashes, escapes>>

\* The agent reads its input.
AgentReads ==
    /\ container = "running" /\ piped # {}
    /\ handed' = handed \cup piped
    /\ piped' = {}
    /\ UNCHANGED <<browser, up, known, cursors, queue, loop, runner, container,
                   stray, late, missed, faults>>

\* Fault: the loop waits until there is a container to refuse the message.
LoopWaits ==
    /\ up /\ loop.at = "read" /\ Registered
    /\ check' = TRUE
    /\ loop' = IdleLoop
    /\ UNCHANGED <<browser, up, known, cursors, retries, retryTimer, dropped,
                   runner, agent, late, missed, faults>>

\* send_message refuses: there is no container, or no room for a turn.
LoopEnqueues ==
    /\ up /\ loop.at = "read"
    /\ check' = TRUE
    /\ loop' = IdleLoop
    /\ UNCHANGED <<browser, up, known, cursors, retries, retryTimer, dropped,
                   runner, agent, late, missed, faults>>

\* update_conversation_last_invocation after a pipe.
LoopCommits ==
    /\ up /\ loop.at = "piped"
    /\ loop' = IdleLoop
    /\ \/ /\ dbCursor' = Maximum(loop.batch)
          /\ dbFailures' = dbFailures
       \/ /\ MayFail
          /\ dbCursor' = dbCursor
          /\ dbFailures' = dbFailures + 1
    /\ UNCHANGED <<browser, up, known, cursor, polled, queue, runner, agent, late,
                   missed, crashes, lostEvents, escapes>>

-----------------------------------------------------------------------------
(* The runner: _process_conversation_messages.                             *)

\* The end of a run of the GroupQueue that succeeded.
Succeeds ==
    /\ runner' = IdleRunner
    /\ retries' = 0
    /\ UNCHANGED <<retryTimer, dropped>>

\* _schedule_retry.
Retries ==
    /\ runner' = IdleRunner
    /\ \/ /\ retries < MaxRetries
          /\ retries' = retries + 1
          /\ retryTimer' = TRUE
          /\ dropped' = dropped
       \/ /\ retries >= MaxRetries
          /\ retries' = 0
          /\ retryTimer' = retryTimer
          /\ dropped' = TRUE

RetryFires ==
    /\ up /\ retryTimer
    /\ retryTimer' = FALSE
    /\ check' = TRUE
    /\ UNCHANGED <<browser, up, known, cursors, retries, dropped, loop, runner,
                   agent, late, missed, faults>>

\* The queue runs the processing: what is pending is read since the cursor.
RunnerReads ==
    /\ up /\ check /\ runner.at = "idle"
    /\ check' = FALSE
    /\ \/ /\ MessagesSince(cursor) = {}
          /\ Succeeds
          /\ dbFailures' = dbFailures
       \/ /\ MessagesSince(cursor) # {}
          /\ runner' = [at |-> "read", batch |-> MessagesSince(cursor), prev |-> 0]
          /\ dropped' = FALSE
          /\ UNCHANGED <<retries, retryTimer, dbFailures>>
       \/ /\ MayFail
          /\ Retries
          /\ dbFailures' = dbFailures + 1
    /\ UNCHANGED <<browser, up, known, cursors, loop, agent, late, missed, crashes,
                   lostEvents, escapes>>

\* The cursor is moved before the agent is started.
RunnerAdvances ==
    /\ up /\ runner.at = "read"
    /\ runner' = [runner EXCEPT !.at = "advance", !.prev = cursor]
    /\ cursor' = Maximum(runner.batch)
    /\ UNCHANGED <<browser, up, known, dbCursor, polled, queue, loop, agent, late,
                   missed, faults>>

\* update_conversation_last_invocation.  If it raises, the processing ends and
\* is retried; the cursor in memory stays where it is.
RunnerCommits ==
    /\ up /\ runner.at = "advance"
    /\ \/ /\ dbCursor' = Maximum(runner.batch)
          /\ runner' = [runner EXCEPT !.at = "spawn"]
          /\ UNCHANGED <<retries, retryTimer, dropped, dbFailures>>
       \/ /\ MayFail
          /\ dbCursor' = dbCursor
          /\ Retries
          /\ dbFailures' = dbFailures + 1
    /\ UNCHANGED <<browser, up, known, cursor, polled, check, loop, agent, late,
                   missed, crashes, lostEvents, escapes>>

\* An exception _run_agent does not catch (a DockerError, an ApiException, an
\* error of the database): the run of the GroupQueue ends in a retry, and the
\* cursor stays past the batch.
Escapes ==
    /\ MayFail
    /\ Retries
    /\ container' = "none"
    /\ escapes' = escapes + 1

\* _run_agent: the container starts with the batch as its prompt, or the
\* executor raises, before its job is registered or after.
RunnerSpawns ==
    /\ up /\ runner.at = "spawn"
    /\ \/ /\ runner' = [runner EXCEPT !.at = "run"]
          /\ container' = "running"
          /\ handed' = handed \cup runner.batch
          /\ UNCHANGED <<retries, retryTimer, dropped, escapes>>
       \/ /\ runner' = [runner EXCEPT !.at = "failed"]
          /\ container' \in {"none", "gone"}
          /\ UNCHANGED <<handed, retries, retryTimer, dropped, escapes>>
       \/ /\ Escapes
          /\ handed' = handed
    /\ UNCHANGED <<browser, up, known, cursors, check, loop, piped, stray, late,
                   missed, dbFailures, crashes, lostEvents>>

\* The container exits, of itself or because it is stopped; nobody reads the
\* input still on its way.
ContainerEnds ==
    /\ container = "running"
    /\ container' = "gone"
    /\ piped' = {}
    /\ stray' = stray \cup piped
    /\ UNCHANGED <<browser, up, known, cursors, queue, loop, runner, handed, late,
                   missed, faults>>

\* The executor notices.  The processing is over if the run succeeded, if it
\* had sent output, or if its error is one of configuration.
RunnerEnds ==
    /\ up /\ runner.at = "run" /\ container = "gone"
    /\ \/ /\ Succeeds
          /\ container' = "none"
          /\ escapes' = escapes
       \/ /\ runner' = [runner EXCEPT !.at = "failed"]
          /\ UNCHANGED <<container, retries, retryTimer, dropped, escapes>>
       \/ Escapes
    /\ UNCHANGED <<browser, up, known, cursors, check, loop, piped, handed, stray,
                   late, missed, dbFailures, crashes, lostEvents>>

\* Fault: a failed run leaves the cursor where it is.
KeepsCursor ==
    /\ up /\ runner.at = "failed"
    /\ Retries
    /\ handed' = handed \cap 1..runner.prev
    /\ stray' = stray \cap 1..runner.prev
    /\ container' = "none"
    /\ UNCHANGED <<browser, up, known, cursors, check, loop, piped, late, missed,
                   faults>>

\* An error before any output: the cursor is put back,
RunnerPutsBack ==
    /\ up /\ runner.at = "failed"
    /\ cursor' = runner.prev
    /\ handed' = handed \cap 1..runner.prev
    /\ stray' = stray \cap 1..runner.prev
    /\ runner' = [runner EXCEPT !.at = "rollback"]
    /\ UNCHANGED <<browser, up, known, dbCursor, polled, queue, loop, container,
                   piped, late, missed, faults>>

\* in the database too, and the run of the GroupQueue ends in a retry.
RunnerRollsBack ==
    /\ up /\ runner.at = "rollback"
    /\ \/ /\ dbCursor' = runner.prev
          /\ dbFailures' = dbFailures
       \/ /\ MayFail
          /\ dbCursor' = dbCursor
          /\ dbFailures' = dbFailures + 1
    /\ Retries
    /\ container' = "none"
    /\ UNCHANGED <<browser, up, known, cursor, polled, check, loop, piped, handed,
                   stray, late, missed, crashes, lostEvents, escapes>>

-----------------------------------------------------------------------------
(* Crashes and restarts.                                                   *)

Crash ==
    /\ up /\ MayFail
    /\ up' = FALSE
    /\ crashes' = crashes + 1
    /\ check' = FALSE /\ retries' = 0 /\ retryTimer' = FALSE /\ dropped' = FALSE
    /\ loop' = IdleLoop /\ runner' = IdleRunner
    /\ UNCHANGED <<browser, known, cursors, agent, late, missed, dbFailures,
                   lostEvents, escapes>>

\* Fault: startup does not look for pending messages.
RestartWithoutRecovery ==
    /\ ~up
    /\ up' = TRUE
    /\ known' = TRUE
    /\ container' = "none" /\ piped' = {}
    /\ inbound' = {}
    /\ cursor' = dbCursor
    /\ handed' = handed \cap 1..dbCursor
    /\ stray' = (stray \cup piped) \cap 1..dbCursor
    /\ UNCHANGED <<web, sent, stored, dbCursor, polled, queue, loop, runner, late,
                   missed, faults>>

\* Startup: cleanup_orphans stops the containers, the web gateway purges its
\* stream, the conversation and its cursor are loaded, and
\* _recover_pending_messages looks for messages beyond it.
Restart ==
    /\ ~up
    /\ up' = TRUE
    /\ known' = TRUE
    /\ container' = "none" /\ piped' = {}
    /\ inbound' = {}
    /\ cursor' = dbCursor
    /\ handed' = handed \cap 1..dbCursor
    /\ stray' = (stray \cup piped) \cap 1..dbCursor
    /\ check' = (MessagesSince(dbCursor) # {})
    /\ UNCHANGED <<web, sent, stored, dbCursor, polled, retries, retryTimer,
                   dropped, loop, runner, late, missed, faults>>

-----------------------------------------------------------------------------

Web ==
    \/ CreateRun \/ WebCrash
    \/ \E m \in Messages : StoreMessage(m) \/ PublishInbound(m)

Loop == Poll \/ LoopReads \/ LoopPipes \/ LoopEnqueues \/ LoopCommits

Runner ==
    \/ RunnerReads \/ RunnerAdvances \/ RunnerCommits \/ RunnerSpawns
    \/ RunnerEnds \/ RunnerPutsBack \/ RunnerRollsBack \/ RetryFires

Next ==
    \/ Web \/ Loop \/ PollOthers \/ Runner \/ AgentReads \/ ContainerEnds
    \/ Crash \/ Restart
    \/ \E m \in Messages : HandleIncoming(m)

Spec == Init /\ [][Next]_vars

\* The event loops run every coroutine that is ready, the poll repeats, the
\* inactivity watchdog ends a container that does not end by itself, and the
\* supervisor restarts the orchestrator.
Fairness ==
    /\ WF_vars(Loop) /\ WF_vars(Runner) /\ WF_vars(ContainerEnds)
    /\ WF_vars(Restart)
    /\ \A m \in Messages : WF_vars(PublishInbound(m)) /\ WF_vars(HandleIncoming(m))

FairSpec == Spec /\ Fairness

-----------------------------------------------------------------------------

\* The types of the variables.
TypeOK ==
    /\ web \in [Messages -> {"none", "created", "stored", "done"}]
    /\ sent \in 0..MaxMessages
    /\ stored \subseteq Messages
    /\ inbound \subseteq Messages
    /\ up \in BOOLEAN /\ known \in BOOLEAN
    /\ cursor \in 0..MaxMessages
    /\ dbCursor \in 0..MaxMessages
    /\ polled \in 0..MaxMessages
    /\ check \in BOOLEAN /\ retryTimer \in BOOLEAN /\ dropped \in BOOLEAN
    /\ retries \in 0..MaxRetries
    /\ loop \in [at : {"idle", "polled", "read", "piped"},
                 batch : SUBSET Messages]
    /\ runner \in [at : {"idle", "read", "advance", "spawn", "run", "failed",
                         "rollback"},
                   batch : SUBSET Messages, prev : 0..MaxMessages]
    /\ container \in {"none", "running", "gone"}
    /\ piped \subseteq Messages /\ handed \subseteq Messages
    /\ late \subseteq Messages /\ missed \subseteq Messages
    /\ stray \subseteq Messages
    /\ dbFailures \in 0..MaxFaults /\ crashes \in 0..MaxFaults
    /\ lostEvents \in 0..MaxFaults /\ escapes \in 0..MaxFaults

\* Something will come to message m: the web handler or its event, a pending
\* check, a retry, the message loop or the runner.
Reached(m) ==
    \/ ~up \/ dropped
    \/ check \/ retryTimer
    \/ m \in inbound \/ web[m] = "stored"
    \/ (known /\ m > polled) \/ loop.at = "polled" \/ m \in loop.batch
    \/ m \in runner.batch \/ runner.at = "rollback"

\* A stored message that no agent has is never forgotten while it is beyond the
\* cursor: the listener, the message loop, the runner or a retry will come to
\* it.  With one lost event, failed statement, crash or escaped exception that
\* is still so, because listener, poll and recovery at startup
\* (_recover_pending_messages) cover for each other, except where the poll is
\* blind: for a conversation that only its event would have brought into
\* _state, and for a message the tenant's cursor passed before the poll could
\* see it.  A message whose row comes after that of a later one is not covered:
\* each of them may have looked beyond it by then.
NoStrandedMessage ==
    Mishaps <= 1 =>
        \A m \in MessagesSince(cursor) \ (handed \cup late) :
            \/ Reached(m)
            \/ Mishaps = 1 /\ (~known \/ m \in missed)

\* The cursor never passes a message that no agent was given: what it has
\* passed was handed over, is on its way to the agent, or is in the hands of
\* the runner, which puts the cursor back if it fails.  What the code lets slip:
\* a message whose row comes after that of a later one, and what the cursor
\* passed for a pipe into a job whose agent had ended.  After a failed
\* statement, a crash or an exception that escapes _run_agent the cursor may
\* stay past a message of the failed turn.
CursorNeverSkips ==
    dbFailures + crashes + escapes = 0 =>
        \A m \in stored :
            m <= cursor => m \in handed \cup piped \cup runner.batch \cup late \cup stray

\* Every stored message comes to an agent that keeps it, or its retries are
\* exhausted, whatever batch it was read with failed before.  If an event is
\* lost the poll of _message_loop finds the message, unless the poll is blind
\* to it (see NoStrandedMessage); the other exceptions are those of
\* CursorNeverSkips.
EveryMessageIsServed ==
    \A m \in Messages :
        m \in stored ~> [](\/ m \in handed \cup late \cup stray
                           \/ dropped
                           \/ dbFailures + crashes + escapes > 0
                           \/ lostEvents > 0 /\ (~known \/ m \in missed))

=============================================================================
