---------------------------- MODULE RunLifecycle ----------------------------
(***************************************************************************)
(* The runs of a web conversation (rolemesh/runs): who writes the terminal *)
(* status of a run row, and what the browser is told.  The writers are the *)
(* results the agent publishes, as _on_output handles them (rolemesh/      *)
(* main.py), and the user's cancel (run_cancel_subscriber.py); they work   *)
(* on conv_state.active_run_id, which new messages re-point meanwhile.     *)
(*                                                                         *)
(* An action is one run of a coroutine between two awaits, one statement   *)
(* of the database, or one step of the agent container.  Which message     *)
(* starts a turn, and when, is in MessageHandover.tla; here any run that   *)
(* exists may be the one a turn is started for, or started again for.      *)
(*                                                                         *)
(* An operator introduced by "Fault:" is not part of the model: it is a    *)
(* variant of the operator after it, with a mistake the properties must    *)
(* notice.                                                                 *)
(***************************************************************************)
EXTENDS Naturals, Sequences

CONSTANTS
    MaxRuns,      \* bound: runs created
    MaxResults,   \* bound: results published and not read
    MaxFaults     \* bound: failed statements, lost cancels and crashes

\* A cancel is delivered _MAX_DELIVER = 3 times: two failures do not lose it.
ASSUME RunAssumptions ==
    MaxRuns \in Nat /\ MaxResults \in Nat /\ MaxFaults \in 0..2

Runs  == 1..MaxRuns
NoRun == 0

VARIABLES
    created,     \* the runs created are 1..created
    run,         \* runs.status
    frames,      \* the run-terminal frames each run's browser has received
    cancels,     \* web.run.cancel events: "none", "published", "stopping", or
                 \* "lost" if the request was accepted and not published
    up,          \* the orchestrator runs
    activeRun,   \* conv_state.active_run_id
    turn,        \* _run_agent is under way
    container,   \* the agent: "none", "working", "resting", "ended"
    input,       \* follow-ups the agent has not read
    results,     \* results it has published and that were not read
    reader,      \* _on_output
    dbFailures, lostEvents, crashes

agent  == <<container, input, results>>
faults == <<dbFailures, lostEvents, crashes>>
vars   == <<created, run, frames, cancels, up, activeRun, turn, agent, reader,
            faults>>

MayFail    == dbFailures + lostEvents + crashes < MaxFaults
Terminal   == {"completed", "failed", "cancelled"}
Results    == {"answer", "blocked", "final", "error", "config"}
IdleReader == [at |-> "idle", run |-> NoRun, status |-> "none", then |-> "idle"]

Init ==
    /\ created = 0
    /\ run = [r \in Runs |-> "none"]
    /\ frames = [r \in Runs |-> {}]
    /\ cancels = [r \in Runs |-> "none"]
    /\ up = TRUE
    /\ activeRun = NoRun
    /\ turn = FALSE
    /\ container = "none" /\ input = FALSE /\ results = <<>>
    /\ reader = IdleReader
    /\ dbFailures = 0 /\ lostEvents = 0 /\ crashes = 0

\* Fault: the UPDATE has no WHERE status = 'running'.
UpdateAnyRun(r, status) == [run EXCEPT ![r] = status]

\* update_run_terminal.
UpdateRunTerminal(r, status) ==
    IF run[r] = "running" THEN [run EXCEPT ![r] = status] ELSE run

-----------------------------------------------------------------------------
(* The web process.                                                        *)

\* create_run.
CreateRun ==
    /\ created < MaxRuns
    /\ created' = created + 1
    /\ run' = [run EXCEPT ![created + 1] = "running"]
    /\ UNCHANGED <<frames, cancels, up, activeRun, turn, agent, reader, faults>>

\* cancel_run_endpoint: a run that has ended is refused.  publish_run_cancel
\* swallows a failure, and the answer is 202 all the same.
RequestCancel(r) ==
    /\ run[r] = "running" /\ cancels[r] \in {"none", "lost"}
    /\ \/ /\ cancels' = [cancels EXCEPT ![r] = "published"]
          /\ lostEvents' = lostEvents
       \/ /\ MayFail
          /\ cancels' = [cancels EXCEPT ![r] = "lost"]
          /\ lostEvents' = lostEvents + 1
    /\ UNCHANGED <<created, run, frames, up, activeRun, turn, agent, reader,
                   dbFailures, crashes>>

-----------------------------------------------------------------------------
(* Turns.                                                                  *)

\* _process_conversation_messages starts a container for the last message of
\* its batch.
StartTurn(r) ==
    /\ up /\ ~turn /\ r <= created
    /\ turn' = TRUE
    /\ activeRun' = r
    /\ container' = "working"
    /\ UNCHANGED <<created, run, frames, cancels, up, input, results, reader, faults>>

\* The message loop re-points the active run, then pipes the message if there
\* is a container and enqueues a check if there is none.
PipeMessage(r) ==
    /\ up /\ r <= created
    /\ activeRun' = r
    /\ \/ input' = input
       \/ turn /\ input' = TRUE
    /\ UNCHANGED <<created, run, frames, cancels, up, turn, container, results,
                   reader, faults>>

\* The executor notices that the container is gone: it cancels _on_output where
\* it is and drops the results that were not read.
EndTurn ==
    /\ up /\ turn /\ container = "ended"
    /\ turn' = FALSE
    /\ container' = "none" /\ input' = FALSE /\ results' = <<>>
    /\ reader' = IdleReader
    /\ UNCHANGED <<created, run, frames, cancels, up, activeRun, faults>>

-----------------------------------------------------------------------------
(* The agent container.  Progress and "stopped" results change nothing     *)
(* here and are left out.                                                  *)

\* A reply, a block by a safety hook, the batch-final marker, an error that may
\* be retried (the agent exits, or goes on to the marker), or one of
\* configuration, after which it exits.
AgentPublishes ==
    /\ container = "working" /\ Len(results) < MaxResults
    /\ \E result \in Results :
         /\ results' = Append(results, result)
         /\ container' \in CASE result \in {"answer", "blocked"} -> {"working"}
                             [] result = "final"                 -> {"resting"}
                             [] result = "error"                 -> {"working", "ended"}
                             [] result = "config"                -> {"ended"}
    /\ UNCHANGED <<created, run, frames, cancels, up, activeRun, turn, input,
                   reader, faults>>

AgentReadsInput ==
    /\ container \in {"working", "resting"} /\ input
    /\ container' = "working"
    /\ input' = FALSE
    /\ UNCHANGED <<created, run, frames, cancels, up, activeRun, turn, results,
                   reader, faults>>

\* The container crashes, is killed, or obeys a shutdown request.
AgentEnds ==
    /\ container \in {"working", "resting"}
    /\ container' = "ended"
    /\ UNCHANGED <<created, run, frames, cancels, up, activeRun, turn, input,
                   results, reader, faults>>

-----------------------------------------------------------------------------
(* _on_output, one result at a time.                                       *)

\* What a result writes, and what the browser is sent after it: a run-terminal
\* chunk, a safety block, or nothing, because a retry may still answer.
WriteOf(result) ==
    CASE result = "final"   -> [status |-> "completed", then |-> "frame"]
      [] result = "blocked" -> [status |-> "failed", then |-> "block"]
      [] result = "error"   -> [status |-> "failed", then |-> "idle"]
      [] result = "config"  -> [status |-> "failed", then |-> "frame"]

\* A reply is sent and stored, or blocked by the orchestrator's own check of the
\* model's output, which writes no row; any other result is a terminal write.
ReaderTakes ==
    /\ up /\ turn /\ reader.at = "idle" /\ results # <<>>
    /\ results' = Tail(results)
    /\ \/ /\ Head(results) = "answer"
          /\ reader' \in {reader, [IdleReader EXCEPT !.at = "block"]}
       \/ /\ Head(results) # "answer"
          /\ reader' = [at |-> "write", run |-> activeRun,
                        status |-> WriteOf(Head(results)).status,
                        then |-> WriteOf(Head(results)).then]
    /\ UNCHANGED <<created, run, frames, cancels, up, activeRun, turn, container,
                   input, faults>>

\* A session id or a reply that cannot be stored ends _on_output: nothing more
\* is read, and the error comes up when the container is gone.  Blocks and
\* errors carry neither.
ReaderFails ==
    /\ up /\ turn /\ reader.at = "idle" /\ results # <<>> /\ MayFail
    /\ Head(results) \in {"answer", "final"}
    /\ reader' = [reader EXCEPT !.at = "dead"]
    /\ dbFailures' = dbFailures + 1
    /\ UNCHANGED <<created, run, frames, cancels, up, activeRun, turn, agent,
                   lostEvents, crashes>>

\* After the write: what is sent reports the given status.
AfterWrite(status) ==
    IF reader.then = "idle" THEN IdleReader
    ELSE [reader EXCEPT !.at = reader.then, !.status = status]

\* Fault: the frame reports what the write tried, although it lost.
WriteTrustsIntent ==
    /\ up /\ reader.at = "write"
    /\ run' = UpdateRunTerminal(reader.run, reader.status)
    /\ reader' = AfterWrite(reader.status)
    /\ UNCHANGED <<created, frames, cancels, up, activeRun, turn, agent, faults>>

\* Fault: the row is read before the write.
WriteReadsFirst ==
    /\ up /\ reader.at = "write"
    /\ run' = UpdateRunTerminal(reader.run, reader.status)
    /\ reader' = AfterWrite(run[reader.run])
    /\ UNCHANGED <<created, frames, cancels, up, activeRun, turn, agent, faults>>

\* _terminate_run_safe and _run_terminal_error_or_none: the frame reports the
\* row.  If the UPDATE or the SELECT after it raises, it reports what the write
\* tried.
ReaderWrites ==
    /\ up /\ reader.at = "write"
    /\ \/ /\ run' = UpdateRunTerminal(reader.run, reader.status)
          /\ reader' = AfterWrite(run'[reader.run])
          /\ dbFailures' = dbFailures
       \/ /\ MayFail
          /\ run' = run
          /\ reader' = AfterWrite(reader.status)
          /\ dbFailures' = dbFailures + 1
    /\ UNCHANGED <<created, frames, cancels, up, activeRun, turn, agent, lostEvents,
                   crashes>>

\* send_run_completed or send_run_error; a run that was cancelled is reported
\* as completed.
ReaderFrames ==
    /\ up /\ reader.at = "frame"
    /\ frames' = [frames EXCEPT ![reader.run] = @ \cup
                    {IF reader.status = "failed" THEN "error" ELSE "completed"}]
    /\ reader' = IdleReader
    /\ UNCHANGED <<created, run, cancels, up, activeRun, turn, agent, faults>>

\* send_safety_block, whoever won the row: an error frame.  It names the run its
\* socket has sent last, which need not be the run of the turn, so it is not
\* kept with the run-terminal frames.
ReaderShowsBlock ==
    /\ up /\ reader.at = "block"
    /\ reader' = IdleReader
    /\ UNCHANGED <<created, run, frames, cancels, up, activeRun, turn, agent, faults>>

-----------------------------------------------------------------------------
(* Cancels, crashes, restarts.                                             *)

\* _handle_cancel_event: the container of the conversation is stopped first,
\* if there is one; the stop may fail.
CancelStops(r) ==
    /\ up /\ cancels[r] = "published"
    /\ cancels' = [cancels EXCEPT ![r] = "stopping"]
    /\ \/ container' = container
       \/ turn /\ container' = "ended"
    /\ UNCHANGED <<created, run, frames, up, activeRun, turn, input, results,
                   reader, faults>>

\* Fault: the event of a cancel whose UPDATE failed is acknowledged.
CancelGivesUp(r) ==
    /\ up /\ cancels[r] = "stopping"
    /\ cancels' = [cancels EXCEPT ![r] = "none"]
    /\ \/ /\ run' = UpdateRunTerminal(r, "cancelled")
          /\ dbFailures' = dbFailures
       \/ /\ MayFail
          /\ run' = run
          /\ dbFailures' = dbFailures + 1
    /\ UNCHANGED <<created, frames, up, activeRun, turn, agent, reader, lostEvents,
                   crashes>>

\* terminate_run_via_user_cancel.  After a failure the event is redelivered.
CancelWrites(r) ==
    /\ up /\ cancels[r] = "stopping"
    /\ \/ /\ run' = UpdateRunTerminal(r, "cancelled")
          /\ cancels' = [cancels EXCEPT ![r] = "none"]
          /\ dbFailures' = dbFailures
       \/ /\ MayFail
          /\ run' = run
          /\ cancels' = [cancels EXCEPT ![r] = "published"]
          /\ dbFailures' = dbFailures + 1
    /\ UNCHANGED <<created, frames, up, activeRun, turn, agent, reader, lostEvents,
                   crashes>>

\* The orchestrator dies; rows, frames and containers stay.
Crash ==
    /\ up /\ MayFail
    /\ up' = FALSE
    /\ activeRun' = NoRun
    /\ turn' = FALSE
    /\ reader' = IdleReader
    /\ crashes' = crashes + 1
    /\ UNCHANGED <<created, run, frames, cancels, agent, dbFailures, lostEvents>>

\* Startup stops the containers that were left, and purges the events.
Restart ==
    /\ ~up
    /\ up' = TRUE
    /\ container' = "none" /\ input' = FALSE /\ results' = <<>>
    /\ cancels' = [r \in Runs |-> "none"]
    /\ UNCHANGED <<created, run, frames, activeRun, turn, reader, faults>>

-----------------------------------------------------------------------------

Agent  == AgentPublishes \/ AgentReadsInput \/ AgentEnds

Reader ==
    ReaderTakes \/ ReaderFails \/ ReaderWrites \/ ReaderFrames \/ ReaderShowsBlock

Next ==
    \/ CreateRun \/ EndTurn \/ Agent \/ Reader \/ Crash \/ Restart
    \/ \E r \in Runs : \/ RequestCancel(r) \/ CancelStops(r) \/ CancelWrites(r)
                       \/ StartTurn(r) \/ PipeMessage(r)

Spec == Init /\ [][Next]_vars

\* The subscription of cancels is served while the orchestrator runs.
FairSpec == Spec /\ \A r \in Runs : WF_vars(CancelStops(r) \/ CancelWrites(r))

-----------------------------------------------------------------------------

\* The types of the variables.
TypeOK ==
    /\ created \in 0..MaxRuns
    /\ run \in [Runs -> Terminal \cup {"none", "running"}]
    /\ frames \in [Runs -> SUBSET {"completed", "error"}]
    /\ cancels \in [Runs -> {"none", "published", "stopping", "lost"}]
    /\ up \in BOOLEAN /\ turn \in BOOLEAN /\ input \in BOOLEAN
    /\ activeRun \in 0..MaxRuns
    /\ container \in {"none", "working", "resting", "ended"}
    /\ results \in Seq(Results)
    /\ reader \in [at : {"idle", "write", "frame", "block", "dead"}, run : 0..MaxRuns,
                   status : Terminal \cup {"none"}, then : {"idle", "frame", "block"}]
    /\ dbFailures \in 0..MaxFaults
    /\ lostEvents \in 0..MaxFaults
    /\ crashes \in 0..MaxFaults

\* "A browser can never see event.run.completed while GET /runs/{id} says
\* failed" (_terminate_and_emit_run_terminal), nor the other way round: however
\* finals, safety blocks, errors and cancels race for the row, and wherever the
\* active run is pointed meanwhile, a run-terminal chunk says what the row says.
\* A run that was cancelled is announced as completed
\* (_run_terminal_error_or_none).  The error frame of a safety block says less:
\* when a block by the agent's hooks is shown, the run of its turn has ended, as
\* failed or as an earlier writer left it; it may name another run, and a block
\* of the model's output ends none.
FrameMirrorsRow ==
    dbFailures = 0 =>
        /\ \A r \in Runs :
             /\ "completed" \in frames[r] => run[r] \in {"completed", "cancelled"}
             /\ "error" \in frames[r] => run[r] = "failed"
        /\ reader.at = "block" /\ reader.run # NoRun => run[reader.run] \in Terminal

\* "Once a run reaches completed / failed / cancelled, no path may rewrite it"
\* (lifecycle.py), whichever of its writers come late or twice.
EndedRunsAreFinal ==
    [][\A r \in Runs : run[r] \in Terminal => run'[r] = run[r]]_run

\* A cancel that was accepted ends the run, whatever becomes of the container
\* and although a statement may fail, unless the orchestrator crashes or the
\* publish was lost: publish_run_cancel only logs that, and the 202 was sent.
CancelEndsRun ==
    \A r \in Runs :
        cancels[r] # "none" ~>
            (run[r] \in Terminal \/ crashes > 0 \/ cancels[r] = "lost")

=============================================================================
