------------------------ MODULE ApprovalCoordinator ------------------------
(***************************************************************************)
(* Human approval of tool calls: the agent that blocks a tool call and     *)
(* awaits a decision (agent_runner/approval/awaiter.py), the coordinator   *)
(* in the orchestrator, the approval_requests table and the JetStream      *)
(* messages between them.  The orchestrator may crash and restart.         *)
(*                                                                         *)
(* An action is one run of a coroutine between two awaits, one statement   *)
(* of the database, or one step of an agent.  A request in pending is      *)
(* suspended in the GroupQueue: the coordinator calls suspend_for_approval *)
(* and resume_from_approval exactly where it adds to and pops from         *)
(* _pending (GroupQueue.tla says what they do).                            *)
(*                                                                         *)
(* An operator introduced by "Fault:" is not part of the model: it is a    *)
(* variant of the operator after it, with a mistake the properties must    *)
(* notice.                                                                 *)
(***************************************************************************)
EXTENDS Naturals, Sequences, FiniteSets

CONSTANTS
    Requests,         \* request ids, minted by the agents
    Ids,              \* bound: coroutines in flight at the same time
    Failures,         \* whether database and broker calls may fail
    MaxRedeliveries,  \* bound: messages JetStream delivers again
    MaxCrashes,       \* bound: crashes of the orchestrator
    NoRequest

ASSUME ApprovalAssumptions ==
    /\ Failures \in BOOLEAN
    /\ MaxRedeliveries \in Nat
    /\ MaxCrashes \in Nat
    /\ NoRequest \notin Requests

VARIABLES
    call,       \* the agent's side of a request: its blocked tool call
    past,       \* requests whose expires_at has passed
    inbox,      \* approval_request and approval_cancel messages under way
    delivered,  \* messages handed to the orchestrator, which may come again
    decisions,  \* approval_decision messages under way to the agents
    row,        \* the status of each row of approval_requests
    up,         \* the orchestrator runs
    pending,    \* ApprovalCoordinator._pending
    timers,     \* requests whose expiry_handle is armed
    intake,     \* on_approval_request in progress
    tasks,      \* decide, on_approval_cancel, _handle_expiry in progress
    recovery,   \* recover_pending in progress
    told,       \* hard-channel notifications (notify_hard) of each request
    redelivered, crashes

agent  == <<call, past>>
wire   == <<inbox, delivered, decisions>>
memory == <<pending, timers, intake, tasks, recovery>>
bounds == <<redelivered, crashes>>
vars   == <<agent, wire, row, up, memory, told, bounds>>

Message(type, r) == [type |-> type, req |-> r]

Idle == [req |-> NoRequest, at |-> "idle"]

Recovered == [at |-> "done", rows |-> {}, late |-> {}]

Init ==
    /\ call = [r \in Requests |-> "idle"]
    /\ past = {}
    /\ inbox = {} /\ delivered = {} /\ decisions = {}
    /\ row = [r \in Requests |-> "none"]
    /\ up = TRUE
    /\ pending = {} /\ timers = {} /\ tasks = {}
    /\ intake = Idle
    /\ recovery = Recovered
    /\ told = [r \in Requests |-> <<>>]
    /\ redelivered = 0 /\ crashes = 0

-----------------------------------------------------------------------------
(* The agent: await_decision and resolve_decision.                         *)

\* The request is published and the call blocks on its future.
Ask(r) ==
    /\ call[r] = "idle"
    /\ call' = [call EXCEPT ![r] = "blocked"]
    /\ inbox' = inbox \cup {Message("request", r)}
    /\ UNCHANGED <<past, delivered, decisions, row, up, memory, told, bounds>>

\* Every end but an approval publishes a cancel, if it can.
Refuse(r, cancelled) ==
    /\ call' = [call EXCEPT ![r] = "refused"]
    /\ inbox' = IF cancelled THEN inbox \cup {Message("cancel", r)} ELSE inbox

\* The broker does not take the request.
AskFails(r) ==
    /\ Failures
    /\ call[r] = "idle"
    /\ \E cancelled \in BOOLEAN : Refuse(r, cancelled)
    /\ UNCHANGED <<past, delivered, decisions, row, up, memory, told, bounds>>

TimesOut(r) ==
    /\ call[r] = "blocked" /\ r \in past
    /\ Refuse(r, TRUE)
    /\ UNCHANGED <<past, delivered, decisions, row, up, memory, told, bounds>>

\* Stop, which may interrupt the publish, or SIGKILL, which leaves no time.
Stopped(r) ==
    /\ call[r] = "blocked"
    /\ \E cancelled \in BOOLEAN : Refuse(r, cancelled)
    /\ UNCHANGED <<past, delivered, decisions, row, up, memory, told, bounds>>

\* A decision for a call that no longer waits is dropped.
ResolveDecision(d) ==
    /\ d \in decisions
    /\ decisions' = decisions \ {d}
    /\ \/ /\ call[d.req] = "blocked" /\ d.decision = "approve"
          /\ call' = [call EXCEPT ![d.req] = "ran"]
          /\ UNCHANGED inbox
       \/ /\ call[d.req] = "blocked" /\ d.decision = "reject"
          /\ Refuse(d.req, TRUE)
       \/ /\ call[d.req] # "blocked"
          /\ UNCHANGED <<call, inbox>>
    /\ UNCHANGED <<past, delivered, row, up, memory, told, bounds>>

DeadlinePasses(r) ==
    /\ call[r] # "idle" /\ r \notin past
    /\ past' = past \cup {r}
    /\ UNCHANGED <<call, wire, row, up, memory, told, bounds>>

-----------------------------------------------------------------------------
(* The broker delivers a message again whose ack is late or lost.          *)

Redeliver(m) ==
    /\ redelivered < MaxRedeliveries
    /\ m \in delivered \ inbox
    /\ inbox' = inbox \cup {m}
    /\ redelivered' = redelivered + 1
    /\ UNCHANGED <<agent, delivered, decisions, row, up, memory, told, crashes>>

-----------------------------------------------------------------------------
(* The coordinator.                                                        *)

\* The loop of recover_pending runs without an await between live rows.
Runs == up /\ recovery.at # "loop"

FreeIds == {i \in Ids : \A t \in tasks : t.id # i}

Start(r, kind, at) ==
    /\ FreeIds # {}
    /\ tasks' = tasks \cup {[id |-> CHOOSE i \in FreeIds : TRUE,
                             req |-> r, kind |-> kind, at |-> at]}

Take(m) ==
    /\ m \in inbox
    /\ inbox' = inbox \ {m}
    /\ delivered' = delivered \cup {m}

\* Fault: the entry is dropped but its timer keeps running.
ResolveLocalTimerRuns(r) ==
    /\ pending' = pending \ {r}
    /\ UNCHANGED timers

\* _resolve_local: drop the entry, cancel its timer, resume the queue.
ResolveLocal(r) ==
    /\ pending' = pending \ {r}
    /\ timers' = timers \ {r}

\* Fault: nobody will expire the entry.
SuspendNoTimer(r) ==
    /\ pending' = pending \cup {r}
    /\ UNCHANGED timers

\* Suspend the queue, enter the request, arm its expiry.
Suspend(r) ==
    /\ pending' = pending \cup {r}
    /\ timers' = timers \cup {r}

\* on_approval_request up to its first await: a redelivered message; a request
\* of a coworker whose tenant is not known, which is refused; any other one.
\* Messages are handled one at a time, including the decide of a request
\* without approver.
OnApprovalRequest(r) ==
    /\ Runs
    /\ intake = Idle /\ \A t \in tasks : t.kind # "auto"
    /\ Take(Message("request", r))
    /\ \/ /\ r \in pending
          /\ UNCHANGED <<decisions, pending, timers, intake>>
       \/ /\ r \notin pending
          /\ \/ decisions' = decisions \cup {[req |-> r, decision |-> "reject"]}
             \/ Failures /\ UNCHANGED decisions
          /\ UNCHANGED <<pending, timers, intake>>
       \/ /\ r \notin pending
          /\ Suspend(r)
          /\ intake' = [req |-> r, at |-> "creating"]
          /\ UNCHANGED decisions
    /\ UNCHANGED <<agent, row, up, tasks, recovery, told, bounds>>

\* The INSERT, which fails if the id exists.  A call that fails may have been
\* committed all the same, and only its answer lost.
CreateRequest ==
    /\ up /\ intake.at = "creating"
    /\ \/ /\ row[intake.req] = "none"
          /\ row' = [row EXCEPT ![intake.req] = "pending"]
          /\ \/ intake' = [intake EXCEPT !.at = "created"]
             \/ Failures /\ intake' = [intake EXCEPT !.at = "failed"]
       \/ /\ Failures \/ row[intake.req] # "none"
          /\ intake' = [intake EXCEPT !.at = "failed"]
          /\ UNCHANGED row
    /\ UNCHANGED <<agent, wire, up, pending, timers, tasks, recovery, told, bounds>>

\* on_approval_request after the INSERT.  A request without approver is
\* rejected by decide, which does nothing if the request was resolved meanwhile.
RequestCreated ==
    /\ Runs
    /\ \/ /\ intake.at = "failed"
          /\ ResolveLocal(intake.req)
          /\ UNCHANGED tasks
       \/ /\ intake.at = "created"
          /\ intake.req \in pending
          /\ Start(intake.req, "auto", "resolving")
          /\ UNCHANGED <<pending, timers>>
       \/ /\ intake.at = "created"
          /\ UNCHANGED <<pending, timers, tasks>>
    /\ intake' = Idle
    /\ UNCHANGED <<agent, wire, row, up, recovery, told, bounds>>

\* A human decides; the request is known to humans once its row exists.
Decide(r, decision) ==
    /\ Runs
    /\ r \in pending /\ row[r] # "none"
    /\ Start(r, decision, "resolving")
    /\ UNCHANGED <<agent, wire, row, up, pending, timers, intake, recovery, told, bounds>>

\* Cancels are handled one at a time.
OnApprovalCancel(r) ==
    /\ Runs
    /\ \A t \in tasks : t.kind # "cancel"
    /\ Take(Message("cancel", r))
    /\ IF r \in pending THEN Start(r, "cancel", "resolving") ELSE UNCHANGED tasks
    /\ UNCHANGED <<agent, decisions, row, up, pending, timers, intake, recovery,
                   told, bounds>>

FireExpiry(r) ==
    /\ Runs
    /\ r \in timers /\ r \in past
    /\ timers' = timers \ {r}
    /\ Start(r, "expire", "spawned")
    /\ UNCHANGED <<agent, wire, row, up, pending, intake, recovery, told, bounds>>

HandleExpiry(t) ==
    /\ Runs
    /\ t \in tasks /\ t.at = "spawned"
    /\ tasks' = (tasks \ {t}) \cup
                (IF t.req \in pending THEN {[t EXCEPT !.at = "resolving"]} ELSE {})
    /\ UNCHANGED <<agent, wire, row, up, pending, timers, intake, recovery, told, bounds>>

-----------------------------------------------------------------------------
(* What the coroutines that resolve a request have in common.              *)

\* Fault: the request's word for the decision is stored as its status.
StatusStoredRaw(kind) ==
    CASE kind = "approve" -> "approve"
      [] kind \in {"reject", "auto"} -> "rejected"
      [] kind = "cancel" -> "cancelled"
      [] kind \in {"expire", "recover"} -> "expired"

StatusOf(kind) ==
    CASE kind = "approve" -> "approved"
      [] kind \in {"reject", "auto"} -> "rejected"
      [] kind = "cancel" -> "cancelled"
      [] kind \in {"expire", "recover"} -> "expired"

Decision(kind) == IF kind = "approve" THEN "approve" ELSE "reject"

Relays(t) == t.kind \in {"approve", "reject", "auto"}

Moved(t, at) == (tasks \ {t}) \cup {[t EXCEPT !.at = at]}

\* Fault: the UPDATE does not ask for a pending row.
ResolveRequestAnyRow(t) ==
    /\ up /\ t \in tasks /\ t.at = "resolving"
    /\ row[t.req] # "none"
    /\ row' = [row EXCEPT ![t.req] = StatusOf(t.kind)]
    /\ tasks' = Moved(t, "won")
    /\ UNCHANGED <<agent, wire, up, pending, timers, intake, recovery, told, bounds>>

\* The UPDATE ... WHERE status = 'pending'.  A call that fails may have been
\* committed all the same.
ResolveRequest(t) ==
    /\ up /\ t \in tasks /\ t.at = "resolving"
    /\ \/ /\ row[t.req] = "pending"
          /\ row' = [row EXCEPT ![t.req] = StatusOf(t.kind)]
          /\ \/ tasks' = Moved(t, "won")
             \/ Failures /\ tasks' = Moved(t, "lost")
       \/ /\ Failures \/ row[t.req] # "pending"
          /\ tasks' = Moved(t, "lost")
          /\ UNCHANGED row
    /\ UNCHANGED <<agent, wire, up, pending, timers, intake, recovery, told, bounds>>

\* Fault: the decision goes to the agent whoever won the row.
PublishDecisionAlways(t) ==
    /\ Runs
    /\ t \in tasks /\ Relays(t) /\ t.at \in {"won", "lost"}
    /\ decisions' = decisions \cup {[req |-> t.req, decision |-> Decision(t.kind)]}
    /\ tasks' = Moved(t, IF t.at = "won" THEN "relayed" ELSE "lost")
    /\ UNCHANGED <<agent, inbox, delivered, row, up, pending, timers, intake,
                   recovery, told, bounds>>

\* decide, when its UPDATE has won the row.
PublishDecision(t) ==
    /\ Runs
    /\ t \in tasks /\ Relays(t) /\ t.at = "won"
    /\ \/ decisions' = decisions \cup {[req |-> t.req, decision |-> Decision(t.kind)]}
       \/ Failures /\ UNCHANGED decisions
    /\ tasks' = Moved(t, "relayed")
    /\ UNCHANGED <<agent, inbox, delivered, row, up, pending, timers, intake,
                   recovery, told, bounds>>

Finishes(t) == t.at \in {"lost", "relayed"} \/ (t.at = "won" /\ ~Relays(t))

\* Fault: the user is told also by those who did not win the row.
NotifyAlways(t) ==
    told' = IF t.kind = "approve" THEN told
            ELSE [told EXCEPT ![t.req] = Append(@, StatusOf(t.kind))]

\* notify_hard, only by the winner of the row, and not for an approval.
Notify(t) ==
    told' = IF t.at = "lost" \/ t.kind = "approve" THEN told
            ELSE [told EXCEPT ![t.req] = Append(@, StatusOf(t.kind))]

\* Fault: an expiry that did not get the row is tried again later.
FinishRetriesExpiry(t) ==
    /\ Runs
    /\ t \in tasks /\ Finishes(t) /\ t.kind # "recover"
    /\ tasks' = tasks \ {t}
    /\ IF t.at = "lost" /\ t.kind = "expire" /\ t.req \in pending
       THEN Suspend(t.req) ELSE ResolveLocal(t.req)
    /\ Notify(t)
    /\ UNCHANGED <<agent, wire, row, up, intake, recovery, bounds>>

\* The end of decide, on_approval_cancel and _handle_expiry.
Finish(t) ==
    /\ Runs
    /\ t \in tasks /\ Finishes(t) /\ t.kind # "recover"
    /\ tasks' = tasks \ {t}
    /\ ResolveLocal(t.req)
    /\ Notify(t)
    /\ UNCHANGED <<agent, wire, row, up, intake, recovery, bounds>>

-----------------------------------------------------------------------------
(* Crash, restart and recover_pending.                                     *)

Crash ==
    /\ up /\ crashes < MaxCrashes
    /\ up' = FALSE
    /\ pending' = {} /\ timers' = {} /\ tasks' = {}
    /\ intake' = Idle
    /\ recovery' = Recovered
    /\ crashes' = crashes + 1
    /\ UNCHANGED <<agent, wire, row, told, redelivered>>

\* The stream is purged; if that fails, the new consumers get everything.
Boot(purged) ==
    /\ ~up
    /\ purged \/ Failures
    /\ up' = TRUE
    /\ IF purged THEN inbox' = {} /\ delivered' = {} /\ decisions' = {}
       ELSE inbox' = inbox \cup delivered /\ UNCHANGED <<delivered, decisions>>
    /\ recovery' = [Recovered EXCEPT !.at = "booting"]
    /\ UNCHANGED <<agent, row, pending, timers, intake, tasks, told, bounds>>

RecoverLists ==
    /\ up /\ recovery.at = "booting"
    /\ \/ recovery' = [recovery EXCEPT !.at = "listed",
                                       !.rows = {r \in Requests : row[r] = "pending"}]
       \/ Failures /\ recovery' = Recovered
    /\ UNCHANGED <<agent, wire, row, up, pending, timers, intake, tasks, told, bounds>>

RecoverResumes ==
    /\ up /\ recovery.at = "listed"
    /\ recovery' = [recovery EXCEPT !.at = "loop", !.late = recovery.rows \cap past]
    /\ UNCHANGED <<agent, wire, row, up, pending, timers, intake, tasks, told, bounds>>

\* One iteration: skip, expire, or adopt and suspend.
RecoverRow(r) ==
    /\ up /\ recovery.at = "loop" /\ r \in recovery.rows
    /\ \/ /\ r \in pending
          /\ recovery' = [recovery EXCEPT !.rows = @ \ {r}]
          /\ UNCHANGED <<pending, timers, tasks>>
       \/ /\ r \in recovery.late \ pending
          /\ Start(r, "recover", "resolving")
          /\ recovery' = [recovery EXCEPT !.rows = @ \ {r}, !.at = "awaiting"]
          /\ UNCHANGED <<pending, timers>>
       \/ /\ r \notin recovery.late \cup pending
          /\ Suspend(r)
          /\ recovery' = [recovery EXCEPT !.rows = @ \ {r}]
          /\ UNCHANGED tasks
    /\ UNCHANGED <<agent, wire, row, up, intake, told, bounds>>

\* The UPDATE of a late row has returned; _pending is not touched.
RecoverRowExpired(t) ==
    /\ up /\ t \in tasks /\ t.kind = "recover" /\ Finishes(t)
    /\ tasks' = tasks \ {t}
    /\ Notify(t)
    /\ recovery' = [recovery EXCEPT !.at = "loop"]
    /\ UNCHANGED <<agent, wire, row, up, pending, timers, intake, bounds>>

RecoverEnds ==
    /\ up /\ recovery.at = "loop" /\ recovery.rows = {}
    /\ recovery' = Recovered
    /\ UNCHANGED <<agent, wire, row, up, pending, timers, intake, tasks, told, bounds>>

-----------------------------------------------------------------------------

AgentStep(r) ==
    Ask(r) \/ AskFails(r) \/ TimesOut(r) \/ Stopped(r) \/ DeadlinePasses(r)

TaskStep(t) ==
    HandleExpiry(t) \/ ResolveRequest(t) \/ PublishDecision(t) \/ Finish(t)
        \/ RecoverRowExpired(t)

Next ==
    \/ \E r \in Requests :
         \/ AgentStep(r)
         \/ OnApprovalRequest(r)
         \/ \E d \in {"approve", "reject"} : Decide(r, d)
         \/ OnApprovalCancel(r)
         \/ FireExpiry(r)
         \/ RecoverRow(r)
    \/ \E d \in decisions : ResolveDecision(d)
    \/ \E m \in delivered : Redeliver(m)
    \/ \E t \in tasks : TaskStep(t)
    \/ CreateRequest
    \/ RequestCreated
    \/ Crash
    \/ \E purged \in BOOLEAN : Boot(purged)
    \/ RecoverLists
    \/ RecoverResumes
    \/ RecoverEnds

Spec == Init /\ [][Next]_vars

\* Coroutines and database calls come to an end (with a result or an error),
\* deadlines pass, armed timers fire, and the orchestrator is restarted.
Fairness ==
    /\ \A r \in Requests : WF_vars(DeadlinePasses(r)) /\ WF_vars(FireExpiry(r))
    /\ \A i \in Ids : WF_vars(\E t \in tasks : t.id = i /\ TaskStep(t))
    /\ WF_vars(CreateRequest \/ RequestCreated)
    /\ WF_vars(\E purged \in BOOLEAN : Boot(purged))
    /\ WF_vars(\/ RecoverLists \/ RecoverResumes \/ RecoverEnds
               \/ \E r \in Requests : RecoverRow(r))

FairSpec == Spec /\ Fairness

-----------------------------------------------------------------------------
(* Types.                                                                  *)

Statuses == {"none", "pending", "approved", "rejected", "cancelled", "expired"}

Terminal == Statuses \ {"none", "pending"}

TaskType ==
    [id   : Ids,
     req  : Requests,
     kind : {"approve", "reject", "auto", "cancel", "expire", "recover"},
     at   : {"spawned", "resolving", "won", "lost", "relayed"}]

MessageType == [type : {"request", "cancel"}, req : Requests]

\* The tables, the messages and the in-memory state keep their types.
TypeOK ==
    /\ call \in [Requests -> {"idle", "blocked", "ran", "refused"}]
    /\ past \in SUBSET Requests
    /\ inbox \in SUBSET MessageType
    /\ delivered \in SUBSET MessageType
    /\ decisions \in SUBSET [req : Requests, decision : {"approve", "reject"}]
    /\ row \in [Requests -> Statuses]
    /\ up \in BOOLEAN
    /\ pending \in SUBSET Requests
    /\ timers \in SUBSET Requests
    /\ intake \in [req : Requests \cup {NoRequest},
                   at  : {"idle", "creating", "created", "failed"}]
    /\ (intake.at # "idle" => intake.req \in Requests)
    /\ tasks \in SUBSET TaskType
    /\ recovery \in [at   : {"booting", "listed", "loop", "awaiting", "done"},
                     rows : SUBSET Requests,
                     late : SUBSET Requests]
    /\ told \in [Requests -> Seq(Terminal)]
    /\ redelivered \in Nat
    /\ crashes \in Nat

-----------------------------------------------------------------------------
(* Properties.                                                             *)

\* "Running a tool the user never authorised for this round is the failure
\* mode we are guarding against": a tool call runs only if the row says
\* approved, however decisions, cancels, expiry, redelivery and restarts race.
ToolRunsOnlyIfApproved ==
    \A r \in Requests : call[r] = "ran" => row[r] = "approved"

\* The user is told one outcome at most, the one the row has, and never of an
\* approval as if it were a refusal: the losers of the race for the row keep
\* silent.
ToldTheVerdictOnce ==
    \A r \in Requests :
        told[r] # <<>> => told[r] = <<row[r]>> /\ row[r] # "approved"

\* A suspended request has an armed timer, or its expiry is being handled:
\* otherwise the idle reaping of its conversation would stay off for good.
SuspensionIsWatched ==
    \A r \in pending :
        r \in timers \/ \E t \in tasks : t.req = r /\ t.kind = "expire"

\* An armed timer belongs to a suspended request: an entry that was dropped
\* and made again by a redelivered message has one timer, its own.
NoStrayTimer == timers \subseteq pending

\* Every suspension ends, also when the agent is killed, the decision is lost
\* or the database fails.
SuspensionEnds == \A r \in Requests : r \in pending ~> r \notin pending

Contract == INSTANCE ApprovalContract
                WITH Verdicts <- Terminal,
                     verdict  <- row,
                     ran      <- {r \in Requests : call[r] = "ran"}

\* Agent, coordinator and table together implement ApprovalContract: one
\* verdict per request, never changed, and no run without an approval.
RefinesContract == Contract!Spec

=============================================================================
