--------------------------- MODULE ApprovalProofs ---------------------------
(***************************************************************************)
(* What ApprovalCoordinator keeps for any number of requests, coroutines,  *)
(* redeliveries and crashes.                                               *)
(***************************************************************************)
EXTENDS ApprovalCoordinator, TLAPS

Kinds == {"approve", "reject", "auto", "cancel", "expire", "recover"}

RecoveryType ==
    [at   : {"booting", "listed", "loop", "awaiting", "done"},
     rows : SUBSET Requests,
     late : SUBSET Requests]

Phases == {"spawned", "resolving", "won", "lost", "relayed"}

\* Every status a coroutine writes is terminal (decide, on_approval_cancel and
\* _handle_expiry call resolve_request with a terminal status).
LEMMA StatusIsTerminal ==
    \A kind \in Kinds : /\ StatusOf(kind) \in Terminal
                        /\ StatusOf(kind) = "approved" <=> kind = "approve"
BY DEF Kinds, StatusOf, Terminal, Statuses

\* Starting a coroutine adds one well-formed task (ensure_future, or a call).
LEMMA StartAdds ==
    ASSUME NEW r \in Requests, NEW kind \in Kinds, NEW at \in Phases,
           Start(r, kind, at)
    PROVE  \E u \in TaskType : /\ u.req = r /\ u.kind = kind /\ u.at = at
                               /\ tasks' = tasks \cup {u}
<1> DEFINE i == CHOOSE i \in FreeIds : TRUE
<1>1. i \in Ids
  BY DEF Start, FreeIds
<1> DEFINE u == [id |-> i, req |-> r, kind |-> kind, at |-> at]
<1>2. u \in TaskType /\ u.req = r /\ u.kind = kind /\ u.at = at
  BY <1>1 DEF TaskType, Kinds, Phases
<1>3. tasks' = tasks \cup {u}
  BY DEF Start
<1> QED BY <1>2, <1>3

\* A coroutine that goes on keeps its request and its kind.
LEMMA MovedKeeps ==
    ASSUME NEW t \in TaskType, NEW at \in Phases
    PROVE  \E u \in TaskType : /\ u.req = t.req /\ u.kind = t.kind /\ u.at = at
                               /\ Moved(t, at) = (tasks \ {t}) \cup {u}
<1> DEFINE u == [t EXCEPT !.at = at]
<1>1. u \in TaskType /\ u.req = t.req /\ u.kind = t.kind /\ u.at = at
  BY DEF TaskType, Phases
<1> QED BY <1>1 DEF Moved

-----------------------------------------------------------------------------
(* Types.                                                                  *)

\* The coordinator starts with empty maps (__init__) and an empty table.
LEMMA InitType == Init => TypeOK
BY ApprovalAssumptions DEF Init, TypeOK, Idle, Recovered, Statuses

\* A refused call is a call, and its cancel a message.
LEMMA RefuseType ==
    ASSUME TypeOK, NEW r \in Requests, NEW cancelled \in BOOLEAN, Refuse(r, cancelled)
    PROVE  /\ call' \in [Requests -> {"idle", "blocked", "ran", "refused"}]
           /\ inbox' \in SUBSET MessageType
<1>1. Message("cancel", r) \in MessageType
  BY DEF Message, MessageType
<1> QED BY <1>1 DEF Refuse, TypeOK

\* The agent and the broker keep the types.
LEMMA AgentType ==
    ASSUME TypeOK,
           \/ \E r \in Requests : AgentStep(r)
           \/ \E d \in decisions : ResolveDecision(d)
           \/ \E m \in delivered : Redeliver(m)
    PROVE  TypeOK'
<1>1. ASSUME NEW r \in Requests, AgentStep(r) PROVE TypeOK'
  <2>1. CASE Ask(r)
    BY <2>1 DEF Ask, TypeOK, Message, MessageType, memory, bounds
  <2>2. CASE AskFails(r) \/ TimesOut(r) \/ Stopped(r)
    <3>1. /\ call' \in [Requests -> {"idle", "blocked", "ran", "refused"}]
          /\ inbox' \in SUBSET MessageType
      BY <2>2, RefuseType DEF AskFails, TimesOut, Stopped
    <3>2. UNCHANGED <<past, delivered, decisions, row, up, memory, told, bounds>>
      BY <2>2 DEF AskFails, TimesOut, Stopped
    <3> QED BY <3>1, <3>2 DEF TypeOK, memory, bounds
  <2>3. CASE DeadlinePasses(r)
    BY <2>3 DEF DeadlinePasses, TypeOK, wire, memory, bounds
  <2> QED BY <1>1, <2>1, <2>2, <2>3 DEF AgentStep
<1>2. ASSUME NEW d \in decisions, ResolveDecision(d) PROVE TypeOK'
  <2>1. d.req \in Requests
    BY DEF TypeOK
  <2>2. /\ call' \in [Requests -> {"idle", "blocked", "ran", "refused"}]
        /\ inbox' \in SUBSET MessageType
    BY <1>2, <2>1, RefuseType DEF ResolveDecision, TypeOK
  <2> QED BY <1>2, <2>2 DEF ResolveDecision, TypeOK, memory, bounds
<1>3. ASSUME NEW m \in delivered, Redeliver(m) PROVE TypeOK'
  BY <1>3 DEF Redeliver, TypeOK, agent, memory
<1> QED BY <1>1, <1>2, <1>3

\* The handlers of the coordinator keep the types.
LEMMA HandlerType ==
    ASSUME TypeOK, NEW r \in Requests,
           \/ OnApprovalRequest(r) \/ CreateRequest \/ RequestCreated
           \/ \E d \in {"approve", "reject"} : Decide(r, d)
           \/ OnApprovalCancel(r) \/ FireExpiry(r)
    PROVE  TypeOK'
<1>1. CASE OnApprovalRequest(r)
  BY <1>1 DEF OnApprovalRequest, Take, Suspend, TypeOK, Message, MessageType, agent, bounds
<1>2. CASE CreateRequest
  BY <1>2 DEF CreateRequest, TypeOK, Statuses, agent, wire, bounds
<1>3. CASE RequestCreated
  <2>1. tasks' \in SUBSET TaskType
    <3>1. CASE tasks' = tasks
      BY <3>1 DEF TypeOK
    <3>2. CASE intake.at = "created" /\ Start(intake.req, "auto", "resolving")
      BY <3>2, StartAdds DEF TypeOK, Kinds, Phases
    <3> QED BY <1>3, <3>1, <3>2 DEF RequestCreated
  <2> QED BY <1>3, <2>1 DEF RequestCreated, ResolveLocal, Idle, TypeOK, agent, wire, bounds
<1>4. ASSUME NEW d \in {"approve", "reject"}, Decide(r, d) PROVE TypeOK'
  <2>1. tasks' \in SUBSET TaskType
    BY <1>4, StartAdds DEF Decide, TypeOK, Kinds, Phases
  <2> QED BY <1>4, <2>1 DEF Decide, TypeOK, agent, wire, bounds
<1>5. CASE OnApprovalCancel(r)
  <2>1. tasks' \in SUBSET TaskType
    BY <1>5, StartAdds DEF OnApprovalCancel, TypeOK, Kinds, Phases
  <2> QED BY <1>5, <2>1 DEF OnApprovalCancel, Take, TypeOK, agent, bounds
<1>6. CASE FireExpiry(r)
  <2>1. tasks' \in SUBSET TaskType
    BY <1>6, StartAdds DEF FireExpiry, TypeOK, Kinds, Phases
  <2> QED BY <1>6, <2>1 DEF FireExpiry, TypeOK, agent, wire, bounds
<1> QED BY <1>1, <1>2, <1>3, <1>4, <1>5, <1>6

\* notify_hard appends a terminal status.
LEMMA NotifyType ==
    ASSUME TypeOK, NEW t \in tasks, Notify(t)
    PROVE  told' \in [Requests -> Seq(Terminal)]
<1>1. t.req \in Requests /\ StatusOf(t.kind) \in Terminal
  BY StatusIsTerminal DEF TypeOK, TaskType, Kinds
<1>2. Append(told[t.req], StatusOf(t.kind)) \in Seq(Terminal)
  BY <1>1 DEF TypeOK
<1> QED BY <1>1, <1>2 DEF Notify, TypeOK

\* The coroutines that resolve a request keep the types.
LEMMA TaskStepType ==
    ASSUME TypeOK, NEW t \in tasks, TaskStep(t)
    PROVE  TypeOK'
<1>0. t \in TaskType /\ t.req \in Requests /\ t.kind \in Kinds
  BY DEF TypeOK, TaskType, Kinds
<1>1. CASE HandleExpiry(t)
  <2>1. [t EXCEPT !.at = "resolving"] \in TaskType
    BY <1>0 DEF TaskType
  <2>2. tasks' \in SUBSET TaskType
    BY <1>1, <2>1 DEF HandleExpiry, TypeOK
  <2> QED BY <1>1, <2>2 DEF HandleExpiry, TypeOK, agent, wire, bounds
<1>2. CASE ResolveRequest(t)
  <2>1. tasks' \in SUBSET TaskType
    <3>1. Moved(t, "won") \in SUBSET TaskType /\ Moved(t, "lost") \in SUBSET TaskType
      <4>1. ASSUME NEW at \in Phases PROVE Moved(t, at) \in SUBSET TaskType
        <5>1. PICK u \in TaskType : Moved(t, at) = (tasks \ {t}) \cup {u}
          BY <1>0, MovedKeeps
        <5> QED BY <5>1 DEF TypeOK
      <4> QED BY <4>1 DEF Phases
    <3> QED BY <1>2, <3>1 DEF ResolveRequest
  <2>2. row' \in [Requests -> Statuses]
    BY <1>0, <1>2, StatusIsTerminal DEF ResolveRequest, TypeOK, Terminal
  <2> QED BY <1>2, <2>1, <2>2 DEF ResolveRequest, TypeOK, agent, wire, bounds
<1>3. CASE PublishDecision(t)
  <2>1. tasks' \in SUBSET TaskType
    BY <1>0, <1>3, MovedKeeps DEF PublishDecision, TypeOK, Phases
  <2>2. decisions' \in SUBSET [req : Requests, decision : {"approve", "reject"}]
    <3>1. [req |-> t.req, decision |-> Decision(t.kind)]
            \in [req : Requests, decision : {"approve", "reject"}]
      BY <1>0 DEF Decision
    <3> QED BY <1>3, <3>1 DEF PublishDecision, TypeOK
  <2> QED BY <1>3, <2>1, <2>2 DEF PublishDecision, TypeOK, agent, bounds
<1>4. CASE Finish(t)
  <2>1. told' \in [Requests -> Seq(Terminal)]
    BY <1>4, NotifyType DEF Finish
  <2> QED BY <1>4, <2>1 DEF Finish, ResolveLocal, TypeOK, agent, wire, bounds
<1>5. CASE RecoverRowExpired(t)
  <2>1. told' \in [Requests -> Seq(Terminal)]
    BY <1>5, NotifyType DEF RecoverRowExpired
  <2> QED BY <1>5, <2>1 DEF RecoverRowExpired, TypeOK, agent, wire, bounds
<1> QED BY <1>1, <1>2, <1>3, <1>4, <1>5 DEF TaskStep

\* Crash, restart and recovery keep the types.
LEMMA RestartType ==
    ASSUME TypeOK,
           \/ Crash \/ RecoverLists \/ RecoverResumes \/ RecoverEnds
           \/ \E purged \in BOOLEAN : Boot(purged)
           \/ \E r \in Requests : RecoverRow(r)
    PROVE  TypeOK'
<1>1. CASE Crash
  <2>1. recovery' = [at |-> "done", rows |-> {}, late |-> {}]
    BY <1>1 DEF Crash, Recovered
  <2>2. intake' = [req |-> NoRequest, at |-> "idle"]
    BY <1>1 DEF Crash, Idle
  <2>3. crashes' = crashes + 1 /\ crashes \in Nat
    BY <1>1 DEF Crash, TypeOK
  <2>4. crashes' \in Nat
    BY <2>3
  <2>5. /\ up' = FALSE /\ pending' = {} /\ timers' = {} /\ tasks' = {}
        /\ UNCHANGED <<agent, wire, row, told, redelivered>>
    BY <1>1 DEF Crash
  <2> QED BY <2>1, <2>2, <2>4, <2>5 DEF TypeOK, agent, wire
<1>2. CASE RecoverLists
  <2>1. recovery' \in RecoveryType
    <3>1. CASE recovery' = Recovered
      BY <3>1 DEF Recovered, RecoveryType
    <3> DEFINE found == {r \in Requests : row[r] = "pending"}
    <3>2. CASE recovery' = [recovery EXCEPT !.at = "listed", !.rows = found]
      <4>1. found \in SUBSET Requests
        OBVIOUS
      <4>2. recovery \in RecoveryType
        BY DEF TypeOK, RecoveryType
      <4> HIDE DEF found
      <4> QED BY <3>2, <4>1, <4>2 DEF RecoveryType
    <3> QED BY <1>2, <3>1, <3>2 DEF RecoverLists
  <2> QED BY <1>2, <2>1 DEF RecoverLists, RecoveryType, TypeOK, agent, wire, bounds
<1>3. CASE RecoverResumes
  <2>1. recovery' \in RecoveryType
    BY <1>3 DEF RecoverResumes, TypeOK, RecoveryType
  <2> QED BY <1>3, <2>1 DEF RecoverResumes, RecoveryType, TypeOK, agent, wire, bounds
<1>4. CASE RecoverEnds
  BY <1>4 DEF RecoverEnds, Recovered, TypeOK, agent, wire, bounds
<1>5. ASSUME NEW purged \in BOOLEAN, Boot(purged) PROVE TypeOK'
  <2>1. recovery' = [at |-> "booting", rows |-> {}, late |-> {}]
    BY <1>5 DEF Boot, Recovered
  <2>2. inbox' \in SUBSET MessageType /\ delivered' \in SUBSET MessageType
    BY <1>5 DEF Boot, TypeOK
  <2>3. decisions' = {} \/ decisions' = decisions
    BY <1>5 DEF Boot
  <2>4. up' = TRUE /\ UNCHANGED <<agent, row, pending, timers, intake, tasks, told, bounds>>
    BY <1>5 DEF Boot
  <2> QED BY <2>1, <2>2, <2>3, <2>4 DEF TypeOK, agent, bounds
<1>6. ASSUME NEW r \in Requests, RecoverRow(r) PROVE TypeOK'
  <2>1. tasks' \in SUBSET TaskType
    <3>1. CASE tasks' = tasks
      BY <3>1 DEF TypeOK
    <3>2. CASE Start(r, "recover", "resolving")
      BY <3>2, StartAdds DEF TypeOK, Kinds, Phases
    <3> QED BY <1>6, <3>1, <3>2 DEF RecoverRow
  <2>2. recovery' \in RecoveryType
    <3>1. recovery \in RecoveryType
      BY DEF TypeOK, RecoveryType
    <3>2. \/ recovery' = [recovery EXCEPT !.rows = @ \ {r}]
          \/ recovery' = [recovery EXCEPT !.rows = @ \ {r}, !.at = "awaiting"]
      BY <1>6 DEF RecoverRow
    <3> QED BY <3>1, <3>2 DEF RecoveryType
  <2>3. pending' \in SUBSET Requests /\ timers' \in SUBSET Requests
    <3>1. \/ pending' = pending /\ timers' = timers
          \/ pending' = pending \cup {r} /\ timers' = timers \cup {r}
      BY <1>6 DEF RecoverRow, Suspend
    <3> QED BY <3>1 DEF TypeOK
  <2> QED BY <1>6, <2>1, <2>2, <2>3
          DEF RecoverRow, RecoveryType, TypeOK, agent, wire, bounds
<1> QED BY <1>1, <1>2, <1>3, <1>4, <1>5, <1>6

\* No step breaks a type.
LEMMA NextType == TypeOK /\ [Next]_vars => TypeOK'
<1> SUFFICES ASSUME TypeOK, [Next]_vars
             PROVE  TypeOK'
  OBVIOUS
<1>1. CASE UNCHANGED vars
  BY <1>1 DEF vars, agent, wire, memory, bounds, TypeOK
<1>2. CASE Next
  <2>1. ASSUME CreateRequest \/ RequestCreated PROVE TypeOK'
    <3>1. PICK r \in Requests : intake.req = r
      BY <2>1 DEF CreateRequest, RequestCreated, TypeOK
    <3> QED BY <2>1, HandlerType, <3>1
  <2> QED BY <1>2, <2>1, AgentType, HandlerType, TaskStepType, RestartType DEF Next
<1> QED BY <1>1, <1>2

\* The approval tables, messages and in-memory maps keep their types.
THEOREM ApprovalTypeCorrect == Spec => []TypeOK
BY InitType, NextType, PTL DEF Spec

-----------------------------------------------------------------------------
(* The race for the row.  A coroutine whose UPDATE hit the row is its       *)
(* winner until it has published and notified.                             *)

Winner(t) == t.at \in {"won", "relayed"}

\* What a step can do to the rows, the winners and the notifications: nothing
\* but open a row; settle a row, which makes a winner unless the answer of the
\* database is lost; publish for a winner; or end a coroutine, which notifies
\* if it is a winner.
Quiet ==
    /\ \/ row' = row
       \/ \E r \in Requests : row[r] = "none" /\ row' = [row EXCEPT ![r] = "pending"]
    /\ told' = told
    /\ \A u \in tasks' : u \in tasks \/ ~Winner(u)

Wins(t, u) ==
    /\ row[t.req] = "pending"
    /\ row' = [row EXCEPT ![t.req] = StatusOf(t.kind)]
    /\ told' = told
    /\ u.req = t.req /\ u.kind = t.kind /\ u.at \in {"won", "lost"}
    /\ tasks' = (tasks \ {t}) \cup {u}

Publishes(t, u) ==
    /\ Winner(t)
    /\ row' = row /\ told' = told
    /\ u.req = t.req /\ u.kind = t.kind /\ u.at = "relayed"
    /\ tasks' = (tasks \ {t}) \cup {u}

Ends(t) ==
    /\ Winner(t) \/ t.at = "lost"
    /\ row' = row
    /\ Notify(t)
    /\ tasks' = tasks \ {t}

\* Every step has one of the four shapes.
LEMMA StepShape ==
    ASSUME TypeOK, Next
    PROVE  \/ Quiet
           \/ \E t \in tasks, u \in TaskType : Wins(t, u) \/ Publishes(t, u)
           \/ \E t \in tasks : Ends(t)
<1>1. ASSUME NEW r \in Requests, AgentStep(r) PROVE Quiet
  BY <1>1 DEF AgentStep, Ask, AskFails, TimesOut, Stopped, DeadlinePasses, memory, Quiet
<1>2. ASSUME NEW d \in decisions, ResolveDecision(d) PROVE Quiet
  BY <1>2 DEF ResolveDecision, memory, Quiet
<1>3. ASSUME NEW m \in delivered, Redeliver(m) PROVE Quiet
  BY <1>3 DEF Redeliver, memory, Quiet
<1>4. ASSUME NEW r \in Requests, OnApprovalRequest(r) PROVE Quiet
  BY <1>4 DEF OnApprovalRequest, Quiet
<1>5. ASSUME NEW r \in Requests, NEW d \in {"approve", "reject"}, Decide(r, d)
      PROVE  Quiet
  BY <1>5, StartAdds DEF Decide, Quiet, Winner, Kinds, Phases
<1>6. ASSUME NEW r \in Requests, OnApprovalCancel(r) PROVE Quiet
  BY <1>6, StartAdds DEF OnApprovalCancel, Quiet, Winner, Kinds, Phases
<1>7. ASSUME NEW r \in Requests, FireExpiry(r) PROVE Quiet
  BY <1>7, StartAdds DEF FireExpiry, Quiet, Winner, Kinds, Phases
<1>8. ASSUME NEW r \in Requests, RecoverRow(r) PROVE Quiet
  BY <1>8, StartAdds DEF RecoverRow, Quiet, Winner, Kinds, Phases
<1>9. CASE CreateRequest
  BY <1>9 DEF CreateRequest, Quiet, TypeOK
<1>10. CASE RequestCreated
  BY <1>10, StartAdds DEF RequestCreated, Quiet, Winner, Kinds, Phases, TypeOK
<1>11. CASE Crash
  BY <1>11 DEF Crash, Quiet
<1>12. ASSUME NEW purged \in BOOLEAN, Boot(purged) PROVE Quiet
  BY <1>12 DEF Boot, Quiet
<1>13. CASE RecoverLists \/ RecoverResumes \/ RecoverEnds
  BY <1>13 DEF RecoverLists, RecoverResumes, RecoverEnds, Quiet
<1>14. ASSUME NEW t \in tasks, TaskStep(t)
       PROVE  \/ Quiet
              \/ \E u \in TaskType : Wins(t, u) \/ Publishes(t, u)
              \/ Ends(t)
  <2>0. t \in TaskType
    BY DEF TypeOK
  <2>1. CASE HandleExpiry(t)
    <3>1. [t EXCEPT !.at = "resolving"].at = "resolving"
      BY <2>0 DEF TaskType
    <3> QED BY <2>1, <3>1 DEF HandleExpiry, Quiet, Winner
  <2>2. CASE ResolveRequest(t)
    <3>1. PICK u \in TaskType : /\ u.req = t.req /\ u.kind = t.kind /\ u.at = "won"
                                /\ Moved(t, "won") = (tasks \ {t}) \cup {u}
      BY <2>0, MovedKeeps DEF Phases
    <3>2. PICK v \in TaskType : /\ v.req = t.req /\ v.kind = t.kind /\ v.at = "lost"
                                /\ Moved(t, "lost") = (tasks \ {t}) \cup {v}
      BY <2>0, MovedKeeps DEF Phases
    <3> QED BY <2>2, <3>1, <3>2 DEF ResolveRequest, Wins, Quiet, Winner
  <2>3. CASE PublishDecision(t)
    <3>1. PICK u \in TaskType : /\ u.req = t.req /\ u.kind = t.kind /\ u.at = "relayed"
                                /\ Moved(t, "relayed") = (tasks \ {t}) \cup {u}
      BY <2>0, MovedKeeps DEF Phases
    <3> QED BY <2>3, <3>1 DEF PublishDecision, Publishes, Winner
  <2>4. CASE Finish(t)
    BY <2>4 DEF Finish, Finishes, Ends, Winner
  <2>5. CASE RecoverRowExpired(t)
    BY <2>5 DEF RecoverRowExpired, Finishes, Ends, Winner
  <2> QED BY <1>14, <2>1, <2>2, <2>3, <2>4, <2>5 DEF TaskStep
<1> QED BY <1>1, <1>2, <1>3, <1>4, <1>5, <1>6, <1>7, <1>8, <1>9, <1>10, <1>11,
           <1>12, <1>13, <1>14 DEF Next

\* A row that is settled stays as it is, and a winner has written its row.
WinnersWrote == \A t \in tasks : Winner(t) => row[t.req] = StatusOf(t.kind)

Told ==
    /\ \A r \in Requests :
         told[r] # <<>> => told[r] = <<row[r]>> /\ row[r] \in Terminal \ {"approved"}
    /\ \A t \in tasks : Winner(t) => told[t.req] = <<>>
    /\ \A t, u \in tasks : Winner(t) /\ Winner(u) /\ t.req = u.req => t = u

\* Settled rows are final (UPDATE ... WHERE status = 'pending').
LEMMA RowsAreFinal ==
    ASSUME TypeOK, Next, NEW r \in Requests, row[r] \in Terminal
    PROVE  row'[r] = row[r]
BY StepShape DEF Quiet, Wins, Publishes, Ends, TypeOK, Terminal, Statuses

\* A coroutine goes past resolve_approval_request as the winner only when its
\* UPDATE hit the row, and the row keeps what it wrote.
LEMMA WinnersStep ==
    ASSUME TypeOK, WinnersWrote, Next
    PROVE  WinnersWrote'
<1> SUFFICES ASSUME NEW v \in tasks', Winner(v)
             PROVE  row'[v.req] = StatusOf(v.kind)
  BY DEF WinnersWrote, Winner
<1>1. ASSUME NEW t \in tasks, Winner(t)
      PROVE  row'[t.req] = StatusOf(t.kind)
  <2>1. t.req \in Requests /\ t.kind \in Kinds
    BY DEF TypeOK, TaskType, Kinds
  <2> QED BY <1>1, <2>1, RowsAreFinal, StatusIsTerminal DEF WinnersWrote
<1>2. CASE Quiet
  BY <1>1, <1>2 DEF Quiet
<1>3. ASSUME NEW t \in tasks, NEW u \in TaskType, Wins(t, u)
      PROVE  row'[v.req] = StatusOf(v.kind)
  <2>1. t.req \in Requests
    BY DEF TypeOK, TaskType
  <2> QED BY <1>1, <1>3, <2>1 DEF Wins, TypeOK
<1>4. ASSUME NEW t \in tasks, NEW u \in TaskType, Publishes(t, u)
      PROVE  row'[v.req] = StatusOf(v.kind)
  BY <1>1, <1>4 DEF Publishes
<1>5. ASSUME NEW t \in tasks, Ends(t)
      PROVE  row'[v.req] = StatusOf(v.kind)
  BY <1>1, <1>5 DEF Ends
<1> QED BY <1>2, <1>3, <1>4, <1>5, StepShape

\* The winner is alone, and nobody was told before it: a second winner would
\* have found the row settled.
LEMMA ToldStep ==
    ASSUME TypeOK, WinnersWrote, Told, Next
    PROVE  Told'
<1>0. \A t \in tasks : t.req \in Requests /\ t.kind \in Kinds
  BY DEF TypeOK, TaskType, Kinds
<1>1. \A r \in Requests : row[r] \in Terminal => row'[r] = row[r]
  BY RowsAreFinal
<1>2. CASE Quiet
  <2>1. \A r \in Requests : told'[r] # <<>> => /\ told'[r] = <<row'[r]>>
                                               /\ row'[r] \in Terminal \ {"approved"}
    BY <1>1, <1>2 DEF Quiet, Told
  <2>2. \A t \in tasks' : Winner(t) => t \in tasks /\ told'[t.req] = <<>>
    BY <1>2 DEF Quiet, Told
  <2>3. \A t, u \in tasks' : Winner(t) /\ Winner(u) /\ t.req = u.req => t = u
    BY <2>2 DEF Told
  <2> QED BY <2>1, <2>2, <2>3 DEF Told, Winner
<1>3. ASSUME NEW t \in tasks, NEW u \in TaskType, Wins(t, u) PROVE Told'
  <2>1. row[t.req] = "pending" /\ row[t.req] \notin Terminal
    BY <1>3 DEF Wins, Terminal
  <2>2. told' = told /\ told[t.req] = <<>>
    BY <1>0, <1>3, <2>1 DEF Wins, Told
  <2>3. \A v \in tasks : Winner(v) => v.req # t.req
    BY <1>0, <2>1, StatusIsTerminal DEF WinnersWrote
  <2>4. tasks' = (tasks \ {t}) \cup {u} /\ u.req = t.req
    BY <1>3 DEF Wins
  <2>5. \A r \in Requests : told'[r] # <<>> => /\ told'[r] = <<row'[r]>>
                                               /\ row'[r] \in Terminal \ {"approved"}
    BY <1>1, <2>2 DEF Told
  <2>6. \A v \in tasks' : Winner(v) => told'[v.req] = <<>>
    BY <2>2, <2>4 DEF Told
  <2>7. \A v, w \in tasks' : Winner(v) /\ Winner(w) /\ v.req = w.req => v = w
    BY <2>3, <2>4 DEF Told
  <2> QED BY <2>5, <2>6, <2>7 DEF Told, Winner
<1>4. ASSUME NEW t \in tasks, NEW u \in TaskType, Publishes(t, u) PROVE Told'
  <2>1. Winner(t) /\ told' = told /\ row' = row
        /\ tasks' = (tasks \ {t}) \cup {u} /\ u.req = t.req
    BY <1>4 DEF Publishes
  <2>2. \A v \in tasks' : Winner(v) => told'[v.req] = <<>>
    BY <2>1 DEF Told
  <2>3. \A v, w \in tasks' : Winner(v) /\ Winner(w) /\ v.req = w.req => v = w
    BY <2>1 DEF Told
  <2> QED BY <2>1, <2>2, <2>3 DEF Told, Winner
<1>5. ASSUME NEW t \in tasks, Ends(t) PROVE Told'
  <2>1. row' = row /\ tasks' = tasks \ {t}
    BY <1>5 DEF Ends
  <2>2. CASE told' = told
    BY <2>1, <2>2 DEF Told, Winner
  <2>3. CASE told' # told
    <3>1. /\ Winner(t) /\ t.kind # "approve"
          /\ told' = [told EXCEPT ![t.req] = Append(@, StatusOf(t.kind))]
      BY <1>5, <2>3 DEF Ends, Notify, Winner
    <3>2. told[t.req] = <<>> /\ row[t.req] = StatusOf(t.kind)
      BY <3>1 DEF Told, WinnersWrote
    <3>3. row[t.req] \in Terminal \ {"approved"}
      BY <1>0, <3>1, <3>2, StatusIsTerminal
    <3>4. told' = [told EXCEPT ![t.req] = <<row[t.req]>>]
      <4>1. Append(<<>>, row[t.req]) = <<row[t.req]>>
        OBVIOUS
      <4> QED BY <3>1, <3>2, <4>1
    <3>5. \A v \in tasks' : Winner(v) => v.req # t.req
      BY <2>1, <3>1 DEF Told
    <3>6. \A r \in Requests : told'[r] = IF r = t.req THEN <<row[r]>> ELSE told[r]
      BY <3>4 DEF TypeOK
    <3>7. \A r \in Requests : told'[r] # <<>> => /\ told'[r] = <<row'[r]>>
                                                 /\ row'[r] \in Terminal \ {"approved"}
      BY <2>1, <3>3, <3>6 DEF Told
    <3>8. \A v \in tasks' : Winner(v) => told'[v.req] = <<>>
      BY <1>0, <2>1, <3>5, <3>6 DEF Told
    <3>9. \A v, w \in tasks' : Winner(v) /\ Winner(w) /\ v.req = w.req => v = w
      BY <2>1 DEF Told
    <3> QED BY <3>7, <3>8, <3>9 DEF Told, Winner
  <2> QED BY <2>2, <2>3
<1> QED BY <1>2, <1>3, <1>4, <1>5, StepShape

-----------------------------------------------------------------------------
(* From the row to the tool call.                                          *)

\* The word "approve" is on its way, or was heeded, only after the row was
\* approved.
Approvals ==
    /\ \A r \in Requests : call[r] = "ran" => row[r] = "approved"
    /\ \A d \in decisions : d.decision = "approve" => row[d.req] = "approved"

\* An approval is published only by the winner that approved the row.
LEMMA DecisionShape ==
    ASSUME TypeOK, Next, NEW d \in decisions'
    PROVE  \/ d \in decisions \/ d.decision = "reject"
           \/ \E t \in tasks : Winner(t) /\ t.kind = "approve" /\ d.req = t.req
<1>1. CASE \E r \in Requests : AgentStep(r)
  BY <1>1 DEF AgentStep, Ask, AskFails, TimesOut, Stopped, DeadlinePasses, wire
<1>2. CASE \E e \in decisions : ResolveDecision(e)
  BY <1>2 DEF ResolveDecision
<1>3. CASE \E m \in delivered : Redeliver(m)
  BY <1>3 DEF Redeliver
<1>4. CASE \E r \in Requests : OnApprovalRequest(r)
  BY <1>4 DEF OnApprovalRequest
<1>5. CASE \E r \in Requests : \/ \E e \in {"approve", "reject"} : Decide(r, e)
                               \/ OnApprovalCancel(r) \/ FireExpiry(r) \/ RecoverRow(r)
  BY <1>5 DEF Decide, OnApprovalCancel, FireExpiry, RecoverRow, wire
<1>6. CASE \/ CreateRequest \/ RequestCreated \/ Crash
           \/ RecoverLists \/ RecoverResumes \/ RecoverEnds
  BY <1>6 DEF CreateRequest, RequestCreated, Crash, RecoverLists, RecoverResumes,
              RecoverEnds, wire
<1>7. CASE \E purged \in BOOLEAN : Boot(purged)
  BY <1>7 DEF Boot
<1>8. ASSUME NEW t \in tasks, TaskStep(t)
      PROVE  \/ d \in decisions \/ d.decision = "reject"
             \/ Winner(t) /\ t.kind = "approve" /\ d.req = t.req
  <2>1. CASE PublishDecision(t)
    BY <2>1 DEF PublishDecision, Decision, Winner
  <2>2. CASE HandleExpiry(t) \/ ResolveRequest(t) \/ Finish(t) \/ RecoverRowExpired(t)
    BY <2>2 DEF HandleExpiry, ResolveRequest, Finish, RecoverRowExpired, wire
  <2> QED BY <1>8, <2>1, <2>2 DEF TaskStep
<1> QED BY <1>1, <1>2, <1>3, <1>4, <1>5, <1>6, <1>7, <1>8 DEF Next

\* What a step can do to the tool calls: nothing as far as the ones that ran
\* are concerned, or run one that heeds an approval.  Then the rows are kept.
LEMMA CallShape ==
    ASSUME TypeOK, Next
    PROVE  \/ \A r \in Requests : call'[r] = "ran" <=> call[r] = "ran"
           \/ /\ row' = row
              /\ \E d \in decisions :
                    /\ d.decision = "approve" /\ d.req \in Requests
                    /\ call[d.req] = "blocked"
                    /\ call' = [call EXCEPT ![d.req] = "ran"]
<1>1. ASSUME NEW r \in Requests, AgentStep(r)
      PROVE  \A q \in Requests : call'[q] = "ran" <=> call[q] = "ran"
  BY <1>1 DEF AgentStep, Ask, AskFails, TimesOut, Stopped, DeadlinePasses, Refuse, TypeOK
<1>2. ASSUME NEW d \in decisions, ResolveDecision(d)
      PROVE  \/ \A q \in Requests : call'[q] = "ran" <=> call[q] = "ran"
             \/ /\ row' = row
                /\ d.decision = "approve" /\ d.req \in Requests
                /\ call[d.req] = "blocked"
                /\ call' = [call EXCEPT ![d.req] = "ran"]
  <2>1. d.req \in Requests
    BY DEF TypeOK
  <2>2. row' = row
    BY <1>2 DEF ResolveDecision
  <2> QED BY <1>2, <2>1, <2>2 DEF ResolveDecision, Refuse, TypeOK
<1>3. ASSUME \/ \E m \in delivered : Redeliver(m)
             \/ \E r \in Requests :
                  \/ OnApprovalRequest(r) \/ OnApprovalCancel(r)
                  \/ \E d \in {"approve", "reject"} : Decide(r, d)
                  \/ FireExpiry(r) \/ RecoverRow(r)
             \/ CreateRequest \/ RequestCreated \/ Crash
             \/ \E purged \in BOOLEAN : Boot(purged)
             \/ RecoverLists \/ RecoverResumes \/ RecoverEnds
      PROVE  call' = call
  BY <1>3 DEF Redeliver, OnApprovalRequest, OnApprovalCancel, Decide, FireExpiry,
              RecoverRow, CreateRequest, RequestCreated, Crash, Boot, RecoverLists,
              RecoverResumes, RecoverEnds, agent
<1>4. ASSUME NEW t \in tasks, TaskStep(t) PROVE call' = call
  BY <1>4 DEF TaskStep, HandleExpiry, ResolveRequest, PublishDecision, Finish,
              RecoverRowExpired, agent
<1> QED BY <1>1, <1>2, <1>3, <1>4 DEF Next

\* An approval that is under way, or was heeded, stays backed by its row.
LEMMA ApprovalsStep ==
    ASSUME TypeOK, WinnersWrote, Approvals, Next
    PROVE  Approvals'
<1>1. \A r \in Requests : row[r] = "approved" => row'[r] = "approved"
  BY RowsAreFinal DEF Terminal, Statuses
<1>2. ASSUME NEW d \in decisions', d.decision = "approve"
      PROVE  row'[d.req] = "approved"
  <2>1. CASE d \in decisions
    BY <1>1, <1>2, <2>1 DEF Approvals, TypeOK
  <2>2. ASSUME NEW t \in tasks, Winner(t), t.kind = "approve", d.req = t.req
        PROVE  row'[d.req] = "approved"
    <3>1. t.req \in Requests
      BY DEF TypeOK, TaskType
    <3>2. row[t.req] = "approved"
      BY <2>2 DEF WinnersWrote, StatusOf
    <3> QED BY <1>1, <2>2, <3>1, <3>2
  <2> QED BY <1>2, <2>1, <2>2, DecisionShape
<1>3. ASSUME NEW r \in Requests, call'[r] = "ran"
      PROVE  row'[r] = "approved"
  <2>1. CASE call[r] = "ran"
    BY <1>1, <2>1 DEF Approvals
  <2>2. ASSUME NEW d \in decisions, d.decision = "approve", d.req \in Requests,
               call' = [call EXCEPT ![d.req] = "ran"], call[r] # "ran"
        PROVE  row'[r] = "approved"
    <3>1. d.req = r
      BY <1>3, <2>2 DEF TypeOK
    <3> QED BY <1>1, <2>2, <3>1 DEF Approvals
  <2> QED BY <1>3, <2>1, <2>2, CallShape
<1> QED BY <1>2, <1>3 DEF Approvals

-----------------------------------------------------------------------------
(* The contract.                                                           *)

\* A step changes one row at most, and only opens or settles it.
LEMMA RowShape ==
    ASSUME TypeOK, Next
    PROVE  \/ row' = row
           \/ \E r \in Requests :
                /\ row[r] = "none" /\ row' = [row EXCEPT ![r] = "pending"]
           \/ \E r \in Requests, v \in Terminal :
                /\ row[r] = "pending" /\ row' = [row EXCEPT ![r] = v]
<1>1. ASSUME NEW t \in tasks, NEW u \in TaskType, Wins(t, u)
      PROVE  \E r \in Requests, v \in Terminal :
                row[r] = "pending" /\ row' = [row EXCEPT ![r] = v]
  <2>1. t.req \in Requests /\ StatusOf(t.kind) \in Terminal
    BY StatusIsTerminal DEF TypeOK, TaskType, Kinds
  <2> QED BY <1>1, <2>1 DEF Wins
<1> QED BY <1>1, StepShape DEF Quiet, Publishes, Ends

\* Every step of the system is a step of the contract or changes neither the
\* verdicts nor the set of calls that ran.
LEMMA ContractStep ==
    ASSUME TypeOK, Approvals, [Next]_vars
    PROVE  [Contract!Next]_<<row, {r \in Requests : call[r] = "ran"}>>
<1> DEFINE ran == {r \in Requests : call[r] = "ran"}
<1>1. CASE UNCHANGED vars
  BY <1>1 DEF vars, agent
<1>2. CASE Next /\ \A r \in Requests : call'[r] = "ran" <=> call[r] = "ran"
  <2>1. ran' = ran
    BY <1>2
  <2>2. CASE row' = row
    BY <2>1, <2>2
  <2>3. ASSUME NEW r \in Requests, row[r] = "none", row' = [row EXCEPT ![r] = "pending"]
        PROVE  Contract!Next
    BY <2>1, <2>3 DEF Contract!Next, Contract!Open
  <2>4. ASSUME NEW r \in Requests, NEW v \in Terminal, row[r] = "pending",
               row' = [row EXCEPT ![r] = v]
        PROVE  Contract!Next
    BY <2>1, <2>4 DEF Contract!Next, Contract!Settle
  <2> QED BY <1>2, <2>2, <2>3, <2>4, <2>1, RowShape
<1>3. ASSUME row' = row, NEW d \in decisions, d.decision = "approve", d.req \in Requests,
             call[d.req] = "blocked", call' = [call EXCEPT ![d.req] = "ran"]
      PROVE  Contract!Next
  <2>1. row[d.req] = "approved"
    BY <1>3 DEF Approvals
  <2>2. d.req \notin ran
    BY <1>3
  <2>3. ran' = ran \cup {d.req}
    BY <1>3 DEF TypeOK
  <2> QED BY <1>3, <2>1, <2>2, <2>3 DEF Contract!Next, Contract!Run
<1> QED BY <1>1, <1>2, <1>3, CallShape

-----------------------------------------------------------------------------
(* Suspensions.                                                            *)

\* What a step can do to the suspensions: keep or drop one with its timer
\* (all of them in a crash), make one with its timer, or turn a timer into an
\* expiry.  A coroutine that expires a request ends only with the suspension.
WatchKept ==
    \A t \in tasks : t.kind = "expire" /\ t.req \in pending' =>
        \E u \in tasks' : u.req = t.req /\ u.kind = "expire"

WatchShape ==
    \/ pending' = {} /\ timers' = {}
    \/ /\ WatchKept
       /\ \/ pending' = pending /\ timers' = timers
          \/ \E r \in Requests : ResolveLocal(r)
          \/ \E r \in Requests : Suspend(r)
          \/ \E r \in Requests :
               /\ pending' = pending /\ timers' = timers \ {r}
               /\ \E u \in tasks' : u.req = r /\ u.kind = "expire"

\* Every step has that shape.
LEMMA StepWatches ==
    ASSUME TypeOK, Next
    PROVE  WatchShape
<1>1. ASSUME \/ \E r \in Requests : AgentStep(r)
             \/ \E d \in decisions : ResolveDecision(d)
             \/ \E m \in delivered : Redeliver(m)
      PROVE  WatchShape
  <2>1. UNCHANGED memory
    BY <1>1 DEF AgentStep, Ask, AskFails, TimesOut, Stopped, DeadlinePasses,
                ResolveDecision, Redeliver
  <2> QED BY <2>1 DEF memory, WatchShape, WatchKept
<1>2. ASSUME \/ CreateRequest \/ RecoverLists \/ RecoverResumes \/ RecoverEnds
             \/ \E purged \in BOOLEAN : Boot(purged)
      PROVE  WatchShape
  <2>1. UNCHANGED <<pending, timers, tasks>>
    BY <1>2 DEF CreateRequest, RecoverLists, RecoverResumes, RecoverEnds, Boot
  <2> QED BY <2>1 DEF WatchShape, WatchKept
<1>3. CASE Crash
  BY <1>3 DEF Crash, WatchShape
<1>4. ASSUME NEW r \in Requests,
             \/ OnApprovalRequest(r) \/ OnApprovalCancel(r)
             \/ \E d \in {"approve", "reject"} : Decide(r, d)
             \/ RecoverRow(r)
      PROVE  WatchShape
  <2>1. tasks \subseteq tasks'
    BY <1>4 DEF OnApprovalRequest, OnApprovalCancel, Decide, RecoverRow, Start
  <2>2. (pending' = pending /\ timers' = timers) \/ Suspend(r)
    BY <1>4 DEF OnApprovalRequest, OnApprovalCancel, Decide, RecoverRow
  <2> QED BY <2>1, <2>2 DEF WatchShape, WatchKept
<1>5. CASE RequestCreated
  <2>1. tasks \subseteq tasks'
    BY <1>5 DEF RequestCreated, Start
  <2>2. \/ pending' = pending /\ timers' = timers
        \/ intake.at = "failed" /\ ResolveLocal(intake.req)
    BY <1>5 DEF RequestCreated
  <2>3. intake.at = "failed" => intake.req \in Requests
    BY DEF TypeOK
  <2> QED BY <2>1, <2>2, <2>3 DEF WatchShape, WatchKept
<1>6. ASSUME NEW r \in Requests, FireExpiry(r) PROVE WatchShape
  <2>1. PICK u \in TaskType : u.req = r /\ u.kind = "expire" /\ tasks' = tasks \cup {u}
    BY <1>6, StartAdds DEF FireExpiry, Kinds, Phases
  <2>2. pending' = pending /\ timers' = timers \ {r}
    BY <1>6 DEF FireExpiry
  <2> QED BY <2>1, <2>2 DEF WatchShape, WatchKept
<1>7. ASSUME NEW t \in tasks, TaskStep(t) PROVE WatchShape
  <2>0. t \in TaskType /\ t.req \in Requests
    BY DEF TypeOK, TaskType
  <2>1. CASE HandleExpiry(t)
    <3>1. pending' = pending /\ timers' = timers
      BY <2>1 DEF HandleExpiry
    <3> DEFINE u == [t EXCEPT !.at = "resolving"]
    <3>2. u.req = t.req /\ u.kind = t.kind
      BY <2>0 DEF TaskType
    <3>3. /\ \A v \in tasks \ {t} : v \in tasks'
          /\ t.req \in pending => u \in tasks'
      BY <2>1 DEF HandleExpiry
    <3> HIDE DEF u
    <3> QED BY <3>1, <3>2, <3>3 DEF WatchShape, WatchKept
  <2>2. CASE ResolveRequest(t) \/ PublishDecision(t)
    <3>1. pending' = pending /\ timers' = timers
      BY <2>2 DEF ResolveRequest, PublishDecision
    <3>2. \E at \in Phases : tasks' = Moved(t, at)
      BY <2>2 DEF ResolveRequest, PublishDecision, Phases
    <3>3. PICK u \in TaskType : /\ u.req = t.req /\ u.kind = t.kind
                                /\ tasks' = (tasks \ {t}) \cup {u}
      BY <2>0, <3>2, MovedKeeps
    <3> QED BY <3>1, <3>3 DEF WatchShape, WatchKept
  <2>3. CASE Finish(t)
    <3>1. ResolveLocal(t.req) /\ tasks' = tasks \ {t}
      BY <2>3 DEF Finish
    <3>2. t.req \notin pending'
      BY <3>1 DEF ResolveLocal
    <3>3. WatchKept
      BY <3>1, <3>2 DEF WatchKept
    <3> QED BY <2>0, <3>1, <3>3 DEF WatchShape
  <2>4. CASE RecoverRowExpired(t)
    <3>1. t.kind = "recover" /\ tasks' = tasks \ {t}
          /\ pending' = pending /\ timers' = timers
      BY <2>4 DEF RecoverRowExpired
    <3>2. WatchKept
      BY <3>1 DEF WatchKept
    <3> QED BY <3>1, <3>2 DEF WatchShape
  <2> QED BY <1>7, <2>1, <2>2, <2>3, <2>4 DEF TaskStep
<1> QED BY <1>1, <1>2, <1>3, <1>4, <1>5, <1>6, <1>7 DEF Next

\* A suspension stays watched, and a timer stays the timer of a suspension.
LEMMA WatchStep ==
    ASSUME TypeOK, SuspensionIsWatched, NoStrayTimer, Next
    PROVE  SuspensionIsWatched' /\ NoStrayTimer'
<1>1. NoStrayTimer'
  BY StepWatches DEF WatchShape, ResolveLocal, Suspend, NoStrayTimer
<1>2. ASSUME NEW r \in pending'
      PROVE  r \in timers' \/ \E t \in tasks' : t.req = r /\ t.kind = "expire"
  <2>1. CASE r \notin pending
    BY <2>1, <1>2, StepWatches DEF WatchShape, ResolveLocal, Suspend
  <2>2. ASSUME NEW t \in tasks, t.req = r, t.kind = "expire", r \in pending
        PROVE  \E u \in tasks' : u.req = r /\ u.kind = "expire"
    BY <1>2, <2>2, StepWatches DEF WatchShape, WatchKept
  <2>3. CASE r \in timers
    BY <1>2, <2>3, StepWatches DEF WatchShape, ResolveLocal, Suspend
  <2> QED BY <2>1, <2>2, <2>3 DEF SuspensionIsWatched
<1> QED BY <1>1, <1>2 DEF SuspensionIsWatched

-----------------------------------------------------------------------------
(* The invariant and what follows from it.                                 *)

ApprovalInv ==
    /\ TypeOK
    /\ WinnersWrote
    /\ Told
    /\ Approvals
    /\ SuspensionIsWatched
    /\ NoStrayTimer

\* The invariant holds when the coordinator is built.
LEMMA InitInv == Init => ApprovalInv
BY InitType DEF Init, ApprovalInv, WinnersWrote, Told, Approvals, SuspensionIsWatched,
                NoStrayTimer

\* No step of an agent, the broker, the coordinator or the database breaks it.
LEMMA NextInv == ApprovalInv /\ [Next]_vars => ApprovalInv'
<1> SUFFICES ASSUME ApprovalInv, [Next]_vars
             PROVE  ApprovalInv'
  OBVIOUS
<1>1. TypeOK'
  BY NextType DEF ApprovalInv
<1>2. CASE Next
  BY <1>1, <1>2, WinnersStep, ToldStep, ApprovalsStep, WatchStep DEF ApprovalInv
<1>3. CASE UNCHANGED vars
  BY <1>1, <1>3 DEF vars, agent, wire, memory, ApprovalInv, WinnersWrote, Winner, Told,
                    Approvals, SuspensionIsWatched, NoStrayTimer
<1> QED BY <1>2, <1>3

\* Agents, coordinator, table and messages always satisfy the invariant.
THEOREM ApprovalInvariant == Spec => []ApprovalInv
BY InitInv, NextInv, PTL DEF Spec

\* A tool call runs only if its row says approved: for any number of requests,
\* concurrent decide, cancel and expiry coroutines, redeliveries and restarts.
THEOREM NoRunWithoutApproval == Spec => []ToolRunsOnlyIfApproved
<1>1. ApprovalInv => ToolRunsOnlyIfApproved
  BY DEF ApprovalInv, Approvals, ToolRunsOnlyIfApproved
<1> QED BY <1>1, ApprovalInvariant, PTL

\* The user hears one outcome at most, that of the row, however many coroutines
\* raced for it.
THEOREM UserToldOnce == Spec => []ToldTheVerdictOnce
<1>1. ApprovalInv => ToldTheVerdictOnce
  BY DEF ApprovalInv, Told, ToldTheVerdictOnce
<1> QED BY <1>1, ApprovalInvariant, PTL

\* A suspended request has its timer or its expiry coroutine, and there is no
\* timer without a suspension.
THEOREM SuspensionsAreWatched == Spec => [](SuspensionIsWatched /\ NoStrayTimer)
<1>1. ApprovalInv => SuspensionIsWatched /\ NoStrayTimer
  BY DEF ApprovalInv
<1> QED BY <1>1, ApprovalInvariant, PTL

\* No timer is left behind by a decided, cancelled or expired request: every
\* timer of the coordinator belongs to a suspension that it still keeps.
THEOREM NoTimerIsStray == Spec => []NoStrayTimer
<1>1. ApprovalInv => NoStrayTimer
  BY DEF ApprovalInv
<1> QED BY <1>1, ApprovalInvariant, PTL

\* The system implements the contract: one final verdict per request, and a
\* tool call runs only after the verdict approved.
THEOREM ImplementsContract == Spec => RefinesContract
<1>1. Init => Contract!Init
  BY DEF Init, Contract!Init
<1>2. ApprovalInv /\ [Next]_vars
        => [Contract!Next]_<<row, {r \in Requests : call[r] = "ran"}>>
  BY ContractStep DEF ApprovalInv
<1> QED BY <1>1, <1>2, ApprovalInvariant, PTL DEF Spec, RefinesContract, Contract!Spec

=============================================================================
