----------------------- MODULE MessageHandoverProofs -----------------------
(***************************************************************************)
(* Proofs that the cursor of a conversation passes no message that no      *)
(* agent was given (CursorNeverSkips), and that no message beyond it is    *)
(* forgotten (NoStrandedMessage), for any number of messages, retries and  *)
(* faults.                                                                 *)
(*                                                                         *)
(* The first is not inductive: the message loop moves the cursor past a    *)
(* batch that it read before an await, while the runner moves the same     *)
(* cursor forward and, after a failure, back.  The invariant says what     *)
(* each of them may rely on: the messages before the runner's previous     *)
(* cursor are in safe hands (HandedBefore), its batch has no gap (NoGap),  *)
(* and what the loop's batch leaves out is in safe hands or will be read   *)
(* again (LoopLeavesNone).  The second rests on there being two ways to a  *)
(* message the poll can see, of which a mishap takes one (TwoWays, OneWay),*)
(* and on the tenant's cursor passing none unnoticed (PassedIsMissed).     *)
(***************************************************************************)
EXTENDS MessageHandover, WellFoundedInduction, TLAPS

\* Before any failed statement, crash and escaped exception.
Clean == dbFailures = 0 /\ crashes = 0 /\ escapes = 0

\* A batch that was read has a last message, only a crash takes the orchestrator
\* down, a stored message was created before, and a job is registered while the
\* runner is with its agent or deals with its failure.
Shape ==
    /\ runner.at \in {"read", "advance"} => runner.batch # {}
    /\ loop.at \in {"read", "piped"} => loop.batch # {}
    /\ up \/ crashes # 0
    /\ \A m \in stored : web[m] \in {"stored", "done"}
    /\ \A m \in Messages : m > sent => web[m] = "none"
    /\ up /\ container # "none" => runner.at \in {"run", "failed", "rollback"}
    /\ up /\ container = "running" => runner.at = "run"
    /\ container # "running" => piped = {}

\* What the cursor may have passed.
Kept == handed \cup piped \cup late \cup stray

\* The cursors are at messages that were stored, and the batches hold such
\* messages only.
InSequence ==
    /\ cursor = 0 \/ cursor \in stored
    /\ runner.prev = 0 \/ runner.prev \in stored
    /\ runner.batch \subseteq stored
    /\ loop.batch \subseteq stored

\* What is in safe hands: what is before the cursor while the runner has moved
\* nothing or has put it back, what is before the previous cursor while it
\* works, and its batch once the container runs.
HandedBefore ==
    /\ runner.at \in {"idle", "read", "rollback"} =>
         \A m \in stored : m <= cursor => m \in Kept
    /\ runner.at \in {"advance", "spawn", "run", "failed"} =>
         \A m \in stored : m <= runner.prev => m \in Kept
    /\ runner.at = "run" => runner.batch \subseteq Kept

\* The runner's batch has no gap behind the cursor, but for late rows.
NoGap ==
    runner.at = "read" =>
        \A m \in stored, b \in runner.batch :
            cursor < m /\ m <= b => m \in runner.batch \cup late

\* A message that the loop's batch leaves out is in safe hands, is with the
\* runner, or is still beyond the cursor for the next runner.
LoopLeavesNone ==
    loop.at = "read" =>
        \A m \in stored, b \in loop.batch :
            m <= b => \/ m \in loop.batch \cup Kept \cup runner.batch
                      \/ runner.at \in {"idle", "rollback"} /\ m > cursor

\* The cursor has passed nothing that is in nobody's hands.
NoneSkipped == \A m \in stored : m <= cursor => m \in Kept \cup runner.batch

Order == InSequence /\ HandedBefore /\ NoGap /\ LoopLeavesNone /\ NoneSkipped

\* The inductive invariant.
HandoverInv == TypeOK /\ Shape /\ (Clean => Order)

-----------------------------------------------------------------------------
(* Helpers.                                                                *)

\* A batch has a last message, and Maximum is that message (new_ts).
LEMMA MaximumIs ==
    ASSUME NEW S, S \subseteq Messages, S # {}
    PROVE  /\ Maximum(S) \in S /\ Maximum(S) \in Messages
           /\ \A n \in S : n <= Maximum(S)
<1> DEFINE T == {MaxMessages - m : m \in S}
           R == OpToRel(<, Nat)
<1>1. T \subseteq Nat /\ T # {}
  <2>1. \A m \in S : MaxMessages - m \in Nat
    BY HandoverAssumptions DEF Messages
  <2>2. T \subseteq Nat
    BY <2>1
  <2> QED BY <2>2
<1>2. IsWellFoundedOn(R, Nat)
  BY NatLessThanWellFounded
<1>3. \A i, k \in Nat : i < k => <<i, k>> \in R
  BY DEF OpToRel
<1> HIDE DEF R, T
<1>4. PICK i \in T : \A k \in T : ~(<<k, i>> \in R)
  BY <1>1, <1>2, WFMin
<1>5. \A k \in T : i <= k
  <2> SUFFICES ASSUME NEW k \in T PROVE i <= k
    OBVIOUS
  <2>1. i \in Nat /\ k \in Nat
    BY <1>1
  <2>2. ~(k < i)
    BY <1>3, <1>4, <2>1
  <2> QED BY <2>1, <2>2
<1>6. PICK m \in S : i = MaxMessages - m
  BY <1>4 DEF T
<1>7. \A n \in S : n <= m
  <2> SUFFICES ASSUME NEW n \in S PROVE n <= m
    OBVIOUS
  <2>1. MaxMessages - n \in T
    BY DEF T
  <2> QED BY <1>5, <1>6, <2>1, HandoverAssumptions DEF Messages
<1> QED BY <1>7 DEF Maximum

\* The record of an idle runner or loop has its type.
LEMMA IdleTypes ==
    /\ IdleLoop \in [at : {"idle", "polled", "read", "piped"}, batch : SUBSET Messages]
    /\ IdleLoop.at = "idle" /\ IdleLoop.batch = {}
    /\ IdleRunner \in [at : {"idle", "read", "advance", "spawn", "run", "failed",
                              "rollback"},
                       batch : SUBSET Messages, prev : 0..MaxMessages]
    /\ IdleRunner.at = "idle" /\ IdleRunner.batch = {} /\ IdleRunner.prev = 0
BY HandoverAssumptions DEF IdleLoop, IdleRunner

\* What get_messages_since returns.
LEMMA SinceIs ==
    ASSUME TypeOK, NEW t
    PROVE  MessagesSince(t) \subseteq Messages /\ MessagesSince(t) \subseteq stored
BY DEF MessagesSince, TypeOK

\* A retry keeps the types of the queue and leaves the runner idle.
LEMMA RetriesType ==
    ASSUME TypeOK, Retries \/ Succeeds
    PROVE  /\ runner' = IdleRunner /\ retries' \in 0..MaxRetries
           /\ retryTimer' \in BOOLEAN /\ dropped' \in BOOLEAN
<1>1. runner' = IdleRunner /\ retries' \in 0..MaxRetries
  BY HandoverAssumptions DEF Retries, Succeeds, TypeOK
<1>2. retryTimer' \in BOOLEAN /\ dropped' \in BOOLEAN
  BY DEF Retries, Succeeds, TypeOK
<1> QED BY <1>1, <1>2

\* Counting a fault keeps the counter within its bound.
LEMMA FaultTypes ==
    ASSUME TypeOK, MayFail
    PROVE  /\ dbFailures + 1 \in 0..MaxFaults /\ crashes + 1 \in 0..MaxFaults
           /\ lostEvents + 1 \in 0..MaxFaults /\ escapes + 1 \in 0..MaxFaults
           /\ dbFailures + 1 # 0 /\ crashes + 1 # 0 /\ escapes + 1 # 0
BY HandoverAssumptions DEF TypeOK, MayFail, Mishaps

-----------------------------------------------------------------------------
(* Types.                                                                  *)

\* The initial state satisfies the invariant.
LEMMA InitInv == Init => HandoverInv
<1> SUFFICES ASSUME Init PROVE HandoverInv
  OBVIOUS
<1> USE HandoverAssumptions
<1>1. /\ up \in BOOLEAN /\ known \in BOOLEAN /\ check \in BOOLEAN
      /\ retryTimer \in BOOLEAN /\ dropped \in BOOLEAN
  BY DEF Init
<1>2. TypeOK
  BY <1>1, IdleTypes DEF Init, TypeOK
<1>3. Shape
  BY IdleTypes DEF Init, Shape
<1>4. Order
  BY IdleTypes DEF Init, Order, InSequence, HandedBefore, NoGap, LoopLeavesNone, NoneSkipped
<1> QED BY <1>2, <1>3, <1>4 DEF HandoverInv

\* The steps of the web process and of the listener keep the types.
LEMMA WebTypes ==
    ASSUME TypeOK, Shape, Web \/ (\E m \in Messages : HandleIncoming(m))
    PROVE  TypeOK' /\ Shape'
<1> USE HandoverAssumptions
<1>1. CASE CreateRun
  <2>1. /\ UNCHANGED <<stored, inbound, up, known, cursors, queue, loop, runner, agent,
                       late, missed, faults>>
        /\ sent' = sent + 1 /\ sent' \in 0..MaxMessages
        /\ web' = [web EXCEPT ![sent + 1] = "created"]
    BY <1>1 DEF CreateRun, TypeOK
  <2>2. web' \in [Messages -> {"none", "created", "stored", "done"}]
    BY <2>1 DEF TypeOK
  <2>3. \A m \in Messages : m > sent' => web'[m] = "none"
    BY <2>1 DEF TypeOK, Shape, Messages
  <2>4. \A m \in stored : web'[m] \in {"stored", "done"}
    BY <2>1 DEF TypeOK, Shape, Messages
  <2>5. TypeOK'
    BY <2>1, <2>2 DEF TypeOK, cursors, queue, faults, agent
  <2> QED BY <2>1, <2>3, <2>4, <2>5 DEF Shape, faults, agent
<1>2. CASE \E m \in Messages : StoreMessage(m)
  <2>1. PICK m \in Messages : StoreMessage(m)
    BY <1>2
  <2>2. web' \in [Messages -> {"none", "created", "stored", "done"}]
    BY <2>1 DEF StoreMessage, TypeOK
  <2>3. /\ \A n \in Messages : n > sent' => web'[n] = "none"
        /\ \A n \in stored' : web'[n] \in {"stored", "done"}
    BY <2>1 DEF StoreMessage, TypeOK, Shape
  <2>4. /\ stored' \subseteq Messages /\ late' \subseteq Messages
        /\ missed' \subseteq Messages
    BY <2>1 DEF StoreMessage, TypeOK
  <2>5. TypeOK'
    BY <2>1, <2>2, <2>4 DEF StoreMessage, TypeOK, cursors, queue, faults, agent
  <2> QED BY <2>1, <2>3, <2>5 DEF StoreMessage, Shape, faults, agent
<1>3. CASE \E m \in Messages : PublishInbound(m)
  <2>1. PICK m \in Messages : PublishInbound(m)
    BY <1>3
  <2>2. web' \in [Messages -> {"none", "created", "stored", "done"}]
        /\ inbound' \subseteq Messages
    BY <2>1 DEF PublishInbound, TypeOK
  <2>3. /\ \A n \in Messages : n > sent' => web'[n] = "none"
        /\ \A n \in stored' : web'[n] \in {"stored", "done"}
    BY <2>1 DEF PublishInbound, TypeOK, Shape
  <2>4. lostEvents' \in 0..MaxFaults
    BY <2>1, FaultTypes DEF PublishInbound, TypeOK
  <2>5. TypeOK'
    BY <2>1, <2>2, <2>4 DEF PublishInbound, TypeOK, cursors, queue, agent
  <2> QED BY <2>1, <2>3, <2>5 DEF PublishInbound, Shape, agent
<1>4. CASE WebCrash
  <2>1. /\ web' \in [Messages -> {"none", "created", "stored", "done"}]
        /\ \A n \in Messages : n > sent' => web'[n] = "none"
        /\ \A n \in stored' : web'[n] \in {"stored", "done"}
    BY <1>4 DEF WebCrash, TypeOK, Shape
  <2>2. crashes' \in 0..MaxFaults /\ crashes' # 0
    BY <1>4, FaultTypes DEF WebCrash
  <2>3. TypeOK'
    BY <1>4, <2>1, <2>2 DEF WebCrash, TypeOK, cursors, queue, agent
  <2> QED BY <1>4, <2>1, <2>2, <2>3 DEF WebCrash, Shape, agent
<1>5. CASE \E m \in Messages : HandleIncoming(m)
  <2>1. PICK m \in Messages : HandleIncoming(m)
    BY <1>5
  <2>2. check' \in BOOLEAN /\ known' \in BOOLEAN
    BY <2>1 DEF HandleIncoming, TypeOK
  <2>3. dbFailures' \in 0..MaxFaults /\ lostEvents' \in 0..MaxFaults
    BY <2>1, FaultTypes DEF HandleIncoming, TypeOK
  <2>4. TypeOK'
    BY <2>1, <2>2, <2>3 DEF HandleIncoming, TypeOK, cursors, agent
  <2> QED BY <2>1, <2>4 DEF HandleIncoming, Shape, agent
<1> QED BY <1>1, <1>2, <1>3, <1>4, <1>5 DEF Web

\* The steps of the message loop keep the types.
LEMMA LoopTypes ==
    ASSUME TypeOK, Shape, Loop \/ PollOthers
    PROVE  TypeOK' /\ Shape'
<1> USE HandoverAssumptions
<1>1. CASE Poll
  <2>1. Maximum(MessagesSince(polled)) \in Messages
    BY <1>1, SinceIs, MaximumIs DEF Poll
  <2>2. polled' \in 0..MaxMessages
    BY <1>1, <2>1 DEF Poll, Messages, TypeOK
  <2>3. loop' \in [at : {"idle", "polled", "read", "piped"}, batch : SUBSET Messages]
        /\ loop'.at = "polled"
    BY <1>1 DEF Poll, TypeOK
  <2> QED BY <1>1, <2>2, <2>3 DEF Poll, TypeOK, Shape, browser, queue, faults, agent
<1>2. CASE LoopReads
  <2>1. \/ loop' = IdleLoop
        \/ /\ loop' = [at |-> "read", batch |-> MessagesSince(cursor)]
           /\ MessagesSince(cursor) # {}
    BY <1>2 DEF LoopReads
  <2>2. loop' \in [at : {"idle", "polled", "read", "piped"}, batch : SUBSET Messages]
        /\ (loop'.at \in {"read", "piped"} => loop'.batch # {})
    BY <2>1, SinceIs, IdleTypes
  <2>3. dbFailures' \in 0..MaxFaults
    BY <1>2, FaultTypes DEF LoopReads, TypeOK
  <2> QED BY <1>2, <2>2, <2>3 DEF LoopReads, TypeOK, Shape, browser, cursors, queue, agent
<1>3. CASE LoopPipes
  <2>1. Maximum(loop.batch) \in Messages
    BY <1>3, MaximumIs DEF LoopPipes, TypeOK, Shape
  <2>2. loop' \in [at : {"idle", "polled", "read", "piped"}, batch : SUBSET Messages]
        /\ loop'.batch # {}
    BY <1>3 DEF LoopPipes, TypeOK, Shape
  <2>3. cursor' \in 0..MaxMessages
    BY <1>3, <2>1 DEF LoopPipes, Messages
  <2>4. piped' \subseteq Messages /\ stray' \subseteq Messages
    BY <1>3 DEF LoopPipes, TypeOK
  <2>5. lostEvents' \in 0..MaxFaults
    BY <1>3, FaultTypes DEF LoopPipes, TypeOK
  <2>6. TypeOK'
    BY <1>3, <2>2, <2>3, <2>4, <2>5 DEF LoopPipes, TypeOK, browser, queue
  <2> QED BY <1>3, <2>2, <2>6 DEF LoopPipes, Shape, browser
<1>4. CASE LoopEnqueues
  BY <1>4, IdleTypes DEF LoopEnqueues, TypeOK, Shape, browser, cursors, faults, agent
<1>5. CASE LoopCommits
  <2>1. Maximum(loop.batch) \in Messages
    BY <1>5, MaximumIs DEF LoopCommits, TypeOK, Shape
  <2>2. dbCursor' \in 0..MaxMessages /\ dbFailures' \in 0..MaxFaults
    BY <1>5, <2>1, FaultTypes DEF LoopCommits, TypeOK, Messages
  <2> QED BY <1>5, <2>2, IdleTypes DEF LoopCommits, TypeOK, Shape, browser, queue, agent
<1>6. CASE PollOthers
  <2>1. polled' \in 0..MaxMessages /\ missed' \subseteq Messages
    BY <1>6, SinceIs DEF PollOthers, TypeOK
  <2> QED BY <1>6, <2>1 DEF PollOthers, TypeOK, Shape, browser, queue, faults, agent
<1> QED BY <1>1, <1>2, <1>3, <1>4, <1>5, <1>6 DEF Loop

\* The steps of the runner, of its container and of its retry timer keep the
\* types.
LEMMA RunnerTypes ==
    ASSUME TypeOK, Shape, Runner \/ ContainerEnds \/ AgentReads
    PROVE  TypeOK' /\ Shape'
<1> USE HandoverAssumptions
<1> DEFINE RunnerType == [at : {"idle", "read", "advance", "spawn", "run", "failed",
                                "rollback"},
                          batch : SUBSET Messages, prev : 0..MaxMessages]
<1>1. CASE RunnerReads
  <2>0. up /\ container = "none" /\ piped = {}
    BY <1>1 DEF RunnerReads, TypeOK, Shape
  <2>1. CASE Retries \/ Succeeds
    <3>1. dbFailures' \in 0..MaxFaults
      BY <1>1, FaultTypes DEF RunnerReads, TypeOK
    <3> QED BY <1>1, <2>0, <2>1, <3>1, RetriesType, IdleTypes
            DEF RunnerReads, TypeOK, Shape, browser, cursors, agent
  <2>2. CASE /\ MessagesSince(cursor) # {}
             /\ runner' = [at |-> "read", batch |-> MessagesSince(cursor), prev |-> 0]
             /\ dropped' = FALSE
             /\ UNCHANGED <<retries, retryTimer, dbFailures>>
    <3>1. runner' \in RunnerType /\ runner'.batch # {}
      BY <2>2, SinceIs
    <3> QED BY <1>1, <2>0, <2>2, <3>1 DEF RunnerReads, TypeOK, Shape, browser, cursors, agent
  <2> QED BY <1>1, <2>1, <2>2 DEF RunnerReads
<1>2. CASE RunnerAdvances
  <2>0. up /\ container = "none" /\ piped = {}
    BY <1>2 DEF RunnerAdvances, TypeOK, Shape
  <2>1. Maximum(runner.batch) \in Messages
    BY <1>2, MaximumIs DEF RunnerAdvances, TypeOK, Shape
  <2>2. runner' \in RunnerType /\ runner'.batch = runner.batch
    BY <1>2 DEF RunnerAdvances, TypeOK
  <2>3. runner.batch # {}
    BY <1>2 DEF RunnerAdvances, Shape
  <2>4. cursor' \in 0..MaxMessages
    BY <1>2, <2>1 DEF RunnerAdvances, Messages
  <2>5. TypeOK'
    BY <1>2, <2>2, <2>4 DEF RunnerAdvances, TypeOK, browser, queue, faults, agent
  <2> QED BY <1>2, <2>0, <2>2, <2>3, <2>5 DEF RunnerAdvances, Shape, browser, faults, agent
<1>3. CASE RunnerCommits
  <2>0. up /\ container = "none" /\ piped = {}
    BY <1>3 DEF RunnerCommits, TypeOK, Shape
  <2>1. Maximum(runner.batch) \in Messages
    BY <1>3, MaximumIs DEF RunnerCommits, TypeOK, Shape
  <2>2. dbCursor' \in 0..MaxMessages /\ dbFailures' \in 0..MaxFaults
    <3>1. dbCursor' \in 0..MaxMessages
      BY <1>3, <2>1 DEF RunnerCommits, TypeOK, Messages
    <3>2. dbFailures' \in 0..MaxFaults
      BY <1>3, FaultTypes DEF RunnerCommits, TypeOK
    <3> QED BY <3>1, <3>2
  <2>3. CASE Retries
    BY <1>3, <2>0, <2>2, <2>3, RetriesType, IdleTypes
       DEF RunnerCommits, TypeOK, Shape, browser, agent
  <2>4. CASE runner' = [runner EXCEPT !.at = "spawn"]
             /\ UNCHANGED <<retries, retryTimer, dropped, dbFailures>>
    <3>1. runner' \in RunnerType /\ runner'.at = "spawn"
      BY <2>4 DEF TypeOK
    <3> QED BY <1>3, <2>0, <2>2, <2>4, <3>1 DEF RunnerCommits, TypeOK, Shape, browser, agent
  <2> QED BY <1>3, <2>3, <2>4 DEF RunnerCommits
<1>4. CASE RunnerSpawns
  <2>0. piped = {} /\ up
    BY <1>4 DEF RunnerSpawns, TypeOK, Shape
  <2>1. handed' \subseteq Messages /\ container' \in {"none", "running", "gone"}
    BY <1>4 DEF RunnerSpawns, Escapes, TypeOK
  <2>2. CASE Escapes
    <3>1. escapes' \in 0..MaxFaults /\ container' = "none" /\ Retries
      BY <2>2, FaultTypes DEF Escapes
    <3> QED BY <1>4, <2>0, <2>1, <3>1, RetriesType, IdleTypes
            DEF RunnerSpawns, TypeOK, Shape, browser, cursors
  <2>3. CASE /\ \/ runner' = [runner EXCEPT !.at = "run"]
                \/ runner' = [runner EXCEPT !.at = "failed"] /\ container' \in {"none", "gone"}
             /\ UNCHANGED <<retries, retryTimer, dropped, escapes>>
    <3>1. /\ runner' \in RunnerType /\ runner'.at \in {"run", "failed"}
          /\ container' = "running" => runner'.at = "run"
      BY <2>3 DEF TypeOK
    <3> QED BY <1>4, <2>0, <2>1, <2>3, <3>1
            DEF RunnerSpawns, TypeOK, Shape, browser, cursors
  <2> QED BY <1>4, <2>2, <2>3 DEF RunnerSpawns
<1>5. CASE RunnerEnds
  <2>0. piped = {} /\ up
    BY <1>5 DEF RunnerEnds, Shape
  <2>1. CASE Succeeds /\ container' = "none" /\ escapes' = escapes
    BY <1>5, <2>0, <2>1, RetriesType, IdleTypes
       DEF RunnerEnds, TypeOK, Shape, browser, cursors
  <2>2. CASE runner' = [runner EXCEPT !.at = "failed"]
             /\ UNCHANGED <<container, retries, retryTimer, dropped, escapes>>
    <3>1. runner' \in RunnerType /\ runner'.at = "failed"
      BY <2>2 DEF TypeOK
    <3> QED BY <1>5, <2>0, <2>2, <3>1 DEF RunnerEnds, TypeOK, Shape, browser, cursors
  <2>3. CASE Escapes
    <3>1. escapes' \in 0..MaxFaults /\ container' = "none" /\ Retries
      BY <2>3, FaultTypes DEF Escapes
    <3> QED BY <1>5, <2>0, <3>1, RetriesType, IdleTypes
            DEF RunnerEnds, TypeOK, Shape, browser, cursors
  <2> QED BY <1>5, <2>1, <2>2, <2>3 DEF RunnerEnds
<1>6. CASE RunnerPutsBack
  <2>1. runner' \in RunnerType /\ runner'.at = "rollback" /\ cursor' \in 0..MaxMessages
    BY <1>6 DEF RunnerPutsBack, TypeOK
  <2>2. handed' \subseteq Messages /\ stray' \subseteq Messages
    BY <1>6 DEF RunnerPutsBack, TypeOK
  <2>3. container # "running"
    BY <1>6 DEF RunnerPutsBack, Shape
  <2> QED BY <1>6, <2>1, <2>2, <2>3 DEF RunnerPutsBack, TypeOK, Shape, browser, queue, faults
<1>7. CASE RunnerRollsBack
  <2>0. piped = {} /\ up
    BY <1>7 DEF RunnerRollsBack, Shape
  <2>1. dbCursor' \in 0..MaxMessages /\ dbFailures' \in 0..MaxFaults
    BY <1>7, FaultTypes DEF RunnerRollsBack, TypeOK
  <2> QED BY <1>7, <2>0, <2>1, RetriesType, IdleTypes
          DEF RunnerRollsBack, TypeOK, Shape, browser
<1>8. CASE RetryFires
  BY <1>8 DEF RetryFires, TypeOK, Shape, browser, cursors, faults, agent
<1>9. CASE ContainerEnds
  <2>1. up => runner.at = "run"
    BY <1>9 DEF ContainerEnds, Shape
  <2> QED BY <1>9, <2>1 DEF ContainerEnds, TypeOK, Shape, browser, cursors, queue, faults
<1>10. CASE AgentReads
  BY <1>10 DEF AgentReads, TypeOK, Shape, browser, cursors, queue, faults
<1> QED BY <1>1, <1>2, <1>3, <1>4, <1>5, <1>6, <1>7, <1>8, <1>9, <1>10 DEF Runner

\* A crash and a restart keep the types.
LEMMA CrashTypes ==
    ASSUME TypeOK, Shape, Crash \/ Restart
    PROVE  TypeOK' /\ Shape' /\ ~Clean'
<1> USE HandoverAssumptions
<1>1. CASE Crash
  <2>1. crashes' \in 0..MaxFaults /\ crashes' # 0 /\ retries' \in 0..MaxRetries
    BY <1>1, FaultTypes DEF Crash
  <2>2. /\ up' \in BOOLEAN /\ check' \in BOOLEAN /\ retryTimer' \in BOOLEAN
        /\ dropped' \in BOOLEAN
    BY <1>1 DEF Crash
  <2> QED BY <1>1, <2>1, <2>2, IdleTypes DEF Crash, TypeOK, Shape, Clean, browser,
             cursors, agent
<1>2. CASE Restart
  <2>1. up' \in BOOLEAN /\ check' \in BOOLEAN /\ known' \in BOOLEAN
    BY <1>2 DEF Restart
  <2>2. crashes # 0 /\ crashes' = crashes
    BY <1>2 DEF Restart, Shape, faults
  <2>3. handed' \subseteq Messages /\ stray' \subseteq Messages
    BY <1>2 DEF Restart, TypeOK
  <2>4. TypeOK'
    BY <1>2, <2>1, <2>3 DEF Restart, TypeOK, faults
  <2> QED BY <1>2, <2>2, <2>4 DEF Restart, Shape, Clean
<1> QED BY <1>1, <1>2

-----------------------------------------------------------------------------
(* The order, step by step.  A step that counts a failed statement, a      *)
(* crash or an escaped exception is not clean, so the lemmas are about the *)
(* others.                                                                 *)

\* A clean step starts from a clean state.
LEMMA CleanBefore ==
    ASSUME TypeOK, TypeOK', [Next]_vars, Clean'
    PROVE  Clean
<1>1. dbFailures' = dbFailures \/ dbFailures' = dbFailures + 1
  BY DEF Next, Web, Loop, Runner, CreateRun, StoreMessage, PublishInbound, WebCrash,
     HandleIncoming, Poll, PollOthers, LoopReads, LoopPipes, LoopEnqueues, LoopCommits,
     RunnerReads, RunnerAdvances, RunnerCommits, RunnerSpawns, RunnerEnds, Escapes,
     RunnerPutsBack, RunnerRollsBack, RetryFires, ContainerEnds, AgentReads, Crash,
     Restart, vars, faults
<1>2. crashes' = crashes \/ crashes' = crashes + 1
  BY DEF Next, Web, Loop, Runner, CreateRun, StoreMessage, PublishInbound, WebCrash,
     HandleIncoming, Poll, PollOthers, LoopReads, LoopPipes, LoopEnqueues, LoopCommits,
     RunnerReads, RunnerAdvances, RunnerCommits, RunnerSpawns, RunnerEnds, Escapes,
     RunnerPutsBack, RunnerRollsBack, RetryFires, ContainerEnds, AgentReads, Crash,
     Restart, vars, faults
<1>3. escapes' = escapes \/ escapes' = escapes + 1
  BY DEF Next, Web, Loop, Runner, CreateRun, StoreMessage, PublishInbound, WebCrash,
     HandleIncoming, Poll, PollOthers, LoopReads, LoopPipes, LoopEnqueues, LoopCommits,
     RunnerReads, RunnerAdvances, RunnerCommits, RunnerSpawns, RunnerEnds, Escapes,
     RunnerPutsBack, RunnerRollsBack, RetryFires, ContainerEnds, AgentReads, Crash,
     Restart, vars, faults
<1> QED BY <1>1, <1>2, <1>3 DEF Clean, TypeOK

\* Steps that leave cursor, batches and messages alone, and in safe hands what
\* is there, keep the order.
LEMMA OrderUnchanged ==
    ASSUME Order, UNCHANGED <<stored, cursor, runner, loop, late, Kept>>
    PROVE  Order'
BY DEF Order, InSequence, HandedBefore, NoGap, LoopLeavesNone, NoneSkipped

\* A message that is stored is the last one of the table, or it is late.
LEMMA WebOrder ==
    ASSUME TypeOK, Shape, Order, Web
    PROVE  Order'
<1> USE HandoverAssumptions
<1>1. CASE CreateRun
  BY <1>1, OrderUnchanged DEF CreateRun, cursors, agent, Kept
<1>2. CASE \E m \in Messages : StoreMessage(m)
  <2>0. PICK s \in Messages : StoreMessage(s)
    BY <1>2
  <2>1. /\ stored' = stored \cup {s} /\ s \in Nat /\ s > 0
        /\ \A m \in stored : m \in Nat /\ m # s
    BY <2>0 DEF StoreMessage, Shape, TypeOK, Messages
  <2>2. late \subseteq late' /\ (s \in late' \/ \A m \in stored : m < s)
    BY <2>0, <2>1 DEF StoreMessage, MessagesSince
  <2>3. UNCHANGED <<cursor, runner, loop, handed, piped, stray>>
    BY <2>0 DEF StoreMessage, cursors, agent
  <2>4. Kept \subseteq Kept' /\ (s \in late' => s \in Kept')
    BY <2>2, <2>3 DEF Kept
  <2>5. s \notin late' =>
          /\ cursor \in Nat /\ cursor < s
          /\ runner.prev \in Nat /\ runner.prev < s
          /\ \A b \in runner.batch \cup loop.batch : b \in Nat /\ b < s
    BY <2>1, <2>2 DEF Order, InSequence
  <2>6. InSequence'
    BY <2>1, <2>3 DEF Order, InSequence
  <2>7. HandedBefore'
    BY <2>1, <2>3, <2>4, <2>5 DEF Order, HandedBefore
  <2>8. NoGap'
    BY <2>1, <2>2, <2>3, <2>5 DEF Order, NoGap
  <2>9. LoopLeavesNone'
    <3> SUFFICES ASSUME loop.at = "read", NEW m \in stored', NEW b \in loop.batch, m <= b
                 PROVE  \/ m \in loop.batch \cup Kept' \cup runner.batch
                        \/ runner.at \in {"idle", "rollback"} /\ m > cursor
      BY <2>3 DEF LoopLeavesNone
    <3>1. CASE m = s
      BY <2>1, <2>4, <2>5, <3>1
    <3>2. CASE m \in stored
      BY <2>4, <3>2 DEF Order, LoopLeavesNone
    <3> QED BY <2>1, <3>1, <3>2
  <2>10. NoneSkipped'
    BY <2>1, <2>3, <2>4, <2>5 DEF Order, NoneSkipped
  <2> QED BY <2>6, <2>7, <2>8, <2>9, <2>10 DEF Order
<1>3. CASE \E m \in Messages : PublishInbound(m)
  BY <1>3, OrderUnchanged DEF PublishInbound, cursors, agent, Kept
<1>4. CASE WebCrash
  BY <1>4, OrderUnchanged DEF WebCrash, cursors, agent, Kept
<1> QED BY <1>1, <1>2, <1>3, <1>4 DEF Web

\* What the loop reads leaves out is not beyond the cursor; what it pipes is on
\* its way or stray before the cursor passes it.
LEMMA LoopOrder ==
    ASSUME TypeOK, Shape, Order, Loop \/ PollOthers
    PROVE  Order'
<1> USE HandoverAssumptions
<1>1. CASE Poll
  <2>1. loop'.batch = loop.batch /\ loop'.at = "polled"
    BY <1>1 DEF Poll, TypeOK
  <2>2. UNCHANGED <<stored, cursor, runner, late, Kept>>
    BY <1>1 DEF Poll, browser, agent, Kept
  <2> QED BY <2>1, <2>2 DEF Order, InSequence, HandedBefore, NoGap,
            LoopLeavesNone, NoneSkipped
<1>2. CASE loop' = IdleLoop /\ UNCHANGED <<stored, cursor, runner, late, Kept>>
  BY <1>2, IdleTypes DEF Order, InSequence, HandedBefore, NoGap, LoopLeavesNone,
     NoneSkipped
<1>3. CASE LoopReads /\ loop' = [at |-> "read", batch |-> MessagesSince(cursor)]
  <2>1. UNCHANGED <<stored, cursor, runner, late, Kept>>
    BY <1>3 DEF LoopReads, browser, cursors, agent, Kept
  <2>2. \A m \in stored : m \notin loop'.batch => m <= cursor
    BY <1>3 DEF MessagesSince, TypeOK, Messages
  <2>3. LoopLeavesNone'
    BY <2>1, <2>2 DEF Order, LoopLeavesNone, NoneSkipped
  <2>4. loop'.batch \subseteq stored
    BY <1>3, SinceIs
  <2> QED BY <2>1, <2>3, <2>4 DEF Order, InSequence, HandedBefore, NoGap, NoneSkipped
<1>4. CASE LoopPipes
  <2>1. /\ Maximum(loop.batch) \in loop.batch /\ Maximum(loop.batch) \in Messages
        /\ loop.at = "read" /\ runner.at \in {"run", "failed", "rollback"}
    BY <1>4, MaximumIs DEF LoopPipes, Registered, TypeOK, Shape
  <2>2. /\ UNCHANGED <<stored, runner, handed, late>>
        /\ cursor' = Maximum(loop.batch)
        /\ loop'.batch = loop.batch /\ loop'.at = "piped"
    BY <1>4 DEF LoopPipes, browser, TypeOK
  <2>3. Kept \subseteq Kept'
    BY <1>4, <2>2 DEF LoopPipes, Kept
  <2>4. InSequence'
    BY <2>1, <2>2 DEF Order, InSequence
  <2>5. NoGap' /\ LoopLeavesNone'
    BY <2>1, <2>2 DEF NoGap, LoopLeavesNone
  <2>6. \A m \in stored : m <= cursor' => m \in Kept' \/ (runner.at = "run" /\ m \in runner.batch)
    <3>1. CASE container = "running" /\ piped' = piped \cup loop.batch /\ stray' = stray
      <4>1. runner.at = "run"
        BY <1>4, <3>1 DEF LoopPipes, Shape
      <4>2. loop.batch \subseteq Kept'
        BY <3>1 DEF Kept
      <4> QED BY <2>1, <2>2, <2>3, <4>1, <4>2 DEF Order, LoopLeavesNone
    <3>2. CASE stray' = stray \cup {m \in stored \ handed : m <= cursor'}
      BY <2>2, <3>2 DEF Kept
    <3> QED BY <1>4, <3>1, <3>2 DEF LoopPipes
  <2>7. HandedBefore'
    BY <2>1, <2>2, <2>3, <2>6 DEF Order, HandedBefore
  <2>8. NoneSkipped'
    BY <2>2, <2>6 DEF NoneSkipped
  <2> QED BY <2>4, <2>5, <2>7, <2>8 DEF Order
<1>5. LoopEnqueues \/ LoopCommits =>
        loop' = IdleLoop /\ UNCHANGED <<stored, cursor, runner, late, Kept>>
  BY DEF LoopEnqueues, LoopCommits, browser, cursors, agent, Kept
<1>6. LoopReads =>
        \/ loop' = IdleLoop /\ UNCHANGED <<stored, cursor, runner, late, Kept>>
        \/ loop' = [at |-> "read", batch |-> MessagesSince(cursor)]
  BY DEF LoopReads, browser, cursors, agent, Kept
<1>7. CASE PollOthers
  BY <1>7, OrderUnchanged DEF PollOthers, browser, agent, Kept
<1> QED BY <1>1, <1>2, <1>3, <1>4, <1>5, <1>6, <1>7 DEF Loop

\* A runner that becomes idle when everything before the cursor is in safe hands
\* keeps the order.
LEMMA RunnerRests ==
    ASSUME TypeOK, Order, runner' = IdleRunner,
           UNCHANGED <<stored, cursor, loop, late, Kept>>,
           \A m \in stored : m <= cursor => m \in Kept
    PROVE  Order'
<1>1. \A m \in stored : m > cursor \/ m \in Kept
  BY DEF TypeOK, Messages
<1>2. LoopLeavesNone'
  BY <1>1, IdleTypes DEF LoopLeavesNone
<1> QED BY <1>2, IdleTypes DEF Order, InSequence, HandedBefore, NoGap, NoneSkipped

\* The runner's steps.
LEMMA RunnerOrder ==
    ASSUME TypeOK, Shape, Order, Clean, Clean', Runner \/ ContainerEnds \/ AgentReads
    PROVE  Order'
<1> USE HandoverAssumptions
<1>0. /\ dbFailures \in Nat /\ dbFailures' = dbFailures /\ dbFailures + 1 # dbFailures
      /\ escapes' = escapes /\ ~Escapes
  BY DEF Clean, Escapes
<1>1. CASE RunnerReads
  <2>1. UNCHANGED <<stored, cursor, loop, late, Kept>> /\ runner.at = "idle"
    BY <1>1 DEF RunnerReads, browser, cursors, agent, Kept
  <2>2. CASE Succeeds
    BY <2>1, <2>2, RunnerRests DEF Succeeds, Order, HandedBefore
  <2>3. CASE runner' = [at |-> "read", batch |-> MessagesSince(cursor), prev |-> 0]
    <3>1. /\ runner'.at = "read" /\ runner'.batch = MessagesSince(cursor)
          /\ runner'.prev = 0
      BY <2>3
    <3>2. \A m \in stored : m <= cursor \/ m \in MessagesSince(cursor)
      BY DEF MessagesSince, TypeOK, Messages
    <3>3. \A m \in stored : m > cursor => m \in MessagesSince(cursor)
      BY DEF MessagesSince
    <3>4. InSequence'
      BY <2>1, <3>1, SinceIs DEF Order, InSequence
    <3>5. HandedBefore' /\ NoneSkipped'
      BY <2>1, <3>1 DEF Order, HandedBefore, NoneSkipped
    <3>6. NoGap'
      BY <2>1, <3>1, <3>3 DEF NoGap, TypeOK, Messages
    <3>7. \A m \in stored : m \in Kept \/ m \in runner'.batch
      BY <2>1, <3>1, <3>2 DEF Order, HandedBefore
    <3>8. LoopLeavesNone'
      BY <2>1, <3>7 DEF LoopLeavesNone
    <3> QED BY <3>4, <3>5, <3>6, <3>8 DEF Order
  <2> QED BY <1>0, <1>1, <2>2, <2>3 DEF RunnerReads
<1>2. CASE RunnerAdvances
  <2>1. /\ Maximum(runner.batch) \in runner.batch /\ Maximum(runner.batch) \in Messages
    BY <1>2, MaximumIs DEF RunnerAdvances, TypeOK, Shape
  <2>2. /\ UNCHANGED <<stored, loop, late, Kept>> /\ runner.at = "read"
        /\ cursor' = Maximum(runner.batch)
        /\ runner'.at = "advance" /\ runner'.prev = cursor
        /\ runner'.batch = runner.batch
    BY <1>2 DEF RunnerAdvances, browser, agent, Kept, TypeOK
  <2>3. InSequence'
    BY <2>1, <2>2 DEF Order, InSequence
  <2>4. HandedBefore' /\ NoGap'
    BY <2>2 DEF Order, HandedBefore, NoGap
  <2>5. LoopLeavesNone'
    BY <2>2 DEF Order, LoopLeavesNone
  <2>6. late \subseteq Kept /\ \A m \in stored : m <= cursor \/ cursor < m
    BY DEF Kept, TypeOK, Messages
  <2>7. NoneSkipped'
    BY <2>1, <2>2, <2>6 DEF Order, HandedBefore, NoGap, NoneSkipped
  <2> QED BY <2>3, <2>4, <2>5, <2>7 DEF Order
<1>3. CASE RunnerCommits
  <2>1. /\ UNCHANGED <<stored, cursor, loop, late, Kept>>
        /\ runner.at = "advance" /\ runner' = [runner EXCEPT !.at = "spawn"]
    BY <1>0, <1>3 DEF RunnerCommits, browser, agent, Kept
  <2>2. runner'.at = "spawn" /\ runner'.batch = runner.batch /\ runner'.prev = runner.prev
    BY <2>1 DEF TypeOK
  <2> QED BY <2>1, <2>2 DEF Order, InSequence, HandedBefore, NoGap, LoopLeavesNone,
            NoneSkipped
<1>4. CASE RunnerSpawns
  <2>1. /\ UNCHANGED <<stored, cursor, loop, late, piped, stray>> /\ runner.at = "spawn"
        /\ runner'.batch = runner.batch /\ runner'.prev = runner.prev
        /\ \/ runner'.at = "run" /\ handed' = handed \cup runner.batch
           \/ runner'.at = "failed" /\ handed' = handed
    BY <1>0, <1>4 DEF RunnerSpawns, browser, cursors, TypeOK
  <2>2. Kept \subseteq Kept' /\ (runner'.at = "run" => runner.batch \subseteq Kept')
    BY <2>1 DEF Kept
  <2> QED BY <2>1, <2>2 DEF Order, InSequence, HandedBefore, NoGap, LoopLeavesNone,
            NoneSkipped
<1>5. CASE RunnerEnds
  <2>1. UNCHANGED <<stored, cursor, loop, late, Kept>> /\ runner.at = "run"
    BY <1>5 DEF RunnerEnds, browser, cursors, Kept
  <2>2. CASE Succeeds
    <3>1. \A m \in stored : m <= cursor => m \in Kept
      BY <2>1 DEF Order, NoneSkipped, HandedBefore
    <3> QED BY <2>1, <2>2, <3>1, RunnerRests DEF Succeeds
  <2>3. CASE runner' = [runner EXCEPT !.at = "failed"]
    <3>1. runner'.at = "failed" /\ runner'.batch = runner.batch /\ runner'.prev = runner.prev
      BY <2>3 DEF TypeOK
    <3> QED BY <2>1, <3>1 DEF Order, InSequence, HandedBefore, NoGap, LoopLeavesNone,
              NoneSkipped
  <2> QED BY <1>0, <1>5, <2>2, <2>3 DEF RunnerEnds
<1>6. CASE RunnerPutsBack
  <2>1. /\ UNCHANGED <<stored, loop, late>> /\ runner.at = "failed"
        /\ cursor' = runner.prev
        /\ runner'.at = "rollback" /\ runner'.batch = runner.batch
        /\ runner'.prev = runner.prev
    BY <1>6 DEF RunnerPutsBack, browser, TypeOK
  <2>2. /\ handed' = handed \cap 1..runner.prev /\ stray' = stray \cap 1..runner.prev
        /\ piped' = piped /\ piped = {}
    BY <1>6 DEF RunnerPutsBack, Shape
  <2>3. \A m \in stored : m \in Kept => m > runner.prev \/ m \in Kept'
    BY <2>1, <2>2 DEF Kept, TypeOK, Messages
  <2>4. \A m \in stored : m <= runner.prev => m \in Kept'
    BY <2>1, <2>3 DEF Order, HandedBefore, TypeOK, Messages
  <2>5. InSequence'
    BY <2>1 DEF Order, InSequence
  <2>6. HandedBefore' /\ NoneSkipped' /\ NoGap'
    BY <2>1, <2>4 DEF HandedBefore, NoneSkipped, NoGap
  <2>7. LoopLeavesNone'
    BY <2>1, <2>3 DEF Order, LoopLeavesNone
  <2> QED BY <2>5, <2>6, <2>7 DEF Order
<1>7. CASE RunnerRollsBack
  <2>1. /\ UNCHANGED <<stored, cursor, loop, late, Kept>>
        /\ runner.at = "rollback" /\ runner' = IdleRunner
    BY <1>7 DEF RunnerRollsBack, Retries, browser, Kept
  <2> QED BY <2>1, RunnerRests DEF Order, HandedBefore
<1>8. CASE RetryFires
  BY <1>8, OrderUnchanged DEF RetryFires, browser, cursors, agent, Kept
<1>9. CASE ContainerEnds \/ AgentReads
  <2>1. Kept' = Kept
    BY <1>9 DEF ContainerEnds, AgentReads, Kept
  <2> QED BY <1>9, <2>1, OrderUnchanged DEF ContainerEnds, AgentReads, browser, cursors
<1> QED BY <1>1, <1>2, <1>3, <1>4, <1>5, <1>6, <1>7, <1>8, <1>9 DEF Runner

-----------------------------------------------------------------------------

\* Every step keeps the invariant.
LEMMA NextInv == HandoverInv /\ [Next]_vars => HandoverInv'
<1> SUFFICES ASSUME HandoverInv, [Next]_vars PROVE HandoverInv'
  OBVIOUS
<1>0. TypeOK /\ Shape
  BY DEF HandoverInv
<1>1. TypeOK' /\ Shape'
  <2>1. CASE UNCHANGED vars
    BY <1>0, <2>1 DEF vars, browser, cursors, queue, faults, agent, TypeOK, Shape
  <2>2. CASE Next
    BY <1>0, <2>2, WebTypes, LoopTypes, RunnerTypes, CrashTypes DEF Next
  <2> QED BY <2>1, <2>2
<1>2. ASSUME Clean' PROVE Order'
  <2>1. Clean /\ Order
    BY <1>0, <1>1, <1>2, CleanBefore DEF HandoverInv
  <2>2. CASE UNCHANGED vars
    BY <2>1, <2>2, OrderUnchanged DEF vars, browser, cursors, agent, Kept
  <2>3. CASE \E m \in Messages : HandleIncoming(m)
    BY <2>1, <2>3, OrderUnchanged DEF HandleIncoming, cursors, agent, Kept
  <2>4. CASE Crash \/ Restart
    BY <1>0, <1>2, <2>4, CrashTypes
  <2>5. CASE Web \/ Loop \/ PollOthers \/ Runner \/ ContainerEnds \/ AgentReads
    BY <1>0, <1>2, <2>1, <2>5, WebOrder, LoopOrder, RunnerOrder
  <2> QED BY <2>2, <2>3, <2>4, <2>5 DEF Next
<1> QED BY <1>1, <1>2 DEF HandoverInv

\* The invariant holds in every reachable state.
THEOREM HandoverInvariant == Spec => []HandoverInv
BY InitInv, NextInv, PTL DEF Spec

\* Types of the tables, the cursors, the queue and the coroutines.
THEOREM HandoverTypeCorrect == Spec => []TypeOK
<1>1. HandoverInv => TypeOK
  BY DEF HandoverInv
<1> QED BY <1>1, HandoverInvariant, PTL

\* Neither the message loop nor the runner moves the cursor past a message that
\* is not with an agent or on its way to one, however their reads, pipes,
\* failures and rollbacks interleave (_message_loop,
\* _process_conversation_messages), but for late rows and for pipes into a job
\* whose agent has ended.
THEOREM NoMessageSkipped == Spec => []CursorNeverSkips
<1>1. HandoverInv => CursorNeverSkips
  <2> SUFFICES ASSUME HandoverInv, dbFailures + crashes + escapes = 0
               PROVE  NoneSkipped
    BY DEF CursorNeverSkips, NoneSkipped, Kept
  <2>1. dbFailures \in Nat /\ crashes \in Nat /\ escapes \in Nat
    BY HandoverAssumptions DEF HandoverInv, TypeOK
  <2>2. Clean
    BY <2>1 DEF Clean
  <2> QED BY <2>2 DEF HandoverInv, Order
<1> QED BY <1>1, HandoverInvariant, PTL

-----------------------------------------------------------------------------
(* No message is stranded.                                                 *)
(*                                                                         *)
(* A message that waits is held by the runner and its queue, or it is both *)
(* announced by its event and awaited by the poll: one mishap takes one of *)
(* the two ways away, and what is held stays held.                         *)

\* Stored messages that no agent has, beyond the cursor.
Unread == MessagesSince(cursor) \ (handed \cup late)

\* The queue or the runner will come to message m.
Held(m) ==
    check \/ retryTimer \/ dropped \/ m \in runner.batch \/ runner.at = "rollback"

\* An event for message m is under way or about to be published.
Announced(m) == m \in inbound \/ web[m] = "stored"

\* The message loop will come to message m.
Awaited(m) == (known /\ m > polled) \/ loop.at = "polled" \/ m \in loop.batch

\* The poll cannot see message m.
Blind(m) == ~known \/ m \in missed

\* The loop deals with a conversation of _state and with rows of its table, and
\* a batch it reads is not behind what it piped before.
LoopKnows ==
    /\ loop.at # "idle" => known
    /\ loop.batch \cup piped \cup stray \subseteq stored
    /\ loop.at = "read" =>
         \A m \in piped \cup stray : \E b \in loop.batch : m <= b

\* The tenant's cursor has passed no message unnoticed while the conversation was
\* not in _state, nor behind the batch of the loop.
PassedIsMissed ==
    /\ ~known => \A m \in stored : m > polled \/ m \in missed
    /\ loop.at = "read" =>
         \A m \in stored : \/ \E b \in loop.batch : m <= b
                           \/ m > polled \/ m \in missed

\* What the runner has read is beyond the cursor, and a running agent has it.
RunHanded ==
    /\ runner.at = "read" => \A b \in runner.batch : b > cursor
    /\ runner.at = "run" => runner.batch \subseteq handed

\* What was piped is behind the cursor, or the cursor was put back and the
\* runner will retry.
PipedIsSafe ==
    loop.at = "piped" =>
        \A m \in loop.batch : m <= cursor \/ m \in handed \/ Held(m)

\* Before the first mishap there are two ways to a message, if the poll can see
\* it.
TwoWays ==
    Mishaps = 0 =>
        \A m \in Unread : Held(m) \/ (Announced(m) /\ (Awaited(m) \/ Blind(m)))

\* After it there is one.
OneWay ==
    Mishaps <= 1 =>
        \A m \in Unread : ~up \/ Held(m) \/ Announced(m) \/ Awaited(m) \/ Blind(m)

\* The inductive invariant, beside HandoverInv.
CoverInv ==
    LoopKnows /\ PassedIsMissed /\ RunHanded /\ PipedIsSafe /\ TwoWays /\ OneWay

\* The coroutines die with the orchestrator.
IdleWhenDown == up \/ (loop = IdleLoop /\ runner = IdleRunner)

\* What the steps from one state to the next need.
Before == HandoverInv /\ HandoverInv' /\ IdleWhenDown /\ CoverInv

\* A coroutine takes its steps while the orchestrator is up.
LEMMA DownIsIdle == IdleWhenDown /\ [Next]_vars => IdleWhenDown'
<1> SUFFICES ASSUME IdleWhenDown, [Next]_vars PROVE IdleWhenDown'
  OBVIOUS
<1>1. CASE Crash
  BY <1>1 DEF Crash, IdleWhenDown
<1>2. CASE Restart
  BY <1>2 DEF Restart, IdleWhenDown
<1>3. CASE Loop \/ PollOthers \/ Runner \/ \E m \in Messages : HandleIncoming(m)
  <2>1. up' = up /\ up
    BY <1>3 DEF Loop, Runner, Poll, PollOthers, LoopReads, LoopPipes, LoopEnqueues,
       LoopCommits, RunnerReads, RunnerAdvances, RunnerCommits, RunnerSpawns,
       RunnerEnds, RunnerPutsBack, RunnerRollsBack, RetryFires, HandleIncoming
  <2> QED BY <2>1 DEF IdleWhenDown
<1>4. CASE Web \/ AgentReads \/ ContainerEnds \/ UNCHANGED vars
  <2>1. UNCHANGED <<up, loop, runner>>
    BY <1>4 DEF Web, CreateRun, StoreMessage, PublishInbound, WebCrash, AgentReads,
       ContainerEnds, vars
  <2> QED BY <2>1 DEF IdleWhenDown
<1> QED BY <1>1, <1>2, <1>3, <1>4 DEF Next

\* The counters are numbers, and without a mishap the orchestrator is up and
\* the cursor has skipped nothing.
LEMMA MishapsCount ==
    ASSUME HandoverInv
    PROVE  /\ Mishaps \in Nat
           /\ dbFailures \in Nat /\ crashes \in Nat /\ lostEvents \in Nat
           /\ escapes \in Nat
           /\ Mishaps = 0 => up /\ NoneSkipped
<1>1. dbFailures \in Nat /\ crashes \in Nat /\ lostEvents \in Nat /\ escapes \in Nat
  BY HandoverAssumptions DEF HandoverInv, TypeOK
<1>2. Mishaps = 0 => Clean
  BY <1>1 DEF Mishaps, Clean
<1> QED BY <1>1, <1>2 DEF Mishaps, HandoverInv, Clean, Order, Shape

\* Messages and cursors are numbers.
LEMMA MessagesAreNumbers ==
    ASSUME TypeOK
    PROVE  /\ \A m \in stored : m \in Nat
           /\ cursor \in Nat /\ polled \in Nat /\ sent \in Nat /\ dbCursor \in Nat
           /\ \A m \in loop.batch \cup runner.batch : m \in Nat
BY HandoverAssumptions DEF TypeOK, Messages

\* A step that counts no mishap and one that counts one.
LEMMA NoMishap ==
    ASSUME UNCHANGED faults
    PROVE  Mishaps' = Mishaps
BY DEF faults, Mishaps

\* The first mishap happens where there are two ways; a second one is beyond
\* the claim.
LEMMA OneMishap ==
    ASSUME HandoverInv,
           \/ dbFailures' = dbFailures + 1 /\ UNCHANGED <<crashes, lostEvents, escapes>>
           \/ crashes' = crashes + 1 /\ UNCHANGED <<dbFailures, lostEvents, escapes>>
           \/ lostEvents' = lostEvents + 1 /\ UNCHANGED <<crashes, dbFailures, escapes>>
    PROVE  Mishaps' # 0 /\ (Mishaps' <= 1 => Mishaps = 0)
BY MishapsCount DEF Mishaps

\* A step that keeps what covers the unread messages.
LEMMA SameCover ==
    ASSUME CoverInv, UNCHANGED <<stored, up, known, cursor, polled, check, retryTimer,
               dropped, loop, runner, handed, piped, stray, late, missed, faults>>,
           \A m \in stored : Announced(m) => Announced(m)'
    PROVE  CoverInv'
<1>1. Mishaps' = Mishaps
  BY NoMishap
<1>2. /\ Unread' = Unread /\ \A m \in Unread : m \in stored
      /\ \A m : Held(m)' = Held(m) /\ Awaited(m)' = Awaited(m) /\ Blind(m)' = Blind(m)
  BY DEF Unread, MessagesSince, Held, Awaited, Blind
<1>3. LoopKnows' /\ PassedIsMissed' /\ RunHanded' /\ PipedIsSafe'
  BY <1>2 DEF CoverInv, LoopKnows, PassedIsMissed, RunHanded, PipedIsSafe
<1>4. TwoWays'
  BY <1>1, <1>2 DEF CoverInv, TwoWays
<1>5. OneWay'
  BY <1>1, <1>2 DEF CoverInv, OneWay
<1> QED BY <1>3, <1>4, <1>5 DEF CoverInv

\* A mishap that takes no more than an announcement.
LEMMA LostWay ==
    ASSUME CoverInv, UNCHANGED <<stored, up, known, cursor, polled, check, retryTimer,
               dropped, loop, runner, handed, piped, stray, late, missed>>,
           Mishaps' # 0, Mishaps' <= 1 => Mishaps = 0
    PROVE  CoverInv'
<1>1. /\ Unread' = Unread
      /\ \A m : Held(m)' = Held(m) /\ Awaited(m)' = Awaited(m) /\ Blind(m)' = Blind(m)
  BY DEF Unread, MessagesSince, Held, Awaited, Blind
<1>2. LoopKnows' /\ PassedIsMissed' /\ RunHanded' /\ PipedIsSafe'
  BY <1>1 DEF CoverInv, LoopKnows, PassedIsMissed, RunHanded, PipedIsSafe
<1>3. TwoWays' /\ OneWay'
  BY <1>1 DEF CoverInv, TwoWays, OneWay
<1> QED BY <1>2, <1>3 DEF CoverInv

\* The web process: a message is stored where the poll will see it, or is noted
\* as missed, with its event still to be published.
LEMMA WebCovers ==
    ASSUME Before, Web
    PROVE  CoverInv'
<1> USE MishapsCount, MessagesAreNumbers DEF Before
<1>0. TypeOK /\ Shape /\ CoverInv
  BY DEF HandoverInv
<1>1. CASE CreateRun
  <2>1. /\ UNCHANGED <<stored, inbound, up, known, cursor, polled, check, retryTimer,
               dropped, loop, runner, handed, piped, stray, late, missed, faults>>
        /\ web' = [web EXCEPT ![sent + 1] = "created"]
    BY <1>1 DEF CreateRun, cursors, queue, agent
  <2>2. \A m \in stored : m # sent + 1
    BY <1>0, <2>1 DEF Shape, TypeOK
  <2>3. \A m \in stored : Announced(m) => Announced(m)'
    BY <1>0, <2>1, <2>2 DEF Announced, TypeOK
  <2> QED BY <1>0, <2>1, <2>3, SameCover
<1>2. CASE \E m \in Messages : StoreMessage(m)
  <2>0. PICK s \in Messages : StoreMessage(s)
    BY <1>2
  <2>1. /\ UNCHANGED <<sent, inbound, up, known, cursor, polled, check, retryTimer, dropped,
                       loop, runner, handed, piped, stray, faults>>
        /\ stored' = stored \cup {s} /\ late \subseteq late' /\ missed \subseteq missed'
        /\ s <= polled => s \in missed'
        /\ web' = [web EXCEPT ![s] = "stored"]
    BY <2>0 DEF StoreMessage, cursors, queue, agent
  <2>2. s \in Nat
    BY DEF Messages
  <2>3. Mishaps' = Mishaps
    BY <2>1, NoMishap
  <2>4. LoopKnows' /\ RunHanded' /\ PipedIsSafe'
    BY <1>0, <2>1 DEF CoverInv, LoopKnows, RunHanded, PipedIsSafe, Held
  <2>5. PassedIsMissed'
    BY <1>0, <2>1, <2>2 DEF CoverInv, PassedIsMissed
  <2>6. Announced(s)' /\ (Awaited(s)' \/ Blind(s)')
    BY <1>0, <2>1, <2>2 DEF Announced, Awaited, Blind, TypeOK
  <2>7. \A m \in Unread' : m = s \/ m \in Unread
    BY <2>1 DEF Unread, MessagesSince
  <2>8. \A m \in Unread : /\ Held(m) => Held(m)'
                          /\ Announced(m) => Announced(m)'
                          /\ Awaited(m) => Awaited(m)'
                          /\ Blind(m) => Blind(m)'
    <3> SUFFICES ASSUME NEW m \in Unread
                 PROVE  /\ Held(m) => Held(m)'
                        /\ Announced(m) => Announced(m)'
                        /\ Awaited(m) => Awaited(m)'
                        /\ Blind(m) => Blind(m)'
      OBVIOUS
    <3>1. m \in Messages
      BY <1>0 DEF Unread, MessagesSince, TypeOK
    <3>2. Announced(m) => Announced(m)'
      BY <1>0, <2>1, <3>1 DEF Announced, TypeOK
    <3> QED BY <2>1, <3>2 DEF Held, Awaited, Blind
  <2>9. TwoWays'
    BY <1>0, <2>3, <2>6, <2>7, <2>8 DEF CoverInv, TwoWays
  <2>10. OneWay'
    BY <1>0, <2>1, <2>3, <2>6, <2>7, <2>8 DEF CoverInv, OneWay
  <2> QED BY <2>4, <2>5, <2>9, <2>10 DEF CoverInv
<1>3. CASE \E m \in Messages : PublishInbound(m)
  <2>0. PICK s \in Messages : PublishInbound(s)
    BY <1>3
  <2>1. UNCHANGED <<stored, up, known, cursor, polled, check, retryTimer, dropped,
                    loop, runner, handed, piped, stray, late, missed>>
    BY <2>0 DEF PublishInbound, cursors, queue, agent
  <2>2. CASE inbound' = inbound \cup {s} /\ lostEvents' = lostEvents
    <3>1. UNCHANGED faults
      BY <2>0, <2>2 DEF PublishInbound, faults
    <3>2. \A m \in stored : Announced(m) => Announced(m)'
      BY <1>0, <2>0, <2>2 DEF PublishInbound, Announced, TypeOK
    <3> QED BY <1>0, <2>1, <3>1, <3>2, SameCover
  <2>3. CASE lostEvents' = lostEvents + 1
    <3>1. Mishaps' # 0 /\ (Mishaps' <= 1 => Mishaps = 0)
      BY <2>0, <2>3, OneMishap DEF PublishInbound
    <3> QED BY <1>0, <2>1, <3>1, LostWay
  <2> QED BY <2>0, <2>2, <2>3 DEF PublishInbound
<1>4. CASE WebCrash
  <2>1. UNCHANGED <<stored, up, known, cursor, polled, check, retryTimer, dropped,
                    loop, runner, handed, piped, stray, late, missed>>
    BY <1>4 DEF WebCrash, cursors, queue, agent
  <2>2. Mishaps' # 0 /\ (Mishaps' <= 1 => Mishaps = 0)
    BY <1>4, OneMishap DEF WebCrash
  <2> QED BY <1>0, <2>1, <2>2, LostWay
<1> QED BY <1>1, <1>2, <1>3, <1>4 DEF Web

\* The listener turns an event into a check, or fails and leaves it to the poll,
\* from which the message is hidden if the conversation was not in _state.
LEMMA IncomingCovers ==
    ASSUME Before, NEW i \in Messages, HandleIncoming(i)
    PROVE  CoverInv'
<1> USE MishapsCount, MessagesAreNumbers DEF Before
<1>0. TypeOK
  BY DEF HandoverInv
<1>1. /\ UNCHANGED <<stored, up, cursor, polled, retryTimer, dropped, loop, runner,
                     handed, piped, stray, late, missed>>
      /\ known => known'
  <2>1. UNCHANGED <<stored, up, cursor, polled, retryTimer, dropped, loop, runner,
                    handed, piped, stray, late, missed>>
    BY DEF HandleIncoming, cursors, agent
  <2>2. known' \in {known, TRUE}
    BY Zenon DEF HandleIncoming
  <2>3. known => known'
    BY <2>2, Zenon
  <2> QED BY <2>1, <2>3
<1>2. LoopKnows' /\ RunHanded'
  BY <1>1 DEF CoverInv, LoopKnows, RunHanded
<1>3. PassedIsMissed'
  BY <1>1 DEF CoverInv, PassedIsMissed
<1>4. Unread' = Unread /\ \A m \in Unread : m \in stored
  BY <1>1 DEF Unread, MessagesSince
<1>5. CASE check' = TRUE
  <2>1. \A m : Held(m)'
    BY <1>5 DEF Held
  <2> QED BY <1>2, <1>3, <2>1 DEF CoverInv, PipedIsSafe, TwoWays, OneWay
<1>6. CASE /\ check' = check
           /\ \/ dbFailures' = dbFailures + 1 /\ lostEvents' = lostEvents
              \/ lostEvents' = lostEvents + 1 /\ dbFailures' = dbFailures
  <2>1. Mishaps' # 0 /\ (Mishaps' <= 1 => Mishaps = 0)
    BY <1>6, OneMishap DEF HandleIncoming
  <2>2. \A m : Held(m)' = Held(m)
    BY <1>1, <1>6 DEF Held
  <2>3. PipedIsSafe'
    BY <1>1, <2>2 DEF CoverInv, PipedIsSafe
  <2>4. \A m \in Unread : Awaited(m) \/ Blind(m) => Awaited(m)' \/ Blind(m)'
    BY <1>1, <1>4 DEF CoverInv, PassedIsMissed, Awaited, Blind
  <2>5. TwoWays' /\ OneWay'
    BY <1>4, <2>1, <2>2, <2>4 DEF CoverInv, TwoWays, OneWay
  <2> QED BY <1>2, <1>3, <2>3, <2>5 DEF CoverInv
<1> QED BY <1>5, <1>6 DEF HandleIncoming

\* The message loop.  What it reads is in its batch, what it pipes is behind the
\* cursor, and what it refuses becomes a check.  A pipe may move the cursor
\* back, but not behind what the poll has returned.
LEMMA LoopCovers ==
    ASSUME Before, Loop \/ PollOthers
    PROVE  CoverInv'
<1> USE MishapsCount, MessagesAreNumbers DEF Before
<1>0. TypeOK /\ Shape
  BY DEF HandoverInv
<1>1. CASE Poll
  <2>1. /\ UNCHANGED <<web, stored, inbound, up, known, cursor, check, retryTimer,
                       dropped, runner, handed, piped, stray, late, missed>>
        /\ loop'.at = "polled" /\ loop'.batch = loop.batch /\ known
    BY <1>0, <1>1 DEF Poll, browser, queue, agent, TypeOK
  <2>2. LoopKnows' /\ PassedIsMissed' /\ RunHanded' /\ PipedIsSafe'
    BY <2>1 DEF CoverInv, LoopKnows, PassedIsMissed, RunHanded, PipedIsSafe
  <2>3. Unread' = Unread
    BY <2>1 DEF Unread, MessagesSince
  <2>4. \A m : Held(m)' = Held(m) /\ Announced(m)' = Announced(m) /\ Awaited(m)'
    BY <2>1 DEF Held, Announced, Awaited
  <2>5. Mishaps' = Mishaps
    BY <1>1, NoMishap DEF Poll
  <2> QED BY <2>2, <2>3, <2>4, <2>5 DEF CoverInv, TwoWays, OneWay
<1>2. CASE LoopReads
  <2>1. /\ UNCHANGED <<web, stored, inbound, up, known, cursor, polled, check,
                       retryTimer, dropped, runner, handed, piped, stray, late, missed>>
        /\ loop.at = "polled"
    BY <1>2 DEF LoopReads, browser, cursors, queue, agent
  <2>2. Unread' = Unread
    BY <2>1 DEF Unread, MessagesSince
  <2>3. \A m : Held(m)' = Held(m) /\ Announced(m)' = Announced(m) /\ Blind(m)' = Blind(m)
    BY <2>1 DEF Held, Announced, Blind
  <2>4. RunHanded' /\ known /\ piped \cup stray \subseteq stored
    BY <2>1 DEF CoverInv, RunHanded, LoopKnows
  <2>5. CASE loop' = IdleLoop
    <3>1. LoopKnows' /\ PassedIsMissed' /\ PipedIsSafe'
      BY <2>1, <2>4, <2>5, IdleTypes DEF LoopKnows, PassedIsMissed, PipedIsSafe
    <3>2. CASE dbFailures' = dbFailures + 1
      <4>1. Mishaps' # 0 /\ (Mishaps' <= 1 => Mishaps = 0)
        BY <1>2, <3>2, OneMishap DEF LoopReads
      <4> QED BY <2>1, <2>2, <2>3, <2>4, <3>1, <4>1 DEF CoverInv, TwoWays, OneWay
    <3>3. CASE MessagesSince(cursor) = {}
      <4>1. Unread' = {}
        BY <2>2, <3>3 DEF Unread
      <4> QED BY <2>4, <3>1, <4>1 DEF CoverInv, TwoWays, OneWay
    <3>4. dbFailures' = dbFailures + 1 \/ MessagesSince(cursor) = {}
      BY <1>2, <2>5 DEF LoopReads, IdleLoop
    <3> QED BY <3>2, <3>3, <3>4
  <2>6. CASE /\ MessagesSince(cursor) # {} /\ dbFailures' = dbFailures
             /\ loop' = [at |-> "read", batch |-> MessagesSince(cursor)]
    <3>1. loop'.at = "read" /\ loop'.batch = MessagesSince(cursor)
      BY <2>6
    <3>2. PICK b \in MessagesSince(cursor) : TRUE
      BY <2>6
    <3>3. b \in Nat /\ b > cursor
      BY <1>0, <3>2 DEF MessagesSince
    <3>4. \A m \in stored : \E c \in MessagesSince(cursor) : m <= c
      <4> SUFFICES ASSUME NEW m \in stored PROVE \E c \in MessagesSince(cursor) : m <= c
        OBVIOUS
      <4>1. m \in Nat /\ cursor \in Nat
        BY <1>0
      <4>2. CASE m > cursor
        <5>1. m \in MessagesSince(cursor) /\ m <= m
          BY <4>1, <4>2 DEF MessagesSince
        <5> QED BY <5>1
      <4>3. CASE m <= cursor
        <5>1. m <= b
          BY <3>3, <4>1, <4>3
        <5> QED BY <3>2, <5>1
      <4> QED BY <4>1, <4>2, <4>3
    <3>5. LoopKnows' /\ PassedIsMissed'
      <4>1. loop'.batch \subseteq stored
        BY <3>1 DEF MessagesSince
      <4> QED BY <2>1, <2>4, <3>1, <3>4, <4>1 DEF LoopKnows, PassedIsMissed
    <3>6. \A m \in Unread : Awaited(m)'
      BY <3>1 DEF Unread, Awaited
    <3>7. Mishaps' = Mishaps
      BY <1>2, <2>6, NoMishap DEF LoopReads, faults
    <3>8. PipedIsSafe'
      BY <3>1 DEF PipedIsSafe
    <3> QED BY <2>2, <2>3, <2>4, <3>5, <3>6, <3>7, <3>8 DEF CoverInv, TwoWays, OneWay
  <2> QED BY <1>2, <2>5, <2>6 DEF LoopReads
<1>3. CASE LoopPipes
  <2>1. /\ UNCHANGED <<web, stored, inbound, up, known, polled, check, retryTimer,
                       dropped, runner, handed, late, missed>>
        /\ loop.at = "read" /\ loop'.at = "piped" /\ loop'.batch = loop.batch
        /\ cursor' = Maximum(loop.batch)
    BY <1>0, <1>3 DEF LoopPipes, browser, queue, TypeOK
  <2>2. /\ cursor' \in Nat /\ cursor' \in loop.batch
        /\ \A b \in loop.batch : b \in Nat /\ b <= cursor'
    BY <1>0, <2>1, MaximumIs DEF TypeOK, Shape, Messages
  <2>3. piped' \subseteq stored /\ stray' \subseteq stored /\ loop'.batch \subseteq stored
    BY <1>3, <2>1 DEF LoopPipes, CoverInv, LoopKnows
  <2>4. LoopKnows' /\ PassedIsMissed' /\ PipedIsSafe'
    BY <2>1, <2>2, <2>3 DEF CoverInv, LoopKnows, PassedIsMissed, PipedIsSafe
  <2>5. \A m : Held(m)' = Held(m) /\ Announced(m)' = Announced(m)
    BY <2>1 DEF Held, Announced
  <2>6. \A m \in Unread' : /\ m \in stored /\ m \in Nat /\ m > cursor'
                           /\ m \notin handed \cup late
    BY <1>0, <2>1 DEF Unread, MessagesSince
  <2>7. \A m \in Unread' : \A b \in loop.batch : ~(m <= b)
    BY <2>2, <2>6
  <2>8. \A m \in Unread' : Awaited(m)' \/ Blind(m)'
    BY <2>1, <2>6, <2>7 DEF CoverInv, PassedIsMissed, LoopKnows, Awaited, Blind
  <2>9. OneWay'
    BY <2>8 DEF OneWay
  <2>10. RunHanded'
    <3>1. runner.at # "read"
      BY <1>0, <1>3 DEF LoopPipes, Registered, Shape
    <3> QED BY <2>1, <3>1 DEF CoverInv, RunHanded
  <2>11. NoneSkipped => \A m \in Unread' : m \in Unread \/ Held(m)
    <3> SUFFICES ASSUME NoneSkipped, NEW m \in Unread', ~Held(m) PROVE m \in Unread
      OBVIOUS
    <3>1. m \notin piped \cup stray
      BY <2>1, <2>7 DEF CoverInv, LoopKnows
    <3>2. ~(m <= cursor)
      BY <2>6, <3>1 DEF NoneSkipped, Kept, Held
    <3> QED BY <1>0, <2>6, <3>2 DEF Unread, MessagesSince
  <2>12. Mishaps' = 0 => Mishaps = 0
    <3>1. CASE lostEvents' = lostEvents
      BY <1>3, <3>1, NoMishap DEF LoopPipes, faults
    <3>2. CASE lostEvents' = lostEvents + 1
      BY <1>3, <3>2, OneMishap DEF LoopPipes
    <3> QED BY <1>3, <3>1, <3>2 DEF LoopPipes
  <2>13. TwoWays'
    BY <2>5, <2>8, <2>11, <2>12 DEF CoverInv, TwoWays
  <2> QED BY <2>4, <2>9, <2>10, <2>13 DEF CoverInv
<1>4. CASE LoopEnqueues
  <2>1. /\ check' = TRUE /\ loop' = IdleLoop
        /\ UNCHANGED <<stored, known, cursor, polled, runner, handed, piped, stray, missed>>
    BY <1>4 DEF LoopEnqueues, browser, cursors, agent
  <2>2. \A m : Held(m)'
    BY <2>1 DEF Held
  <2> QED BY <2>1, <2>2, IdleTypes DEF CoverInv, LoopKnows, PassedIsMissed, RunHanded,
            PipedIsSafe, TwoWays, OneWay
<1>5. CASE LoopCommits
  <2>1. /\ UNCHANGED <<web, stored, inbound, up, known, cursor, polled, check,
                       retryTimer, dropped, runner, handed, piped, stray, late, missed>>
        /\ loop.at = "piped" /\ loop' = IdleLoop
    BY <1>5 DEF LoopCommits, browser, queue, agent
  <2>2. LoopKnows' /\ PassedIsMissed' /\ RunHanded' /\ PipedIsSafe'
    BY <2>1, IdleTypes DEF CoverInv, LoopKnows, PassedIsMissed, RunHanded, PipedIsSafe
  <2>3. Unread' = Unread
    BY <2>1 DEF Unread, MessagesSince
  <2>4. \A m : Held(m)' = Held(m) /\ Announced(m)' = Announced(m) /\ Blind(m)' = Blind(m)
    BY <2>1 DEF Held, Announced, Blind
  <2>5. \A m \in Unread : m \in loop.batch => Held(m)
    BY <1>0, <2>1 DEF CoverInv, PipedIsSafe, Unread, MessagesSince
  <2>6. \A m \in Unread : Awaited(m) => Awaited(m)' \/ Held(m)'
    BY <2>1, <2>4, <2>5 DEF Awaited
  <2>7. Mishaps' = Mishaps \/ (Mishaps' # 0 /\ (Mishaps' <= 1 => Mishaps = 0))
    <3>1. CASE dbFailures' = dbFailures
      BY <1>5, <3>1, NoMishap DEF LoopCommits, faults
    <3>2. CASE dbFailures' = dbFailures + 1
      BY <1>5, <3>2, OneMishap DEF LoopCommits
    <3> QED BY <1>5, <3>1, <3>2 DEF LoopCommits
  <2>8. TwoWays'
    BY <2>3, <2>4, <2>6, <2>7 DEF CoverInv, TwoWays
  <2>9. OneWay'
    BY <2>1, <2>3, <2>4, <2>6, <2>7 DEF CoverInv, OneWay, TwoWays
  <2> QED BY <2>2, <2>8, <2>9 DEF CoverInv
<1>6. CASE PollOthers
  <2>1. /\ UNCHANGED <<web, stored, inbound, up, known, cursor, check, retryTimer,
                       dropped, runner, loop, handed, piped, stray, late>>
        /\ loop.at = "idle" /\ polled' \in Nat /\ missed \subseteq missed'
        /\ \A m \in stored : m > polled => m > polled' \/ m \in missed'
    <3>1. polled' \in Nat
      BY HandoverAssumptions DEF HandoverInv, TypeOK
    <3> QED BY <1>0, <1>6, <3>1 DEF PollOthers, browser, queue, agent, MessagesSince
  <2>2. LoopKnows' /\ PassedIsMissed' /\ RunHanded' /\ PipedIsSafe'
    BY <2>1 DEF CoverInv, LoopKnows, PassedIsMissed, RunHanded, PipedIsSafe
  <2>3. Unread' = Unread /\ \A m \in Unread : m \in stored
    BY <2>1 DEF Unread, MessagesSince
  <2>4. \A m : Held(m)' = Held(m) /\ Announced(m)' = Announced(m) /\ (Blind(m) => Blind(m)')
    BY <2>1 DEF Held, Announced, Blind
  <2>5. \A m \in Unread : Awaited(m) => Awaited(m)' \/ Blind(m)'
    BY <2>1, <2>3 DEF Awaited, Blind
  <2>6. Mishaps' = Mishaps
    BY <1>6, NoMishap DEF PollOthers
  <2>7. TwoWays'
    BY <2>3, <2>4, <2>5, <2>6 DEF CoverInv, TwoWays
  <2>8. OneWay'
    BY <2>1, <2>3, <2>4, <2>5, <2>6 DEF CoverInv, OneWay
  <2> QED BY <2>2, <2>7, <2>8 DEF CoverInv
<1> QED BY <1>1, <1>2, <1>3, <1>4, <1>5, <1>6 DEF Loop

\* If everything is held, everything is covered.
LEMMA AllHeldCovers ==
    ASSUME CoverInv, UNCHANGED <<stored, known, polled, loop, missed>>, RunHanded',
           piped' \cup stray' \subseteq piped \cup stray, \A m : Held(m)'
    PROVE  CoverInv'
BY DEF CoverInv, LoopKnows, PassedIsMissed, PipedIsSafe, TwoWays, OneWay

\* A failed run ends with a retry or with its retries exhausted.
LEMMA RetriesHold ==
    ASSUME TypeOK, Retries
    PROVE  RunHanded' /\ \A m : Held(m)'
<1>1. runner' = IdleRunner
  BY DEF Retries
<1>2. retryTimer' \/ dropped'
  BY HandoverAssumptions DEF Retries, TypeOK
<1> QED BY <1>1, <1>2, IdleTypes DEF RunHanded, Held

\* A step that keeps the cursor or moves it forward, leaves web, loop and table
\* alone, counts no mishap, and lets go of a message only when an agent has it.
LEMMA ForwardCovers ==
    ASSUME CoverInv,
           UNCHANGED <<web, stored, inbound, up, known, polled, loop, piped, stray, late,
                       missed, faults>>,
           RunHanded', Unread' \subseteq Unread,
           \A m \in stored : m <= cursor => m <= cursor' \/ m \in handed',
           handed \subseteq handed',
           \A m \in stored : Held(m) => Held(m)' \/ m \in handed' \/ m <= cursor',
           TypeOK, TypeOK'
    PROVE  CoverInv'
<1> USE MessagesAreNumbers
<1>0. cursor' \in Nat
  BY DEF TypeOK
<1>1. Mishaps' = Mishaps
  BY NoMishap
<1>2. LoopKnows' /\ PassedIsMissed'
  BY DEF CoverInv, LoopKnows, PassedIsMissed
<1>3. PipedIsSafe'
  BY DEF CoverInv, LoopKnows, PipedIsSafe
<1>4. \A m \in Unread' : m \in stored /\ m \notin handed' /\ m \in Nat /\ m > cursor'
  BY DEF Unread, MessagesSince
<1>5. \A m \in Unread' : m \in Unread /\ (Held(m) => Held(m)')
  BY <1>0, <1>4
<1>6. \A m : /\ Announced(m)' = Announced(m) /\ Awaited(m)' = Awaited(m)
            /\ Blind(m)' = Blind(m)
  BY DEF Announced, Awaited, Blind
<1>7. TwoWays'
  BY <1>1, <1>5, <1>6 DEF CoverInv, TwoWays
<1>8. OneWay'
  BY <1>1, <1>5, <1>6 DEF CoverInv, OneWay
<1> QED BY <1>2, <1>3, <1>7, <1>8 DEF CoverInv

\* The runner.  A check becomes its batch, the batch is handed over or ends in a
\* retry, and the cursor is put back only on the way to a retry.
LEMMA RunnerCovers ==
    ASSUME Before, Runner
    PROVE  CoverInv'
<1> USE MessagesAreNumbers DEF Before
<1>0. TypeOK /\ TypeOK' /\ Shape
  BY DEF HandoverInv
<1>1. CASE RunnerReads
  <2>1. /\ UNCHANGED <<web, stored, inbound, up, known, cursor, polled, loop, handed, piped,
                       stray, late, missed>>
        /\ runner.at = "idle"
    BY <1>1 DEF RunnerReads, browser, cursors, agent
  <2>2. CASE Retries
    BY <1>0, <2>1, <2>2, RetriesHold, AllHeldCovers
  <2>3. \A m \in stored : m \in MessagesSince(cursor) \/ m <= cursor
    BY <1>0 DEF MessagesSince
  <2>4. Unread' = Unread
    BY <2>1 DEF Unread, MessagesSince
  <2>5. CASE MessagesSince(cursor) = {} /\ Succeeds /\ dbFailures' = dbFailures
    <3>1. RunHanded'
      BY <2>5, IdleTypes DEF Succeeds, RunHanded
    <3>2. UNCHANGED faults
      BY <1>1, <2>5 DEF RunnerReads, faults
    <3> QED BY <1>0, <2>1, <2>3, <2>4, <2>5, <3>1, <3>2, ForwardCovers
  <2>6. CASE /\ runner' = [at |-> "read", batch |-> MessagesSince(cursor), prev |-> 0]
             /\ dbFailures' = dbFailures
    <3>1. RunHanded'
      BY <2>1, <2>6 DEF RunHanded, MessagesSince
    <3>2. UNCHANGED faults
      BY <1>1, <2>6 DEF RunnerReads, faults
    <3>3. \A m \in stored : Held(m)' \/ m <= cursor'
      BY <2>1, <2>3, <2>6 DEF Held
    <3> QED BY <1>0, <2>1, <2>4, <3>1, <3>2, <3>3, ForwardCovers
  <2> QED BY <1>1, <2>2, <2>5, <2>6 DEF RunnerReads
<1>2. CASE RunnerAdvances
  <2>1. /\ UNCHANGED <<web, stored, inbound, up, known, polled, loop, handed, check,
                       retryTimer, dropped, piped, stray, late, missed, faults>>
        /\ runner.at = "read" /\ cursor' = Maximum(runner.batch)
        /\ runner'.at = "advance" /\ runner'.batch = runner.batch
    BY <1>0, <1>2 DEF RunnerAdvances, browser, queue, agent, TypeOK
  <2>2. cursor <= cursor' /\ cursor' \in Nat
    <3>1. cursor' \in runner.batch
      BY <1>0, <2>1, MaximumIs DEF TypeOK, Shape
    <3>2. cursor' > cursor
      BY <2>1, <3>1 DEF CoverInv, RunHanded
    <3> QED BY <1>0, <3>1, <3>2
  <2>3. Unread' \subseteq Unread
    BY <1>0, <2>1, <2>2 DEF Unread, MessagesSince
  <2>4. \A m : Held(m)' = Held(m)
    BY <2>1 DEF Held
  <2>5. RunHanded' /\ \A m \in stored : m <= cursor => m <= cursor'
    BY <1>0, <2>1, <2>2 DEF RunHanded
  <2> QED BY <1>0, <2>1, <2>3, <2>4, <2>5, ForwardCovers
<1>3. CASE RunnerCommits
  <2>1. UNCHANGED <<web, stored, inbound, up, known, cursor, polled, loop, handed, check, piped,
                    stray, late, missed>>
    BY <1>3 DEF RunnerCommits, browser, agent
  <2>2. CASE Retries
    BY <1>0, <2>1, <2>2, RetriesHold, AllHeldCovers
  <2>3. CASE /\ runner' = [runner EXCEPT !.at = "spawn"]
             /\ UNCHANGED <<retries, retryTimer, dropped, dbFailures>>
    <3>1. runner'.at = "spawn" /\ runner'.batch = runner.batch /\ runner.at = "advance"
      BY <1>0, <1>3, <2>3 DEF RunnerCommits, TypeOK
    <3>2. UNCHANGED faults
      BY <1>3, <2>3 DEF RunnerCommits, faults
    <3>3. Unread' = Unread /\ RunHanded' /\ \A m : Held(m)' = Held(m)
      BY <2>1, <2>3, <3>1 DEF Unread, MessagesSince, RunHanded, Held
    <3> QED BY <1>0, <2>1, <3>2, <3>3, ForwardCovers
  <2> QED BY <1>3, <2>2, <2>3 DEF RunnerCommits
<1>4. CASE RunnerSpawns
  <2>0. UNCHANGED <<web, stored, inbound, up, known, cursor, polled, loop, check, piped,
                    stray, late, missed>>
    BY <1>4 DEF RunnerSpawns, browser, cursors
  <2>1. CASE Escapes
    BY <1>0, <2>0, <2>1, RetriesHold, AllHeldCovers DEF Escapes
  <2>2. CASE /\ \/ runner' = [runner EXCEPT !.at = "run"] /\ handed' = handed \cup runner.batch
                \/ runner' = [runner EXCEPT !.at = "failed"] /\ handed' = handed
             /\ UNCHANGED <<retryTimer, dropped, escapes>>
    <3>1. /\ runner'.batch = runner.batch /\ runner.at = "spawn"
          /\ \/ runner'.at = "run" /\ handed' = handed \cup runner.batch
             \/ runner'.at = "failed" /\ handed' = handed
      BY <1>0, <1>4, <2>2 DEF RunnerSpawns, TypeOK
    <3>2. UNCHANGED faults
      BY <1>4, <2>2 DEF RunnerSpawns, faults
    <3>3. Unread' \subseteq Unread /\ RunHanded' /\ handed \subseteq handed'
      BY <2>0, <3>1 DEF Unread, MessagesSince, RunHanded
    <3>4. \A m : Held(m) => Held(m)'
      BY <2>0, <2>2, <3>1 DEF Held
    <3> QED BY <1>0, <2>0, <3>2, <3>3, <3>4, ForwardCovers
  <2> QED BY <1>4, <2>1, <2>2 DEF RunnerSpawns
<1>5. CASE RunnerEnds
  <2>0. /\ UNCHANGED <<web, stored, inbound, up, known, cursor, polled, loop, handed,
                       check, piped, stray, late, missed>>
        /\ runner.at = "run"
    BY <1>5 DEF RunnerEnds, browser, cursors
  <2>1. CASE Escapes
    BY <1>0, <2>0, <2>1, RetriesHold, AllHeldCovers DEF Escapes
  <2>2. CASE /\ runner' = IdleRunner \/ runner' = [runner EXCEPT !.at = "failed"]
             /\ UNCHANGED <<retryTimer, dropped, escapes>>
    <3>1. /\ runner'.at \in {"idle", "failed"}
          /\ runner'.batch = {} \/ runner'.batch = runner.batch
      BY <1>0, <2>2, IdleTypes DEF TypeOK
    <3>2. UNCHANGED faults
      BY <1>5, <2>2 DEF RunnerEnds, faults
    <3>3. Unread' = Unread /\ RunHanded'
      BY <2>0, <3>1 DEF Unread, MessagesSince, RunHanded
    <3>4. \A m : Held(m) => Held(m)' \/ m \in handed'
      BY <2>0, <2>2, <3>1 DEF Held, CoverInv, RunHanded
    <3> QED BY <1>0, <2>0, <3>2, <3>3, <3>4, ForwardCovers
  <2> QED BY <1>5, <2>1, <2>2 DEF RunnerEnds, Succeeds
<1>6. CASE RunnerPutsBack
  <2>1. /\ UNCHANGED <<stored, known, polled, loop, missed>> /\ runner'.at = "rollback"
        /\ piped' \cup stray' \subseteq piped \cup stray
    BY <1>0, <1>6 DEF RunnerPutsBack, browser, TypeOK
  <2>2. RunHanded' /\ \A m : Held(m)'
    BY <2>1 DEF RunHanded, Held
  <2> QED BY <2>1, <2>2, AllHeldCovers
<1>7. CASE RunnerRollsBack
  <2>1. UNCHANGED <<stored, known, polled, loop, piped, stray, missed>> /\ Retries
    BY <1>7 DEF RunnerRollsBack, browser
  <2> QED BY <1>0, <2>1, RetriesHold, AllHeldCovers
<1>8. CASE RetryFires
  <2>1. /\ UNCHANGED <<stored, known, cursor, polled, loop, runner, handed, piped, stray,
                       missed>>
        /\ check'
    BY <1>8 DEF RetryFires, browser, cursors, agent
  <2>2. RunHanded' /\ \A m : Held(m)'
    BY <2>1 DEF CoverInv, RunHanded, Held
  <2> QED BY <2>1, <2>2, AllHeldCovers
<1> QED BY <1>1, <1>2, <1>3, <1>4, <1>5, <1>6, <1>7, <1>8 DEF Runner

\* A container that ends, or reads its input, lets go of nothing here: what it
\* was sent is behind the cursor.
LEMMA EndCovers ==
    ASSUME CoverInv, ContainerEnds \/ AgentReads \/ UNCHANGED vars
    PROVE  CoverInv'
<1>1. /\ UNCHANGED <<web, stored, inbound, up, known, cursor, polled, loop, runner,
                     check, retryTimer, dropped, late, missed, faults>>
      /\ handed \subseteq handed' /\ piped' \cup stray' \subseteq piped \cup stray
  BY DEF ContainerEnds, AgentReads, vars, browser, cursors, queue, agent
<1>2. Mishaps' = Mishaps
  BY <1>1, NoMishap
<1>3. /\ Unread' \subseteq Unread
      /\ \A m : /\ Held(m)' = Held(m) /\ Awaited(m)' = Awaited(m) /\ Blind(m)' = Blind(m)
               /\ Announced(m)' = Announced(m)
  BY <1>1 DEF Unread, MessagesSince, Held, Awaited, Blind, Announced
<1>4. LoopKnows' /\ PassedIsMissed' /\ RunHanded' /\ PipedIsSafe'
  BY <1>1, <1>3 DEF CoverInv, LoopKnows, PassedIsMissed, RunHanded, PipedIsSafe
<1>5. TwoWays'
  BY <1>2, <1>3 DEF CoverInv, TwoWays
<1>6. OneWay'
  BY <1>1, <1>2, <1>3 DEF CoverInv, OneWay
<1> QED BY <1>4, <1>5, <1>6 DEF CoverInv

\* A crash takes the orchestrator down, and the restart checks what is beyond
\* the cursor of the database.
LEMMA CrashCovers ==
    ASSUME Before, Crash \/ Restart
    PROVE  CoverInv'
<1> USE DEF Before
<1>1. CASE Crash
  <2>1. /\ UNCHANGED <<stored, known, polled, piped, stray, missed>> /\ ~up'
        /\ loop' = IdleLoop /\ runner' = IdleRunner
    BY <1>1 DEF Crash, browser, cursors, agent
  <2>2. Mishaps' # 0
    BY <1>1, OneMishap DEF Crash
  <2> QED BY <2>1, <2>2, IdleTypes DEF CoverInv, LoopKnows, PassedIsMissed, RunHanded,
            PipedIsSafe, TwoWays, OneWay
<1>2. CASE Restart
  <2>1. /\ UNCHANGED <<stored, polled, loop, runner, missed>> /\ cursor' = dbCursor
        /\ check' = (MessagesSince(dbCursor) # {}) /\ known'
        /\ piped' \cup stray' \subseteq piped \cup stray
    BY <1>2 DEF Restart
  <2>2. loop.at = "idle" /\ runner.at = "idle"
    BY <1>2, IdleTypes DEF Restart, IdleWhenDown
  <2>3. \A m \in Unread' : Held(m)'
    BY <2>1 DEF Unread, MessagesSince, Held
  <2> QED BY <2>1, <2>2, <2>3 DEF CoverInv, LoopKnows, PassedIsMissed, RunHanded,
            PipedIsSafe, TwoWays, OneWay
<1> QED BY <1>1, <1>2

\* There is nothing to cover at the start.
LEMMA CoverInit == Init => CoverInv
BY IdleTypes DEF Init, CoverInv, LoopKnows, PassedIsMissed, RunHanded, PipedIsSafe,
   TwoWays, OneWay, Unread, MessagesSince

\* Every step keeps the messages covered.
LEMMA CoverNext == Before /\ [Next]_vars => CoverInv'
BY WebCovers, IncomingCovers, LoopCovers, RunnerCovers, EndCovers, CrashCovers
   DEF Next, Before

\* Every message that waits can be reached, whatever the interleaving.
THEOREM CoverInvariant == Spec => []CoverInv
<1>1. Init => IdleWhenDown
  BY DEF Init, IdleWhenDown
<1>2. Spec => []IdleWhenDown
  BY <1>1, DownIsIdle, PTL DEF Spec
<1>3. HandoverInv /\ HandoverInv' /\ IdleWhenDown /\ CoverInv /\ [Next]_vars => CoverInv'
  BY CoverNext DEF Before
<1> QED BY <1>2, <1>3, CoverInit, HandoverInvariant, PTL DEF Spec

\* With one lost event, failed statement, crash or escaped exception at most, no
\* stored message is left behind by the listener, the poll, the runner's retries
\* and the recovery at startup together, for any number of messages and
\* retries, unless its row came late or, after the mishap, the poll is blind to
\* it.
THEOREM NoMessageIsStranded == Spec => []NoStrandedMessage
<1>1. HandoverInv /\ CoverInv => NoStrandedMessage
  <2> SUFFICES ASSUME HandoverInv, CoverInv, Mishaps <= 1, NEW m \in Unread
               PROVE  Reached(m) \/ (Mishaps = 1 /\ (~known \/ m \in missed))
    BY DEF NoStrandedMessage, Unread
  <2>1. Mishaps = 0 \/ Mishaps = 1
    BY MishapsCount
  <2>2. CASE Mishaps = 0
    BY <2>2 DEF CoverInv, TwoWays, Held, Announced, Reached
  <2>3. CASE Mishaps = 1
    BY <2>3 DEF CoverInv, OneWay, Held, Announced, Awaited, Blind, Reached
  <2> QED BY <2>1, <2>2, <2>3
<1> QED BY <1>1, CoverInvariant, HandoverInvariant, PTL

=============================================================================
