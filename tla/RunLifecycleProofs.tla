------------------------- MODULE RunLifecycleProofs -------------------------
(***************************************************************************)
(* Proofs about RunLifecycle, for any number of runs, results in flight    *)
(* and faults that RunAssumptions allows.                                  *)
(*                                                                         *)
(* FrameMirrorsRow is not inductive.  A frame is sent after the row was    *)
(* written, in another step, and other writers run in between: what the    *)
(* reader is about to announce must still be what the row says, which      *)
(* holds because an ended row never changes (EndedRunsAreFinal), and the   *)
(* run it writes to must be one that exists.                               *)
(***************************************************************************)
EXTENDS RunLifecycle, TLAPS

\* Rows exist for the runs created, and a turn works on one of them.
RowsExist ==
    /\ \A r \in Runs : run[r] = "none" <=> r > created
    /\ activeRun <= created
    /\ turn => activeRun # NoRun

\* A reader between two awaits is at work on a run that exists, unless it shows
\* a block of the model's output.
ReaderHasRun ==
    \/ reader.at \in {"idle", "dead"}
    \/ reader.at = "block" /\ reader.run = NoRun
    \/ /\ reader.run \in Runs
       /\ reader.run <= created
       /\ reader.status \in Terminal

\* What the reader is about to send reports what the row says.
ReaderMirrorsRow ==
    dbFailures = 0 /\ (reader.at = "frame" \/ (reader.at = "block" /\ reader.run # NoRun))
        => run[reader.run] = reader.status

\* The inductive invariant.
RunInv == TypeOK /\ RowsExist /\ ReaderHasRun /\ ReaderMirrorsRow /\ FrameMirrorsRow

-----------------------------------------------------------------------------

\* An UPDATE of a run that exists (update_run_terminal): its row is ended
\* afterwards, and a row that had ended is as it was.
LEMMA UpdateEnds ==
    ASSUME run \in [Runs -> Terminal \cup {"none", "running"}],
           NEW r \in Runs, NEW s \in Terminal, run[r] # "none"
    PROVE  /\ UpdateRunTerminal(r, s) \in [Runs -> Terminal \cup {"none", "running"}]
           /\ UpdateRunTerminal(r, s)[r] \in Terminal
           /\ \A q \in Runs : /\ run[q] # "running" => UpdateRunTerminal(r, s)[q] = run[q]
                              /\ UpdateRunTerminal(r, s)[q] = "none" <=> run[q] = "none"
BY DEF UpdateRunTerminal, Terminal

\* The types of the initial state.
LEMMA InitInv == Init => RunInv
<1> SUFFICES ASSUME Init PROVE RunInv
  OBVIOUS
<1> USE RunAssumptions
<1>1. IdleReader \in [at : {"idle", "write", "frame", "block", "dead"}, run : 0..MaxRuns,
                      status : Terminal \cup {"none"}, then : {"idle", "frame", "block"}]
      /\ IdleReader.at = "idle"
  BY DEF IdleReader, NoRun
<1>2. TypeOK
  <2>1. up \in BOOLEAN /\ turn \in BOOLEAN /\ input \in BOOLEAN
    BY DEF Init
  <2>2. /\ created \in 0..MaxRuns /\ activeRun \in 0..MaxRuns
        /\ dbFailures \in 0..MaxFaults /\ lostEvents \in 0..MaxFaults
        /\ crashes \in 0..MaxFaults
    BY DEF Init, NoRun
  <2>3. /\ run \in [Runs -> Terminal \cup {"none", "running"}]
        /\ frames \in [Runs -> SUBSET {"completed", "error"}]
        /\ cancels \in [Runs -> {"none", "published", "stopping", "lost"}]
    BY DEF Init
  <2>4. container = "none" /\ results \in Seq(Results)
    BY DEF Init
  <2>5. reader = IdleReader
    BY DEF Init
  <2> QED BY <1>1, <2>1, <2>2, <2>3, <2>4, <2>5 DEF TypeOK
<1>3. RowsExist /\ FrameMirrorsRow
  BY <1>1 DEF Init, RowsExist, FrameMirrorsRow, Runs, NoRun
<1>4. ReaderHasRun /\ ReaderMirrorsRow
  BY <1>1 DEF Init, ReaderHasRun, ReaderMirrorsRow
<1> QED BY <1>2, <1>3, <1>4 DEF RunInv

-----------------------------------------------------------------------------

\* The result a turn publishes, and what it writes.
LEMMA WriteOfType ==
    ASSUME NEW result \in Results, result # "answer"
    PROVE  WriteOf(result).status \in Terminal /\ WriteOf(result).then \in {"idle", "frame", "block"}
BY DEF WriteOf, Results, Terminal

\* Steps that leave rows, reader and frames alone keep the invariant.
LEMMA QuietSteps ==
    ASSUME RunInv,
           UNCHANGED <<created, run, frames, reader, dbFailures>>,
           TypeOK', activeRun' <= created, turn' => activeRun' # NoRun
    PROVE  RunInv'
BY DEF RunInv, RowsExist, ReaderHasRun, ReaderMirrorsRow, FrameMirrorsRow

\* create_run keeps the invariant: the new row had no frame and no writer.
LEMMA CreateRunStep == RunInv /\ CreateRun => RunInv'
<1> SUFFICES ASSUME RunInv, CreateRun PROVE RunInv'
  OBVIOUS
<1> USE RunAssumptions DEF RunInv
<1>1. created + 1 \in Runs /\ created \in Nat
  BY DEF CreateRun, TypeOK, Runs
<1>2. TypeOK'
  BY <1>1 DEF CreateRun, TypeOK, agent, faults
<1>3. RowsExist'
  BY <1>1 DEF CreateRun, RowsExist, TypeOK, Runs, NoRun
<1>4. ReaderHasRun'
  BY <1>1 DEF CreateRun, ReaderHasRun, Runs
<1>5. \A r \in Runs : r # created + 1 => run'[r] = run[r]
  BY DEF CreateRun, TypeOK
<1>6. run[created + 1] = "none"
  BY <1>1 DEF RowsExist
<1>7. ReaderMirrorsRow'
  BY <1>1, <1>5 DEF CreateRun, ReaderMirrorsRow, ReaderHasRun, Runs, faults
<1>8. FrameMirrorsRow'
  <2>1. UNCHANGED <<frames, reader, dbFailures>>
    BY DEF CreateRun, faults
  <2>2. \A r \in Runs : run[r] \in Terminal => run'[r] = run[r]
    BY <1>5, <1>6 DEF Terminal
  <2>3. reader.at = "block" /\ reader.run # NoRun => reader.run \in Runs
    BY DEF ReaderHasRun
  <2> QED BY <2>1, <2>2, <2>3 DEF FrameMirrorsRow, Terminal
<1> QED BY <1>2, <1>3, <1>4, <1>7, <1>8

\* Turns, follow-ups and the agent keep the invariant.
LEMMA TurnSteps ==
    ASSUME RunInv, NEW r \in Runs,
           StartTurn(r) \/ PipeMessage(r) \/ RequestCancel(r) \/ CancelStops(r)
    PROVE  RunInv'
<1> USE RunAssumptions DEF RunInv
<1>1. TypeOK'
  <2>1. CASE StartTurn(r)      BY <2>1 DEF StartTurn, TypeOK, Runs, faults
  <2>2. CASE PipeMessage(r)
    <3>1. input' \in BOOLEAN
      BY <2>2 DEF PipeMessage, TypeOK
    <3> QED BY <2>2, <3>1 DEF PipeMessage, TypeOK, Runs, faults
  <2>3. CASE RequestCancel(r)
    <3>1. lostEvents' \in 0..MaxFaults
      BY <2>3 DEF RequestCancel, TypeOK, MayFail
    <3>2. cancels' \in [Runs -> {"none", "published", "stopping", "lost"}]
      BY <2>3 DEF RequestCancel, TypeOK
    <3> QED BY <2>3, <3>1, <3>2 DEF RequestCancel, TypeOK, agent
  <2>4. CASE CancelStops(r)    BY <2>4 DEF CancelStops, TypeOK, faults
  <2> QED BY <2>1, <2>2, <2>3, <2>4
<1>2. UNCHANGED <<created, run, frames, reader, dbFailures>>
  BY DEF StartTurn, PipeMessage, RequestCancel, CancelStops, faults
<1>3. activeRun' <= created /\ (turn' => activeRun' # NoRun)
  BY DEF StartTurn, PipeMessage, RequestCancel, CancelStops, RowsExist, Runs, NoRun
<1> QED BY <1>1, <1>2, <1>3, QuietSteps

LEMMA AgentSteps == RunInv /\ Agent => RunInv'
<1> SUFFICES ASSUME RunInv, Agent PROVE RunInv'
  OBVIOUS
<1> USE RunAssumptions DEF RunInv
<1>1. TypeOK'
  <2>1. CASE AgentPublishes
    <3>1. PICK result \in Results :
            /\ results' = Append(results, result)
            /\ container' \in CASE result \in {"answer", "blocked"} -> {"working"}
                                [] result = "final"                 -> {"resting"}
                                [] result = "error"                 -> {"working", "ended"}
                                [] result = "config"                -> {"ended"}
      BY <2>1 DEF AgentPublishes
    <3>2. container' \in {"working", "resting", "ended"}
      BY <3>1 DEF Results
    <3>3. results' \in Seq(Results)
      BY <3>1 DEF TypeOK
    <3> QED BY <2>1, <3>2, <3>3 DEF AgentPublishes, TypeOK, faults
  <2>2. CASE AgentReadsInput   BY <2>2 DEF AgentReadsInput, TypeOK, faults
  <2>3. CASE AgentEnds         BY <2>3 DEF AgentEnds, TypeOK, faults
  <2> QED BY <2>1, <2>2, <2>3 DEF Agent
<1>2. UNCHANGED <<created, run, frames, reader, dbFailures, activeRun, turn>>
  BY DEF Agent, AgentPublishes, AgentReadsInput, AgentEnds, faults
<1>3. activeRun' <= created /\ (turn' => activeRun' # NoRun)
  BY <1>2 DEF RowsExist
<1> QED BY <1>1, <1>2, <1>3, QuietSteps

\* The end of a turn, a crash and a restart drop the reader or leave it idle.
LEMMA EndSteps == RunInv /\ (EndTurn \/ Crash \/ Restart) => RunInv'
<1> SUFFICES ASSUME RunInv, EndTurn \/ Crash \/ Restart PROVE RunInv'
  OBVIOUS
<1> USE RunAssumptions DEF RunInv
<1>1. IdleReader \in [at : {"idle", "write", "frame", "block", "dead"}, run : 0..MaxRuns,
                      status : Terminal \cup {"none"}, then : {"idle", "frame", "block"}]
      /\ IdleReader.at = "idle"
  BY DEF IdleReader, NoRun
<1>2. TypeOK'
  <2>1. <<>> \in Seq(Results)
    OBVIOUS
  <2>2. CASE EndTurn   BY <1>1, <2>1, <2>2 DEF EndTurn, TypeOK, faults
  <2>3. CASE Crash
    <3>1. crashes' \in 0..MaxFaults /\ activeRun' \in 0..MaxRuns
      BY <2>3 DEF Crash, MayFail, TypeOK, NoRun
    <3>2. up' \in BOOLEAN /\ turn' \in BOOLEAN
      BY <2>3 DEF Crash
    <3> QED BY <1>1, <2>3, <3>1, <3>2 DEF Crash, TypeOK, agent
  <2>4. CASE Restart   BY <2>1, <2>4 DEF Restart, TypeOK, faults
  <2> QED BY <2>2, <2>3, <2>4
<1>3. RowsExist'
  BY DEF EndTurn, Crash, Restart, RowsExist, TypeOK, NoRun
<1>4. UNCHANGED <<run, frames, created, dbFailures>> /\ (reader' = reader \/ reader' = IdleReader)
  BY DEF EndTurn, Crash, Restart, faults
<1>5. ReaderHasRun' /\ ReaderMirrorsRow' /\ FrameMirrorsRow'
  BY <1>1, <1>4 DEF ReaderHasRun, ReaderMirrorsRow, FrameMirrorsRow
<1> QED BY <1>2, <1>3, <1>5

-----------------------------------------------------------------------------

\* A step that may end rows (and does nothing else to them) keeps the frames
\* true, and what the reader is about to announce.
LEMMA RowsMoveOn ==
    ASSUME RunInv,
           run' \in [Runs -> Terminal \cup {"none", "running"}],
           \A r \in Runs : run[r] # "running" => run'[r] = run[r],
           dbFailures' = 0 => dbFailures = 0,
           frames' = frames
    PROVE  /\ \A r \in Runs :
                dbFailures' = 0 =>
                  /\ "completed" \in frames'[r] => run'[r] \in {"completed", "cancelled"}
                  /\ "error" \in frames'[r] => run'[r] = "failed"
           /\ reader' = reader => FrameMirrorsRow' /\ ReaderMirrorsRow'
BY DEF RunInv, FrameMirrorsRow, ReaderMirrorsRow, ReaderHasRun, Terminal

\* terminate_run_via_user_cancel.
LEMMA CancelStep == ASSUME NEW r \in Runs, RunInv, CancelWrites(r) PROVE RunInv'
<1> USE RunAssumptions DEF RunInv
<1>1. CASE run[r] = "none"
  <2>1. run' = run
    BY <1>1 DEF CancelWrites, UpdateRunTerminal
  <2>2. TypeOK'
    BY <2>1 DEF CancelWrites, TypeOK, MayFail, agent
  <2>3. dbFailures' = 0 => dbFailures = 0
    BY DEF CancelWrites, TypeOK
  <2> QED BY <2>1, <2>2, <2>3 DEF CancelWrites, RowsExist, ReaderHasRun,
            ReaderMirrorsRow, FrameMirrorsRow
<1>2. CASE run[r] # "none"
  <2> DEFINE U == UpdateRunTerminal(r, "cancelled")
  <2>1. /\ U \in [Runs -> Terminal \cup {"none", "running"}]
        /\ \A q \in Runs : /\ run[q] # "running" => U[q] = run[q]
                           /\ U[q] = "none" <=> run[q] = "none"
    BY <1>2, UpdateEnds DEF TypeOK, Terminal
  <2>2. run' = U \/ run' = run
    BY DEF CancelWrites
  <2> HIDE DEF U
  <2>3. /\ run' \in [Runs -> Terminal \cup {"none", "running"}]
        /\ \A q \in Runs : /\ run[q] # "running" => run'[q] = run[q]
                           /\ run'[q] = "none" <=> run[q] = "none"
    BY <2>1, <2>2 DEF TypeOK
  <2>4. dbFailures' = 0 => dbFailures = 0
    BY DEF CancelWrites, TypeOK
  <2>5. TypeOK'
    BY <2>3 DEF CancelWrites, TypeOK, MayFail, agent
  <2>6. RowsExist' /\ ReaderHasRun'
    BY <2>3 DEF CancelWrites, RowsExist, ReaderHasRun
  <2>7. frames' = frames /\ reader' = reader
    BY DEF CancelWrites
  <2>8. FrameMirrorsRow' /\ ReaderMirrorsRow'
    BY <2>3, <2>4, <2>7, RowsMoveOn DEF ReaderMirrorsRow
  <2> QED BY <2>5, <2>6, <2>8
<1> QED BY <1>1, <1>2

\* ReaderTakes and ReaderFails: the reader takes a result of its turn.
LEMMA TakeSteps == RunInv /\ (ReaderTakes \/ ReaderFails) => RunInv'
<1> SUFFICES ASSUME RunInv, ReaderTakes \/ ReaderFails PROVE RunInv'
  OBVIOUS
<1> USE RunAssumptions DEF RunInv
<1>1. CASE ReaderTakes
  <2>1. results \in Seq(Results) /\ results # <<>>
    BY <1>1 DEF ReaderTakes, TypeOK
  <2>2. Head(results) \in Results /\ Tail(results) \in Seq(Results)
    BY <2>1
  <2>3. activeRun \in Runs /\ activeRun <= created
    BY <1>1 DEF ReaderTakes, RowsExist, TypeOK, Runs, NoRun
  <2>6. CASE reader' = [IdleReader EXCEPT !.at = "block"]
    <3>1. reader'.at = "block" /\ reader'.run = NoRun
      BY <2>6 DEF IdleReader
    <3>2. reader' \in [at : {"idle", "write", "frame", "block", "dead"}, run : 0..MaxRuns,
                       status : Terminal \cup {"none"}, then : {"idle", "frame", "block"}]
      BY <2>6 DEF IdleReader, NoRun
    <3>3. TypeOK'
      BY <1>1, <2>2, <3>2 DEF ReaderTakes, TypeOK, faults
    <3> QED BY <1>1, <3>1, <3>3 DEF ReaderTakes, RowsExist, ReaderHasRun,
              ReaderMirrorsRow, FrameMirrorsRow, faults
  <2>4. CASE reader' = reader
    BY <1>1, <2>2, <2>4 DEF ReaderTakes, TypeOK, RowsExist, ReaderHasRun,
       ReaderMirrorsRow, FrameMirrorsRow, faults
  <2>5. CASE /\ Head(results) # "answer"
             /\ reader' = [at |-> "write", run |-> activeRun,
                           status |-> WriteOf(Head(results)).status,
                           then |-> WriteOf(Head(results)).then]
    <3>1. /\ WriteOf(Head(results)).status \in Terminal
          /\ WriteOf(Head(results)).then \in {"idle", "frame", "block"}
      BY <2>2, <2>5, WriteOfType
    <3>2. /\ reader'.at = "write" /\ reader'.run \in Runs
          /\ reader'.run <= created /\ reader'.status \in Terminal
      BY <2>3, <2>5, <3>1
    <3>3. reader' \in [at : {"idle", "write", "frame", "block", "dead"}, run : 0..MaxRuns,
                       status : Terminal \cup {"none"}, then : {"idle", "frame", "block"}]
      BY <2>3, <2>5, <3>1 DEF Runs
    <3>4. TypeOK'
      BY <1>1, <2>2, <3>3 DEF ReaderTakes, TypeOK, faults
    <3> QED BY <1>1, <3>2, <3>4 DEF ReaderTakes, RowsExist, ReaderHasRun,
              ReaderMirrorsRow, FrameMirrorsRow, faults
  <2> QED BY <1>1, <2>4, <2>5, <2>6 DEF ReaderTakes
<1>2. CASE ReaderFails
  <2>1. /\ reader'.at = "dead" /\ dbFailures' # 0
    BY <1>2 DEF ReaderFails, TypeOK
  <2>2. TypeOK'
    <3>1. dbFailures' \in 0..MaxFaults
      BY <1>2 DEF ReaderFails, TypeOK, MayFail
    <3> QED BY <1>2, <3>1 DEF ReaderFails, TypeOK, agent
  <2> QED BY <1>2, <2>1, <2>2 DEF ReaderFails, RowsExist, ReaderHasRun,
            ReaderMirrorsRow, FrameMirrorsRow
<1> QED BY <1>1, <1>2

\* ReaderWrites: the row is ended, and the frame to come reports it.
LEMMA WriteStep == RunInv /\ ReaderWrites => RunInv'
<1> SUFFICES ASSUME RunInv, ReaderWrites PROVE RunInv'
  OBVIOUS
<1> USE RunAssumptions DEF RunInv
<1>1. /\ reader.run \in Runs /\ reader.run <= created
      /\ reader.status \in Terminal /\ run[reader.run] # "none"
  <2>1. reader.run \in Runs /\ reader.run <= created /\ reader.status \in Terminal
    BY DEF ReaderWrites, ReaderHasRun
  <2>2. ~(reader.run > created)
    BY <2>1 DEF TypeOK, Runs
  <2> QED BY <2>1, <2>2 DEF RowsExist
<1> DEFINE U == UpdateRunTerminal(reader.run, reader.status)
<1>2. /\ U \in [Runs -> Terminal \cup {"none", "running"}]
      /\ U[reader.run] \in Terminal
      /\ \A q \in Runs : /\ run[q] # "running" => U[q] = run[q]
                         /\ U[q] = "none" <=> run[q] = "none"
  BY <1>1, UpdateEnds DEF TypeOK
<1>3. \/ run' = U /\ reader' = AfterWrite(U[reader.run]) /\ dbFailures' = dbFailures
      \/ run' = run /\ reader' = AfterWrite(reader.status) /\ dbFailures' = dbFailures + 1
  BY DEF ReaderWrites
<1> HIDE DEF U
<1>4. /\ run' \in [Runs -> Terminal \cup {"none", "running"}]
      /\ \A q \in Runs : /\ run[q] # "running" => run'[q] = run[q]
                         /\ run'[q] = "none" <=> run[q] = "none"
  BY <1>2, <1>3 DEF TypeOK
<1>5. PICK s \in Terminal : /\ reader' = AfterWrite(s)
                            /\ dbFailures' = 0 => s = run'[reader.run]
  BY <1>1, <1>2, <1>3 DEF TypeOK
<1>6. /\ reader' \in [at : {"idle", "write", "frame", "block", "dead"}, run : 0..MaxRuns,
                      status : Terminal \cup {"none"}, then : {"idle", "frame", "block"}]
      /\ reader'.at # "write"
      /\ reader'.at \in {"frame", "block"} => reader'.run = reader.run /\ reader'.status = s
  <2>1. CASE reader.then # "idle"
    <3>1. reader' = [reader EXCEPT !.at = reader.then, !.status = s]
      BY <1>5, <2>1 DEF AfterWrite
    <3>2. reader.then \in {"frame", "block"}
      BY <2>1 DEF TypeOK
    <3> QED BY <3>1, <3>2 DEF TypeOK
  <2>2. CASE reader.then = "idle"
    BY <1>5, <2>2 DEF AfterWrite, IdleReader, NoRun
  <2> QED BY <2>1, <2>2
<1>7. TypeOK'
  BY <1>4, <1>6 DEF ReaderWrites, TypeOK, MayFail, agent
<1>8. RowsExist'
  BY <1>4 DEF ReaderWrites, RowsExist
<1>9. ReaderHasRun' /\ ReaderMirrorsRow'
  BY <1>1, <1>5, <1>6 DEF ReaderWrites, ReaderHasRun, ReaderMirrorsRow
<1>10. FrameMirrorsRow'
  <2>1. frames' = frames /\ (dbFailures' = 0 => dbFailures = 0)
    BY DEF ReaderWrites, TypeOK
  <2>2. dbFailures' = 0 /\ reader'.at = "block" /\ reader'.run # NoRun
          => run'[reader'.run] \in Terminal
    BY <1>5, <1>6
  <2>3. \A r \in Runs :
          dbFailures' = 0 =>
            /\ "completed" \in frames'[r] => run'[r] \in {"completed", "cancelled"}
            /\ "error" \in frames'[r] => run'[r] = "failed"
    BY <1>4, <2>1, RowsMoveOn
  <2> QED BY <2>2, <2>3 DEF FrameMirrorsRow
<1> QED BY <1>7, <1>8, <1>9, <1>10

\* ReaderFrames: the frame that is sent says what the row says.
LEMMA FrameStep == RunInv /\ ReaderFrames => RunInv'
<1> SUFFICES ASSUME RunInv, ReaderFrames PROVE RunInv'
  OBVIOUS
<1> USE RunAssumptions DEF RunInv
<1>1. reader.run \in Runs /\ reader.status \in Terminal
  BY DEF ReaderFrames, ReaderHasRun
<1>2. TypeOK'
  BY <1>1 DEF ReaderFrames, TypeOK, IdleReader, NoRun, agent, faults
<1>3. RowsExist' /\ ReaderHasRun' /\ ReaderMirrorsRow'
  BY DEF ReaderFrames, RowsExist, ReaderHasRun, ReaderMirrorsRow, IdleReader, faults
<1>4. FrameMirrorsRow'
  <2>1. reader'.at = "idle"
    BY DEF ReaderFrames, IdleReader
  <2> QED BY <1>1, <2>1 DEF ReaderFrames, FrameMirrorsRow, ReaderMirrorsRow, TypeOK,
             Terminal, faults
<1> QED BY <1>2, <1>3, <1>4

\* ReaderShowsBlock: the reader is idle again.
LEMMA BlockStep == RunInv /\ ReaderShowsBlock => RunInv'
<1> SUFFICES ASSUME RunInv, ReaderShowsBlock PROVE RunInv'
  OBVIOUS
<1> USE RunAssumptions DEF RunInv
<1>1. TypeOK'
  BY DEF ReaderShowsBlock, TypeOK, IdleReader, NoRun, agent, faults
<1> QED BY <1>1 DEF ReaderShowsBlock, RowsExist, ReaderHasRun, ReaderMirrorsRow,
          FrameMirrorsRow, IdleReader, faults

\* Every step keeps the invariant.
LEMMA NextInv == RunInv /\ [Next]_vars => RunInv'
<1> SUFFICES ASSUME RunInv, [Next]_vars PROVE RunInv'
  OBVIOUS
<1>1. CASE UNCHANGED vars
  BY <1>1 DEF vars, agent, faults, RunInv, TypeOK, RowsExist, ReaderHasRun,
     ReaderMirrorsRow, FrameMirrorsRow
<1>2. CASE Next
  BY <1>2, CreateRunStep, TurnSteps, AgentSteps, EndSteps, CancelStep, TakeSteps,
     WriteStep, FrameStep, BlockStep DEF Next, Reader
<1> QED BY <1>1, <1>2

-----------------------------------------------------------------------------

\* The invariant holds in every reachable state.
THEOREM RunInvariant == Spec => []RunInv
BY InitInv, NextInv, PTL DEF Spec

\* Types (the attributes of ConversationState, the rows and the messages).
THEOREM RunTypeCorrect == Spec => []TypeOK
<1>1. RunInv => TypeOK
  BY DEF RunInv
<1> QED BY <1>1, RunInvariant, PTL

\* A run-terminal frame never contradicts the row, whoever races for it
\* (_terminate_and_emit_run_terminal), and the safety block of an agent's hook is
\* shown only once the run of its turn has ended (_on_output).
THEOREM FramesMirrorRows == Spec => []FrameMirrorsRow
<1>1. RunInv => FrameMirrorsRow
  BY DEF RunInv
<1> QED BY <1>1, RunInvariant, PTL

\* No path rewrites a run that has ended (update_run_terminal, create_run).
THEOREM EndedIsFinal == Spec => EndedRunsAreFinal
<1>1. RunInv /\ [Next]_vars =>
        [\A r \in Runs : run[r] \in Terminal => run'[r] = run[r]]_run
  <2> SUFFICES ASSUME RunInv, [Next]_vars, NEW r \in Runs, run[r] \in Terminal
               PROVE  run'[r] = run[r]
    OBVIOUS
  <2>1. CASE CreateRun
    BY <2>1 DEF CreateRun, RunInv, TypeOK, RowsExist, Runs, Terminal
  <2>2. CASE ReaderWrites
    BY <2>2 DEF ReaderWrites, UpdateRunTerminal, RunInv, TypeOK, Terminal
  <2>3. ASSUME NEW q \in Runs, CancelWrites(q) PROVE run'[r] = run[r]
    BY <2>3 DEF CancelWrites, UpdateRunTerminal, RunInv, TypeOK, Terminal
  <2>4. CASE run' = run
    BY <2>4
  <2>5. \/ CreateRun \/ ReaderWrites \/ run' = run
        \/ \E q \in Runs : CancelWrites(q)
    BY DEF Next, Agent, Reader, EndTurn, Crash, Restart, AgentPublishes,
       AgentReadsInput, AgentEnds, ReaderTakes, ReaderFails, ReaderFrames,
       ReaderShowsBlock, RequestCancel, CancelStops, StartTurn, PipeMessage, vars
  <2> QED BY <2>1, <2>2, <2>3, <2>4, <2>5
<1> QED BY <1>1, RunInvariant, PTL DEF Spec, EndedRunsAreFinal

=============================================================================
