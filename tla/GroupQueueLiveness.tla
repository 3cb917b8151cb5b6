------------------------- MODULE GroupQueueLiveness -------------------------
(***************************************************************************)
(* GroupQueue with fairness, in an environment that sends messages and     *)
(* schedules tasks for as long as it likes and then stops.                 *)
(***************************************************************************)
EXTENDS GroupQueue

VARIABLE open   \* new messages and tasks may still arrive

OpenInit == Init /\ open = TRUE

OpenNext ==
    \/ /\ open
       /\ \E g \in Groups : Arrival(g)
       /\ UNCHANGED open
    \/ /\ (\E g \in Groups : GroupStep(g)) \/ Shutdown
       /\ UNCHANGED open
    \/ /\ open
       /\ open' = FALSE
       /\ UNCHANGED vars

\* Silent: nothing on the way to or from the container, so that its
\* inactivity watchdog runs out.
StopsOrSilent(g, j) ==
    /\ Runner(g, j).stop \/ (~Runner(g, j).busy /\ ~Runner(g, j).input)
    /\ ContainerDies(g, j)

\* Spawned coroutines run and containers register or fail; agents read their
\* input and end their turns; results are delivered; armed timers fire;
\* approvals are decided or expire; stopped or silent containers die.
Fairness ==
    \A g \in Groups :
        /\ WF_vars(RetryFires(g))
        /\ WF_vars(IdleTimerFires(g))
        /\ WF_vars(\E r \in Requests : ApprovalResolved(g, r))
        /\ \A j \in Jobs :
             /\ WF_vars(\/ RunnerStarts(g, j)
                        \/ RunnerRegisters(g, j)
                        \/ \E s, e \in BOOLEAN : RunnerEnds(g, j, s, e))
             /\ WF_vars(AgentFinishesTurn(g, j) \/ AgentTakesInput(g, j))
             /\ WF_vars(HandleFinal(g, j))
             /\ WF_vars(TaskCloseFires(g, j) \/ StopsOrSilent(g, j))

OpenSpec == OpenInit /\ [][OpenNext]_<<vars, open>> /\ Fairness

\* Once messages and tasks stop arriving, everything queued gets served,
\* every container is wound down and every slot given back: no drain, idle
\* timer or eviction is forgotten, and where one was dropped on purpose (a
\* final handled during an approval) the watchdog makes up for it.
QuietQueueEmpties ==
    ~open ~> [](\A g \in Groups : /\ ~queue.active[g]
                                  /\ queue.shutting_down \/ ~HasWork(queue, g))

=============================================================================
