------------------------ MODULE GroupQueueWorkProofs ------------------------
(***************************************************************************)
(* Proof that GroupQueue strands no work (NoStrandedWork), for any groups, *)
(* limits and bounds, with the reaper, lost coroutines and restart         *)
(* adoption on: whoever has queued work and no container is on the waiting *)
(* list, and a limit blocks it.                                            *)
(*                                                                         *)
(* The property is inductive on top of the balanced books of               *)
(* GroupQueueProofs: the counters equal the sizes of Holding and Live, so  *)
(* that "blocked" is about those two sets and cannot be undone by adding   *)
(* groups to them.  A handler that removes a group from one of the sets    *)
(* ends in a drain, and the drain needs less than the property: it is      *)
(* enough that waiting work is listed, blocked or not (Listed), or that    *)
(* everybody but the group that just ended is served (ServedBut).          *)
(***************************************************************************)
EXTENDS GroupQueueProofs

\* What the waiting work of a queue is.
Line(q) == <<q.pending_tasks, q.pending_messages, q.waiting, q.shutting_down>>

\* The limits leave room for g when H hold a turn and L a container.
Room(H, L, g) ==
    /\ Cardinality(H) < GlobalLimit
    /\ Cardinality(OfTenant(H, TenantOf[g])) < TenantLimit[TenantOf[g]]
    /\ Cardinality(OfCoworker(H, CoworkerOf[g])) < CoworkerLimit[CoworkerOf[g]]
    /\ Cardinality(L) < GlobalLimit

Idle(q, h) == HasWork(q, h) /\ ~q.active[h]

\* NoStrandedWork, of a queue.
Served(q) ==
    ~q.shutting_down =>
        \A h \in Groups : Idle(q, h) => h \in Waiting(q) /\ ~CanColdStart(q, h)

\* Nobody's work is off the list, but there may be room.
Listed(q) == ~q.shutting_down => \A h \in Groups : Idle(q, h) => h \in Waiting(q)

\* Everybody but g, whose container just ended, was served before it ended.
ServedBut(q, g) ==
    ~q.shutting_down =>
        \A h \in Groups \ {g} :
            Idle(q, h) => /\ h \in Waiting(q)
                          /\ ~Room(Holding(q) \cup {g}, Live(q) \cup {g}, h)

-----------------------------------------------------------------------------
(* Room.                                                                   *)

LEMMA ColdStartIsRoom ==
    ASSUME NEW q, Good(q), NEW g \in Groups
    PROVE  CanColdStart(q, g) <=> Room(Holding(q), Live(q), g)
<1>1. TenantOf[g] \in Tenants /\ CoworkerOf[g] \in Coworkers
  BY QueueAssumptions
<1> QED BY <1>1 DEF CanColdStart, CanStartTurn, CanSpawn, Room, Good, Balanced

\* A smaller set of groups is not larger than its superset.
LEMMA FewerGroups ==
    ASSUME NEW S, NEW T, S \subseteq T, T \subseteq Groups
    PROVE  /\ Cardinality(S) \in Nat /\ Cardinality(T) \in Nat
           /\ Cardinality(S) <= Cardinality(T)
BY GroupSets, FS_Subset

\* What blocks a group still blocks it when more groups hold slots.
LEMMA RoomShrinks ==
    ASSUME NEW H, NEW L, NEW J, NEW M, NEW g \in Groups,
           H \subseteq J, L \subseteq M, J \subseteq Groups, M \subseteq Groups,
           Room(J, M, g)
    PROVE  Room(H, L, g)
<1> DEFINE t == TenantOf[g]
           c == CoworkerOf[g]
<1>1. t \in Tenants /\ c \in Coworkers
  BY QueueAssumptions
<1>2. GlobalLimit \in Nat /\ TenantLimit[t] \in Nat /\ CoworkerLimit[c] \in Nat
  BY <1>1, QueueAssumptions
<1>3. /\ OfTenant(H, t) \subseteq OfTenant(J, t)
      /\ OfTenant(J, t) \subseteq Groups
      /\ OfCoworker(H, c) \subseteq OfCoworker(J, c)
      /\ OfCoworker(J, c) \subseteq Groups
  BY DEF OfTenant, OfCoworker
<1>4. /\ Cardinality(H) \in Nat /\ Cardinality(J) \in Nat
      /\ Cardinality(H) <= Cardinality(J)
  BY FewerGroups
<1>5. /\ Cardinality(L) \in Nat /\ Cardinality(M) \in Nat
      /\ Cardinality(L) <= Cardinality(M)
  BY FewerGroups
<1>6. /\ Cardinality(OfTenant(H, t)) \in Nat /\ Cardinality(OfTenant(J, t)) \in Nat
      /\ Cardinality(OfTenant(H, t)) <= Cardinality(OfTenant(J, t))
  BY <1>3, FewerGroups
<1>7. /\ Cardinality(OfCoworker(H, c)) \in Nat
      /\ Cardinality(OfCoworker(J, c)) \in Nat
      /\ Cardinality(OfCoworker(H, c)) <= Cardinality(OfCoworker(J, c))
  BY <1>3, FewerGroups
<1> QED BY <1>2, <1>4, <1>5, <1>6, <1>7 DEF Room

\* A queue in which at least as many groups hold slots blocks at least as
\* many groups.
LEMMA StillBlocked ==
    ASSUME NEW q, Good(q), NEW p, Good(p), NEW g \in Groups,
           Holding(q) \subseteq Holding(p), Live(q) \subseteq Live(p),
           ~CanColdStart(q, g)
    PROVE  ~CanColdStart(p, g)
<1>1. Holding(p) \subseteq Groups /\ Live(p) \subseteq Groups
  BY DEF Holding, Live
<1> QED BY <1>1, ColdStartIsRoom, RoomShrinks

\* Queues with the same line and the same books serve alike.
LEMMA SameLine ==
    ASSUME NEW q, NEW p, Books(p) = Books(q), Line(p) = Line(q)
    PROVE  /\ Served(q) => Served(p)
           /\ Listed(q) => Listed(p)
           /\ \A g : ServedBut(q, g) => ServedBut(p, g)
<1>1. /\ p.active = q.active /\ p.slot_held = q.slot_held
      /\ p.global_active = q.global_active /\ p.tenant_active = q.tenant_active
      /\ p.coworker_active = q.coworker_active
      /\ p.live_containers = q.live_containers
  BY DEF Books
<1>2. /\ p.pending_tasks = q.pending_tasks /\ p.waiting = q.waiting
      /\ p.pending_messages = q.pending_messages
      /\ p.shutting_down = q.shutting_down
  BY DEF Line
<1>3. Holding(p) = Holding(q) /\ Live(p) = Live(q) /\ Waiting(p) = Waiting(q)
  BY <1>1, <1>2 DEF Holding, Live, Waiting
<1>4. \A h : Idle(p, h) <=> Idle(q, h)
  BY <1>1, <1>2 DEF Idle, HasWork
<1>5. \A h : CanColdStart(p, h) <=> CanColdStart(q, h)
  BY <1>1 DEF CanColdStart, CanStartTurn, CanSpawn
<1> QED BY <1>2, <1>3, <1>4, <1>5 DEF Served, Listed, ServedBut

-----------------------------------------------------------------------------
(* Operators that leave the line alone.                                    *)

LEMMA SlotsLine ==
    ASSUME NEW q \in QueueType
    PROVE  /\ \A S : Line(AcquireTurns(q, S)) = Line(q)
           /\ \A S : Line(AcquireContainers(q, S)) = Line(q)
           /\ \A g : Line(ReleaseTurn(q, g)) = Line(q)
           /\ \A g : Line(ReleaseContainer(q, g)) = Line(q)
<1>1. \A S : Line(AcquireTurns(q, S)) = Line(q)
  BY DEF AcquireTurns, Line, QueueType
<1>2. \A S : Line(AcquireContainers(q, S)) = Line(q)
  BY DEF AcquireContainers, Line, QueueType
<1>3. \A g : Line(ReleaseTurn(q, g)) = Line(q)
  BY DEF ReleaseTurn, DecrementActive, Line, QueueType
<1>4. \A g : Line(ReleaseContainer(q, g)) = Line(q)
  BY DEF ReleaseContainer, Line, QueueType
<1> QED BY <1>1, <1>2, <1>3, <1>4

LEMMA ReserveSlotsLine ==
    ASSUME NEW q, Good(q), NEW S \in SUBSET Groups
    PROVE  Line(ReserveSlots(q, S)) = Line(q)
<1> DEFINE r == AcquireContainers(q, S)
           busy == [g \in Groups |-> q.processing[g] \/ g \in S]
           p == [r EXCEPT !.processing = busy]
<1>1. Good(r) /\ Line(r) = Line(q)
  BY AcquireContainersGood, SlotsLine DEF Good
<1>2. busy \in [Groups -> BOOLEAN]
  OBVIOUS
<1>3. ReserveSlots(q, S) = AcquireTurns(p, S)
  BY DEF ReserveSlots
<1> HIDE DEF r, busy
<1>4. p \in QueueType /\ Line(p) = Line(r)
  BY <1>1, <1>2 DEF Good, QueueType, Line
<1> HIDE DEF p
<1> QED BY <1>1, <1>3, <1>4, SlotsLine

LEMMA TimersLine ==
    ASSUME NEW q \in QueueType, NEW g \in Groups
    PROVE  /\ Line(CancelIdleTimer(q, g)) = Line(q)
           /\ Line(ArmIdleTimer(q, g)) = Line(q)
           /\ \A r : Line(SuspendForApproval(q, g, r)) = Line(q)
           /\ \A r : Line(ResumeFromApproval(q, g, r)) = Line(q)
           /\ Line(ScheduleRetry(q, g)) = Line(q)
           /\ \A t : Line(Spawn(q, g, t)) = Line(q)
<1>1. Line(CancelIdleTimer(q, g)) = Line(q)
  BY DEF CancelIdleTimer, Line, QueueType
<1>2. Line(ArmIdleTimer(q, g)) = Line(q)
  BY DEF ArmIdleTimer, Line, QueueType
<1>3. \A r : Line(SuspendForApproval(q, g, r)) = Line(q)
  BY DEF SuspendForApproval, CancelIdleTimer, Line, QueueType
<1>4. \A r : Line(ResumeFromApproval(q, g, r)) = Line(q)
  BY DEF ResumeFromApproval, ArmIdleTimer, Line, QueueType
<1>5. Line(ScheduleRetry(q, g)) = Line(q)
  BY DEF ScheduleRetry, Line, QueueType
<1>6. \A t : Line(Spawn(q, g, t)) = Line(q)
  BY DEF Spawn, Line, QueueType
<1> QED BY <1>1, <1>2, <1>3, <1>4, <1>5, <1>6

LEMMA PoolLine ==
    ASSUME NEW q \in QueueType, NEW g \in Groups
    PROVE  /\ Line(WarmPop(q, g)) = Line(q)
           /\ Line(WarmPush(q, g)) = Line(q)
           /\ Line(RequestShutdown(q, g)) = Line(q)
           /\ Line(EvictIfLiveBound(q, g)) = Line(q)
<1>1. Line(WarmPop(q, g)) = Line(q)
  BY DEF WarmPop, Line, QueueType
<1>2. Line(WarmPush(q, g)) = Line(q)
  <2>1. WarmPop(q, g) \in QueueType
    BY WarmPopQuiet
  <2>2. Line(WarmPush(q, g)) = Line(WarmPop(q, g))
    BY <2>1 DEF WarmPush, Line, QueueType
  <2> QED BY <1>1, <2>2
<1>3. \A h : Line(RequestShutdown(q, h)) = Line(q)
  BY DEF RequestShutdown, Line, QueueType
<1>4. Line(EvictIfLiveBound(q, g)) = Line(q)
  BY <1>3 DEF EvictIfLiveBound, EvictLruWarm
<1> QED BY <1>1, <1>2, <1>3, <1>4

LEMMA SetRunnerLine ==
    ASSUME NEW q \in QueueType, NEW g \in Groups, NEW j \in Jobs, NEW r
    PROVE  Line([q EXCEPT !.runner[g][j] = r]) = Line(q)
BY DEF QueueType, Line

-----------------------------------------------------------------------------
(* Draining.                                                               *)

\* Starting the work of S: who is live and who holds a turn afterwards, and
\* whose work is left as it was.
LEMMA StartPendingLine ==
    ASSUME NEW q, Good(q), NEW S \in SUBSET Groups
    PROVE  LET p == StartPending(q, S) IN
           /\ Good(p)
           /\ Live(p) = Live(q) \cup S
           /\ Holding(p) = Holding(q) \cup S
           /\ p.waiting = q.waiting /\ p.shutting_down = q.shutting_down
           /\ \A h \in Groups \ S : HasWork(p, h) <=> HasWork(q, h)
<1> DEFINE r == ReserveSlots(q, S)
           next(g) == IF q.pending_tasks[g] # <<>> THEN Head(q.pending_tasks[g])
                                                   ELSE NoTask
           tasks == [g \in Groups |->
              IF g \in S /\ q.pending_tasks[g] # <<>>
              THEN Tail(q.pending_tasks[g]) ELSE q.pending_tasks[g]]
           runners == [g \in Groups |->
              IF g \in S
              THEN [q.runner[g] EXCEPT ![FreeJob(q, g)] = NewRunner(next(g))]
              ELSE q.runner[g]]
           p == StartPending(q, S)
<1>1. /\ Good(r) /\ Live(r) = Live(q) \cup S /\ Holding(r) = Holding(q) \cup S
      /\ Line(r) = Line(q)
  BY ReserveSlotsGood, ReserveSlotsLine
<1>2. p = [r EXCEPT !.pending_tasks = tasks, !.runner = runners]
  BY DEF StartPending
<1>3. Good(p)
  BY StartPendingGood
<1>4. \A h \in Groups \ S : tasks[h] = q.pending_tasks[h]
  OBVIOUS
<1> HIDE DEF r, tasks, runners, p
<1>5. /\ p.waiting = r.waiting /\ p.shutting_down = r.shutting_down
      /\ p.active = r.active /\ p.slot_held = r.slot_held
      /\ p.pending_tasks = tasks /\ p.pending_messages = r.pending_messages
  BY <1>1, <1>2 DEF Good, QueueType
<1>6. /\ r.waiting = q.waiting /\ r.shutting_down = q.shutting_down
      /\ r.pending_messages = q.pending_messages
  BY <1>1 DEF Line
<1>7. Live(p) = Live(r) /\ Holding(p) = Holding(r)
  BY <1>5 DEF Live, Holding
<1>8. \A h \in Groups \ S : HasWork(p, h) <=> HasWork(q, h)
  BY <1>4, <1>5, <1>6 DEF HasWork
<1> QED BY <1>1, <1>3, <1>5, <1>6, <1>7, <1>8 DEF p

\* An order of a finite set lists all of it.
LEMMA OrderListsAll ==
    ASSUME NEW S, S \subseteq Groups, NEW w \in SetToSeqs(S)
    PROVE  \A x \in S : \E i \in DOMAIN w : w[i] = x
<1> DEFINE D == 1..Cardinality(S)
<1>1. IsFiniteSet(S) /\ Cardinality(S) \in Nat
  BY GroupSets
<1>2. w \in [D -> S] /\ \A i, j \in D : i # j => w[i] # w[j]
  BY DEF SetToSeqs
<1>3. w \in Injection(D, S)
  BY <1>2 DEF Injection, IsInjective
<1>4. Cardinality(D) = Cardinality(S)
  BY <1>1, FS_Interval
<1> HIDE DEF D
<1>5. w \in Surjection(D, S)
  BY <1>1, <1>3, <1>4, FS_Injection
<1> QED BY <1>2, <1>5 DEF Surjection

\* One pass of _drain_waiting serves everybody, when all work is listed.
LEMMA DrainWaitingServes ==
    ASSUME NEW q, Good(q), Listed(q), NEW p \in DrainWaiting(q)
    PROVE  Served(p)
<1>1. PICK A \in SUBSET Waiting(q) :
         /\ Admits(q, A)
         /\ \E w \in InOrder(q, Remaining(q, A)) :
               p = [StartPending(q, A) EXCEPT !.waiting = w]
  BY DEF DrainWaiting
<1>2. PICK w \in InOrder(q, Remaining(q, A)) :
         p = [StartPending(q, A) EXCEPT !.waiting = w]
  BY <1>1
<1> DEFINE r == StartPending(q, A)
           R == Remaining(q, A)
<1>3. A \in SUBSET Groups /\ R \subseteq Groups
  BY DEF Waiting, Remaining
<1>4. /\ Good(r) /\ Live(r) = Live(q) \cup A /\ Holding(r) = Holding(q) \cup A
      /\ r.shutting_down = q.shutting_down
      /\ \A h \in Groups \ A : HasWork(r, h) <=> HasWork(q, h)
  BY <1>3, StartPendingLine
<1>5. Good(p)
  BY DrainWaitingGood
<1>6. p = [r EXCEPT !.waiting = w]
  BY <1>2
<1>7. \A x \in R : \E i \in DOMAIN w : w[i] = x
  BY <1>3, OrderListsAll DEF InOrder
<1> HIDE DEF r
<1>8. /\ p.waiting = w /\ p.active = r.active /\ p.slot_held = r.slot_held
      /\ p.shutting_down = r.shutting_down
      /\ p.pending_tasks = r.pending_tasks
      /\ p.pending_messages = r.pending_messages
  BY <1>4, <1>6 DEF Good, QueueType
<1>9. /\ Live(p) = Live(q) \cup A /\ Holding(p) = Holding(q) \cup A
      /\ \A h \in Groups : HasWork(p, h) <=> HasWork(r, h)
  BY <1>4, <1>8 DEF Live, Holding, HasWork
<1> SUFFICES ASSUME ~p.shutting_down, NEW h \in Groups, Idle(p, h)
             PROVE  h \in Waiting(p) /\ ~CanColdStart(p, h)
  BY DEF Served
<1>10. h \notin A /\ h \notin Live(q)
  BY <1>9 DEF Idle, Live
<1>11. HasWork(q, h) /\ ~q.active[h]
  BY <1>4, <1>9, <1>10 DEF Idle, Live
<1>12. h \in Waiting(q)
  BY <1>4, <1>8, <1>11 DEF Listed, Idle
<1>13. ~RoomAtTurn(q, A, h)
  BY <1>1, <1>10, <1>11, <1>12 DEF Admits
<1>14. h \in R
  BY <1>11, <1>12, <1>13 DEF Remaining
<1>15. h \in Waiting(p)
  BY <1>7, <1>8, <1>14 DEF Waiting
<1> DEFINE B == Ahead(q, h) \cap A
           s == ReserveSlots(q, B)
<1>16. B \in SUBSET Groups /\ B \subseteq A
  BY <1>3
<1>17. Good(s) /\ Live(s) = Live(q) \cup B /\ Holding(s) = Holding(q) \cup B
  BY <1>16, ReserveSlotsGood
<1>18. ~CanColdStart(s, h)
  BY <1>13 DEF RoomAtTurn
<1> HIDE DEF s
<1>19. ~CanColdStart(p, h)
  BY <1>5, <1>9, <1>16, <1>17, <1>18, StillBlocked
<1> QED BY <1>15, <1>19

\* AppendWaiting adds g to the list and takes nobody off.
LEMMA AppendWaitingLists ==
    ASSUME NEW q, Good(q), NEW g \in Groups
    PROVE  LET p == AppendWaiting(q, g) IN
           /\ Good(p) /\ Books(p) = Books(q)
           /\ Waiting(p) = Waiting(q) \cup {g}
           /\ p.shutting_down = q.shutting_down
           /\ \A h : HasWork(p, h) <=> HasWork(q, h)
<1> DEFINE list == Append(q.waiting, g)
           m == [q EXCEPT !.waiting = list]
           p == AppendWaiting(q, g)
<1>1. Good(p) /\ Books(p) = Books(q)
  BY AppendWaitingQuiet, SameBooks DEF Good
<1>2. CASE g \in Waiting(q)
  BY <1>1, <1>2 DEF AppendWaiting
<1>3. CASE g \notin Waiting(q)
  <2>1. p = m
    BY <1>3 DEF AppendWaiting
  <2>2. q.waiting \in Seq(Groups)
    BY DEF Good, QueueType
  <2>3. {h \in Groups : \E i \in DOMAIN list : list[i] = h} = Waiting(q) \cup {g}
    <3>1. Len(list) = Len(q.waiting) + 1 /\ list[Len(q.waiting) + 1] = g
      BY <2>2
    <3>2. \A i \in DOMAIN q.waiting : i \in DOMAIN list /\ list[i] = q.waiting[i]
      BY <2>2
    <3>3. \A i \in DOMAIN list : i \in DOMAIN q.waiting \/ i = Len(q.waiting) + 1
      BY <2>2
    <3>4. Len(q.waiting) + 1 \in DOMAIN list
      BY <2>2
    <3> HIDE DEF list
    <3> QED BY <3>1, <3>2, <3>3, <3>4 DEF Waiting
  <2> HIDE DEF list
  <2>4. /\ m.waiting = list /\ m.shutting_down = q.shutting_down
        /\ m.pending_tasks = q.pending_tasks
        /\ m.pending_messages = q.pending_messages
    BY DEF Good, QueueType
  <2> HIDE DEF m, p
  <2>5. Waiting(p) = Waiting(q) \cup {g}
    BY <2>1, <2>3, <2>4 DEF Waiting
  <2>6. \A h : HasWork(p, h) <=> HasWork(q, h)
    BY <2>1, <2>4 DEF HasWork
  <2>7. p.shutting_down = q.shutting_down
    BY <2>1, <2>4
  <2> QED BY <1>1, <2>5, <2>6, <2>7 DEF p
<1> QED BY <1>2, <1>3

\* _drain_group after g's container ended.
LEMMA DrainGroupServes ==
    ASSUME NEW q, Good(q), NEW g \in Groups, ServedBut(q, g),
           NEW p \in DrainGroup(q, g)
    PROVE  Served(p)
<1>1. CASE q.shutting_down
  BY <1>1 DEF DrainGroup, Served
<1>2. CASE ~q.shutting_down /\ HasWork(q, g) /\ CanColdStart(q, g)
  <2>1. p = StartPending(q, {g})
    BY <1>2 DEF DrainGroup
  <2>2. /\ Good(p) /\ Live(p) = Live(q) \cup {g}
        /\ Holding(p) = Holding(q) \cup {g}
        /\ p.waiting = q.waiting
        /\ \A h \in Groups \ {g} : HasWork(p, h) <=> HasWork(q, h)
    BY <2>1, StartPendingLine
  <2> SUFFICES ASSUME NEW h \in Groups, Idle(p, h)
               PROVE  h \in Waiting(p) /\ ~CanColdStart(p, h)
    BY DEF Served
  <2>3. h # g /\ h \notin Live(q)
    BY <2>2 DEF Idle, Live
  <2>4. Idle(q, h)
    BY <2>2, <2>3 DEF Idle, Live
  <2>5. h \in Waiting(q) /\ ~Room(Holding(p), Live(p), h)
    BY <1>2, <2>2, <2>3, <2>4 DEF ServedBut
  <2>6. h \in Waiting(p)
    BY <2>2, <2>5 DEF Waiting
  <2> QED BY <2>2, <2>5, <2>6, ColdStartIsRoom
<1>3. CASE ~q.shutting_down /\ HasWork(q, g) /\ ~CanColdStart(q, g)
  <2> DEFINE r == AppendWaiting(q, g)
  <2>1. p \in DrainWaiting(r)
    BY <1>3 DEF DrainGroup
  <2>2. /\ Good(r) /\ Books(r) = Books(q) /\ Waiting(r) = Waiting(q) \cup {g}
        /\ r.shutting_down = q.shutting_down
        /\ \A h : HasWork(r, h) <=> HasWork(q, h)
    BY AppendWaitingLists
  <2> HIDE DEF r
  <2>3. r.active = q.active
    BY <2>2 DEF Books
  <2>4. Listed(r)
    BY <1>3, <2>2, <2>3 DEF Listed, ServedBut, Idle
  <2> QED BY <2>1, <2>2, <2>4, DrainWaitingServes
<1>4. CASE ~q.shutting_down /\ ~HasWork(q, g)
  <2>1. p \in DrainWaiting(q)
    BY <1>4 DEF DrainGroup
  <2>2. Listed(q)
    BY <1>4 DEF Listed, ServedBut, Idle
  <2> QED BY <2>1, <2>2, DrainWaitingServes
<1> QED BY <1>1, <1>2, <1>3, <1>4

-----------------------------------------------------------------------------
(* Handlers.                                                               *)

\* More groups hold slots, nobody has new work, and the list is the same.
LEMMA LessWorkServes ==
    ASSUME NEW q, Good(q), Served(q), NEW p, Good(p),
           p.waiting = q.waiting, p.shutting_down = q.shutting_down,
           \A h \in Groups : Idle(p, h) => Idle(q, h),
           Holding(q) \subseteq Holding(p), Live(q) \subseteq Live(p)
    PROVE  Served(p)
<1> SUFFICES ASSUME ~p.shutting_down, NEW h \in Groups, Idle(p, h)
             PROVE  h \in Waiting(p) /\ ~CanColdStart(p, h)
  BY DEF Served
<1>1. h \in Waiting(q) /\ ~CanColdStart(q, h)
  BY DEF Served
<1>2. h \in Waiting(p)
  BY <1>1 DEF Waiting
<1> QED BY <1>1, <1>2, StillBlocked

\* More groups hold slots, and nobody's work or place changed.
LEMMA MoreHeldServes ==
    ASSUME NEW q, Good(q), Served(q), NEW p, Good(p), Line(p) = Line(q),
           Holding(q) \subseteq Holding(p), Live(q) \subseteq Live(p)
    PROVE  Served(p)
<1>1. /\ p.pending_tasks = q.pending_tasks /\ p.waiting = q.waiting
      /\ p.pending_messages = q.pending_messages
      /\ p.shutting_down = q.shutting_down
  BY DEF Line
<1>2. \A h \in Groups : Idle(p, h) => Idle(q, h)
  BY <1>1 DEF Idle, HasWork, Live
<1> QED BY <1>1, <1>2, LessWorkServes

\* A cold start for g.
LEMMA ColdStartServes ==
    ASSUME NEW q, Good(q), Served(q), NEW g \in Groups, NEW t \in Tasks \cup {NoTask}
    PROVE  Served(Spawn(ReserveSlots(q, {g}), g, t))
<1> DEFINE r == ReserveSlots(q, {g})
<1>1. Good(r) /\ Line(r) = Line(q)
  BY ReserveSlotsGood, ReserveSlotsLine
<1>2. Holding(q) \subseteq Holding(r) /\ Live(q) \subseteq Live(r)
  BY ReserveSlotsGood
<1> HIDE DEF r
<1>3. Served(r)
  BY <1>1, <1>2, MoreHeldServes
<1>4. Books(Spawn(r, g, t)) = Books(r) /\ Line(Spawn(r, g, t)) = Line(r)
  BY <1>1, SpawnQuiet, TimersLine DEF Good
<1> QED BY <1>3, <1>4, SameLine DEF r

\* New work of a group that has a container is served when that one ends.
LEMMA WorkOfLiveServes ==
    ASSUME NEW q, Good(q), Served(q), NEW p, Good(p), Books(p) = Books(q),
           NEW g \in Groups, q.active[g],
           p.waiting = q.waiting, p.shutting_down = q.shutting_down,
           \A h \in Groups \ {g} : HasWork(p, h) <=> HasWork(q, h)
    PROVE  Served(p)
<1> SUFFICES ASSUME ~p.shutting_down, NEW h \in Groups, Idle(p, h)
             PROVE  h \in Waiting(p) /\ ~CanColdStart(p, h)
  BY DEF Served
<1>1. p.active = q.active /\ Holding(p) = Holding(q) /\ Live(p) = Live(q)
  BY SameBooks DEF Books, Good
<1>2. h # g /\ Idle(q, h)
  BY <1>1 DEF Idle
<1>3. h \in Waiting(q) /\ ~CanColdStart(q, h)
  BY <1>2 DEF Served
<1>4. h \in Waiting(p)
  BY <1>3 DEF Waiting
<1> QED BY <1>1, <1>3, <1>4, StillBlocked

\* New work of a group without a container and without room goes to the end
\* of the waiting list.
LEMMA QueueUpServes ==
    ASSUME NEW q, Good(q), Served(q), NEW p, Good(p), Books(p) = Books(q),
           NEW g \in Groups, ~CanColdStart(q, g),
           p.waiting = q.waiting, p.shutting_down = q.shutting_down,
           \A h \in Groups \ {g} : HasWork(p, h) <=> HasWork(q, h)
    PROVE  Served(EvictIfLiveBound(AppendWaiting(p, g), g))
<1> DEFINE r == AppendWaiting(p, g)
<1>1. /\ Good(r) /\ Books(r) = Books(p) /\ Waiting(r) = Waiting(p) \cup {g}
      /\ r.shutting_down = p.shutting_down
      /\ \A h : HasWork(r, h) <=> HasWork(p, h)
  BY AppendWaitingLists
<1> HIDE DEF r
<1>2. r.active = q.active /\ Holding(r) = Holding(q) /\ Live(r) = Live(q)
  BY <1>1, SameBooks DEF Books, Good
<1>3. Waiting(p) = Waiting(q)
  BY DEF Waiting
<1>4. Served(r)
  <2> SUFFICES ASSUME ~r.shutting_down, NEW h \in Groups, Idle(r, h)
               PROVE  h \in Waiting(r) /\ ~CanColdStart(r, h)
    BY DEF Served
  <2>1. CASE h = g
    BY <1>1, <1>2, <2>1, StillBlocked
  <2>2. CASE h # g
    <3>1. Idle(q, h)
      BY <1>1, <1>2, <2>2 DEF Idle
    <3>2. h \in Waiting(q) /\ ~CanColdStart(q, h)
      BY <1>1, <3>1 DEF Served
    <3> QED BY <1>1, <1>2, <1>3, <3>2, StillBlocked
  <2> QED BY <2>1, <2>2
<1>5. /\ Books(EvictIfLiveBound(r, g)) = Books(r)
      /\ Line(EvictIfLiveBound(r, g)) = Line(r)
  BY <1>1, EvictQuiet, PoolLine DEF Good
<1> QED BY <1>4, <1>5, SameLine DEF r

LEMMA EnqueueMessageCheckServes ==
    ASSUME NEW q, Good(q), Served(q), NEW g \in Groups
    PROVE  Served(EnqueueMessageCheck(q, g))
<1> DEFINE p == [q EXCEPT !.pending_messages[g] = TRUE]
<1>1. p \in QueueType /\ Books(p) = Books(q)
  BY DEF Good, QueueType, Books
<1>2. Good(p)
  BY <1>1, SameBooks
<1>3. /\ p.waiting = q.waiting /\ p.shutting_down = q.shutting_down
      /\ p.pending_tasks = q.pending_tasks
      /\ \A h \in Groups \ {g} : p.pending_messages[h] = q.pending_messages[h]
  BY DEF Good, QueueType
<1>4. \A h \in Groups \ {g} : HasWork(p, h) <=> HasWork(q, h)
  BY <1>3 DEF HasWork
<1>5. \/ EnqueueMessageCheck(q, g) = q
      \/ q.active[g] /\ EnqueueMessageCheck(q, g) = p
      \/ /\ ~CanColdStart(q, g)
         /\ EnqueueMessageCheck(q, g) = EvictIfLiveBound(AppendWaiting(p, g), g)
      \/ EnqueueMessageCheck(q, g) = Spawn(ReserveSlots(q, {g}), g, NoTask)
  BY DEF EnqueueMessageCheck
<1> HIDE DEF p
<1>6. q.active[g] => Served(p)
  BY <1>1, <1>2, <1>3, <1>4, WorkOfLiveServes
<1>7. ~CanColdStart(q, g) => Served(EvictIfLiveBound(AppendWaiting(p, g), g))
  BY <1>1, <1>2, <1>3, <1>4, QueueUpServes
<1>8. Served(Spawn(ReserveSlots(q, {g}), g, NoTask))
  BY ColdStartServes
<1> QED BY <1>5, <1>6, <1>7, <1>8

LEMMA EnqueueTaskServes ==
    ASSUME NEW q, Good(q), Served(q), NEW g \in Groups, NEW t \in Tasks
    PROVE  Served(EnqueueTask(q, g, t))
<1> DEFINE list == [q.pending_tasks EXCEPT ![g] = Append(@, t)]
           p == [q EXCEPT !.pending_tasks = list]
<1>1. list \in [Groups -> Seq(Tasks)]
  BY DEF Good, QueueType
<1>2. \A h \in Groups \ {g} : list[h] = q.pending_tasks[h]
  BY DEF Good, QueueType
<1>3. \/ EnqueueTask(q, g, t) = q
      \/ q.active[g] /\ EnqueueTask(q, g, t) = p
      \/ q.active[g] /\ EnqueueTask(q, g, t) = RequestShutdown(p, g)
      \/ /\ ~CanColdStart(q, g)
         /\ EnqueueTask(q, g, t) = EvictIfLiveBound(AppendWaiting(p, g), g)
      \/ EnqueueTask(q, g, t) = Spawn(ReserveSlots(q, {g}), g, t)
  BY DEF EnqueueTask
<1> HIDE DEF list
<1>4. p \in QueueType /\ Books(p) = Books(q)
  BY <1>1 DEF Good, QueueType, Books
<1>5. Good(p)
  BY <1>4, SameBooks
<1>6. /\ p.waiting = q.waiting /\ p.shutting_down = q.shutting_down
      /\ p.pending_messages = q.pending_messages /\ p.pending_tasks = list
  BY DEF Good, QueueType
<1> HIDE DEF p
<1>7. \A h \in Groups \ {g} : HasWork(p, h) <=> HasWork(q, h)
  BY <1>2, <1>6 DEF HasWork
<1>8. q.active[g] => Served(p)
  BY <1>4, <1>5, <1>6, <1>7, WorkOfLiveServes
<1>9. /\ Books(RequestShutdown(p, g)) = Books(p)
      /\ Line(RequestShutdown(p, g)) = Line(p)
  BY <1>4, RequestShutdownQuiet, PoolLine
<1>10. q.active[g] => Served(RequestShutdown(p, g))
  BY <1>8, <1>9, SameLine
<1>11. ~CanColdStart(q, g) => Served(EvictIfLiveBound(AppendWaiting(p, g), g))
  BY <1>4, <1>5, <1>6, <1>7, QueueUpServes
<1>12. Served(Spawn(ReserveSlots(q, {g}), g, t))
  BY ColdStartServes
<1> QED BY <1>3, <1>8, <1>10, <1>11, <1>12

\* notify_idle frees a turn and drains.
LEMMA NotifyIdleServes ==
    ASSUME NEW q, Good(q), Served(q), NEW g \in Groups, NEW p \in NotifyIdle(q, g)
    PROVE  Served(p)
<1> DEFINE free == ReleaseTurn(q, g)
           rested == [free EXCEPT !.processing[g] = FALSE, !.idle_waiting[g] = TRUE]
           pooled == IF q.active[g] /\ ~q.is_task_container[g]
                     THEN WarmPush(rested, g) ELSE rested
           ended == IF q.pending_tasks[g] # <<>>
                    THEN RequestShutdown(pooled, g) ELSE ArmIdleTimer(pooled, g)
<1>1. Good(free) /\ Live(free) = Live(q) /\ Line(free) = Line(q)
  BY ReleaseTurnGood, SlotsLine DEF Good
<1>2. p = q \/ p \in DrainWaiting(ended)
  BY DEF NotifyIdle
<1> HIDE DEF free
<1>3. rested \in QueueType /\ Books(rested) = Books(free) /\ Line(rested) = Line(free)
  BY <1>1 DEF Good, QueueType, Books, Line
<1>4. Good(rested)
  BY <1>1, <1>3, SameBooks
<1> HIDE DEF rested
<1>5. Good(pooled) /\ Books(pooled) = Books(rested) /\ Line(pooled) = Line(rested)
  BY <1>4, WarmPushQuiet, PoolLine, SameBooks DEF Good
<1> HIDE DEF pooled
<1>6. Good(ended) /\ Books(ended) = Books(pooled) /\ Line(ended) = Line(pooled)
  BY <1>5, RequestShutdownQuiet, ArmIdleTimerQuiet, PoolLine, TimersLine, SameBooks
     DEF Good
<1> HIDE DEF ended
<1>7. Listed(free)
  <2>1. /\ free.pending_tasks = q.pending_tasks /\ free.waiting = q.waiting
        /\ free.pending_messages = q.pending_messages
        /\ free.shutting_down = q.shutting_down
    BY <1>1 DEF Line
  <2>2. \A h \in Groups : Idle(free, h) => Idle(q, h)
    BY <1>1, <2>1 DEF Idle, HasWork, Live
  <2> QED BY <2>1, <2>2 DEF Listed, Served, Waiting
<1>8. Listed(ended)
  BY <1>3, <1>5, <1>6, <1>7, SameLine
<1> QED BY <1>2, <1>6, <1>8, DrainWaitingServes

\* Every teardown leaves a queue in which all the others are served.
LEMMA ReleaseAllServes ==
    ASSUME NEW q, Good(q), Served(q), NEW g \in Groups
    PROVE  Good(ReleaseAll(q, g)) /\ ServedBut(ReleaseAll(q, g), g)
<1> DEFINE free == ReleaseTurn(q, g)
           gone == ReleaseContainer(free, g)
           pop == WarmPop(gone, g)
           p == ReleaseAll(q, g)
<1>1. /\ Good(free) /\ Live(free) = Live(q) /\ Holding(free) = Holding(q) \ {g}
      /\ Line(free) = Line(q)
  BY ReleaseTurnGood, SlotsLine DEF Good
<1> HIDE DEF free
<1>2. /\ Good(gone) /\ Live(gone) = Live(q) \ {g}
      /\ Holding(gone) = Holding(q) \ {g} /\ Line(gone) = Line(q)
  BY <1>1, ReleaseContainerGood, SlotsLine DEF Good
<1>3. p = [pop EXCEPT !.processing[g] = FALSE, !.container_name[g] = NoJob,
                      !.job[g] = NoJob]
  BY DEF ReleaseAll, free
<1> HIDE DEF gone
<1>4. /\ Good(pop) /\ Books(pop) = Books(gone) /\ Line(pop) = Line(gone)
  BY <1>2, WarmPopQuiet, PoolLine, SameBooks DEF Good
<1> HIDE DEF pop, p
<1>5. p \in QueueType /\ Books(p) = Books(pop) /\ Line(p) = Line(pop)
  BY <1>3, <1>4 DEF Good, QueueType, Books, Line
<1>6. Good(p) /\ Live(p) = Live(q) \ {g} /\ Holding(p) = Holding(q) \ {g}
  BY <1>2, <1>4, <1>5, SameBooks
<1>7. /\ p.pending_tasks = q.pending_tasks /\ p.waiting = q.waiting
      /\ p.pending_messages = q.pending_messages
      /\ p.shutting_down = q.shutting_down
  BY <1>2, <1>4, <1>5 DEF Line
<1>8. ServedBut(p, g)
  <2> SUFFICES ASSUME ~p.shutting_down, NEW h \in Groups \ {g}, Idle(p, h)
               PROVE  /\ h \in Waiting(p)
                      /\ ~Room(Holding(p) \cup {g}, Live(p) \cup {g}, h)
    BY DEF ServedBut
  <2>1. Idle(q, h)
    BY <1>6, <1>7 DEF Idle, HasWork, Live
  <2>2. h \in Waiting(q) /\ ~Room(Holding(q), Live(q), h)
    BY <1>7, <2>1, ColdStartIsRoom DEF Served
  <2>3. h \in Waiting(p)
    BY <1>7, <2>2 DEF Waiting
  <2>4. /\ Holding(q) \subseteq Holding(p) \cup {g}
        /\ Live(q) \subseteq Live(p) \cup {g}
        /\ Holding(p) \cup {g} \subseteq Groups /\ Live(p) \cup {g} \subseteq Groups
    BY <1>6 DEF Holding, Live
  <2> QED BY <2>2, <2>3, <2>4, RoomShrinks
<1> QED BY <1>6, <1>8 DEF p

\* A teardown of g that changes other attributes and then drains.
LEMMA TeardownServes ==
    ASSUME NEW q, Good(q), Served(q), NEW g \in Groups,
           NEW s \in QueueType, Books(s) = Books(ReleaseAll(q, g)),
           Line(s) = Line(ReleaseAll(q, g)), NEW p \in DrainGroup(s, g)
    PROVE  Served(p)
<1>1. Good(ReleaseAll(q, g)) /\ ServedBut(ReleaseAll(q, g), g)
  BY ReleaseAllServes
<1>2. Good(s) /\ ServedBut(s, g)
  BY <1>1, SameBooks, SameLine
<1> QED BY <1>2, DrainGroupServes

LEMMA RunForGroupEndsServes ==
    ASSUME NEW q, Good(q), Served(q), NEW g \in Groups, NEW success \in BOOLEAN,
           NEW p \in RunForGroupEnds(q, g, success)
    PROVE  Served(p)
<1> DEFINE done == [q EXCEPT !.retry_count[g] = 0]
           again == ScheduleRetry(q, g)
<1>1. done \in QueueType /\ Books(done) = Books(q) /\ Line(done) = Line(q)
  BY DEF Good, QueueType, Books, Line
<1>2. again \in QueueType /\ Books(again) = Books(q) /\ Line(again) = Line(q)
  BY ScheduleRetryQuiet, TimersLine DEF Good
<1>3. \/ p \in DrainGroup(ReleaseAll(done, g), g)
      \/ p \in DrainGroup(ReleaseAll(again, g), g)
  BY DEF RunForGroupEnds
<1> HIDE DEF done, again
<1>4. Good(done) /\ Served(done) /\ Good(again) /\ Served(again)
  BY <1>1, <1>2, SameBooks, SameLine
<1> QED BY <1>3, <1>4, ReleaseAllServes, DrainGroupServes

LEMMA RunTaskEndsServes ==
    ASSUME NEW q, Good(q), Served(q), NEW g \in Groups, NEW p \in RunTaskEnds(q, g)
    PROVE  Served(p)
<1> DEFINE r == ReleaseAll(q, g)
           s == [r EXCEPT !.is_task_container[g] = FALSE, !.running_task_id[g] = NoTask]
<1>1. Good(r)
  BY ReleaseAllGood
<1>2. p \in DrainGroup(s, g)
  BY DEF RunTaskEnds
<1> HIDE DEF r
<1>3. s \in QueueType /\ Books(s) = Books(r) /\ Line(s) = Line(r)
  BY <1>1 DEF Good, QueueType, Books, Line
<1> HIDE DEF s
<1> QED BY <1>2, <1>3, TeardownServes DEF r

LEMMA ReapAdoptedServes ==
    ASSUME NEW q, Good(q), Served(q), NEW g \in Groups, NEW p \in ReapAdopted(q, g)
    PROVE  Served(p)
<1> DEFINE asked == RequestShutdown(q, g)
           r == ReleaseAll(asked, g)
           s == [r EXCEPT !.adopted[g] = FALSE, !.idle_handle[g] = "off"]
<1>1. p \in DrainGroup(s, g)
  BY DEF ReapAdopted
<1>2. Good(asked) /\ Served(asked)
  BY RequestShutdownQuiet, PoolLine, SameBooks, SameLine DEF Good
<1> HIDE DEF asked
<1>3. Good(r)
  BY <1>2, ReleaseAllGood
<1> HIDE DEF r
<1>4. s \in QueueType /\ Books(s) = Books(r) /\ Line(s) = Line(r)
  BY <1>3 DEF Good, QueueType, Books, Line
<1> HIDE DEF s
<1> QED BY <1>1, <1>2, <1>4, TeardownServes DEF r

LEMMA ReapGhostServes ==
    ASSUME NEW q, Good(q), Served(q), NEW g \in Groups, NEW p \in ReapGhost(q, g)
    PROVE  Served(p)
<1> DEFINE all == ReleaseAll(q, g)
           r == CancelIdleTimer(all, g)
           s == [r EXCEPT !.is_task_container[g] = FALSE,
                          !.running_task_id[g] = NoTask, !.missing_sweeps[g] = 0]
<1>1. p \in DrainGroup(s, g)
  BY DEF ReapGhost
<1>2. Good(all)
  BY ReleaseAllGood
<1> HIDE DEF all
<1>3. r \in QueueType /\ Books(r) = Books(all) /\ Line(r) = Line(all)
  BY <1>2, CancelIdleTimerQuiet, TimersLine DEF Good
<1> HIDE DEF r
<1>4. s \in QueueType /\ Books(s) = Books(r) /\ Line(s) = Line(r)
  BY <1>3 DEF Good, QueueType, Books, Line
<1> HIDE DEF s
<1>5. Books(s) = Books(all) /\ Line(s) = Line(all)
  BY <1>3, <1>4
<1> QED BY <1>1, <1>4, <1>5, TeardownServes DEF all

LEMMA ReconcileGroupServes ==
    ASSUME NEW q, Good(q), Served(q), NEW g \in Groups, NEW p \in ReconcileGroup(q, g)
    PROVE  Served(p)
<1> DEFINE n == q.missing_sweeps[g] + 1
           a == [q EXCEPT !.missing_sweeps[g] = 0]
           b == [q EXCEPT !.missing_sweeps[g] = n]
<1>1. p = q \/ p = a \/ p = b \/ p \in ReapGhost(q, g)
  BY DEF ReconcileGroup
<1> HIDE DEF n
<1>2. Books(a) = Books(q) /\ Line(a) = Line(q)
  BY DEF Good, QueueType, Books, Line
<1>3. Books(b) = Books(q) /\ Line(b) = Line(q)
  BY DEF Good, QueueType, Books, Line
<1> HIDE DEF a, b
<1> QED BY <1>1, <1>2, <1>3, ReapGhostServes, SameLine

LEMMA SendMessageServes ==
    ASSUME NEW q, Good(q), Served(q), NEW g \in Groups, Deliverable(q, g)
    PROVE  Served(SendMessage(q, g))
<1> DEFINE warm == WarmPop(CancelIdleTimer(q, g), g)
           turn == AcquireTurns(warm, {g})
           taken == [turn EXCEPT !.processing[g] = TRUE]
           resumed == IF q.processing[g] THEN q ELSE taken
           j == q.job[g]
           p == [resumed EXCEPT !.idle_waiting[g] = FALSE]
<1>1. q \in QueueType /\ q.active[g] /\ j \in Jobs
  BY DEF Good, Deliverable, QueueType
<1>2. /\ CancelIdleTimer(q, g) \in QueueType
      /\ Books(CancelIdleTimer(q, g)) = Books(q)
      /\ Line(CancelIdleTimer(q, g)) = Line(q)
  BY <1>1, CancelIdleTimerQuiet, TimersLine
<1>3. warm \in QueueType /\ Books(warm) = Books(q) /\ Line(warm) = Line(q)
  BY <1>2, WarmPopQuiet, PoolLine
<1>4. Good(warm) /\ Live(warm) = Live(q) /\ Holding(warm) = Holding(q)
  BY <1>3, SameBooks
<1> HIDE DEF warm
<1>5. {g} \in SUBSET Live(warm)
  BY <1>1, <1>4 DEF Live
<1>6. /\ Good(turn) /\ Live(turn) = Live(q) /\ Holding(turn) = Holding(q) \cup {g}
      /\ Line(turn) = Line(q)
  BY <1>3, <1>4, <1>5, AcquireTurnsGood, SlotsLine
<1> HIDE DEF turn
<1>7. Served(turn)
  BY <1>6, MoreHeldServes
<1>8. taken \in QueueType /\ Books(taken) = Books(turn) /\ Line(taken) = Line(turn)
  BY <1>6 DEF Good, QueueType, Books, Line
<1> HIDE DEF taken
<1>9. Served(resumed) /\ resumed \in QueueType
  BY <1>1, <1>7, <1>8, SameLine
<1>10. \E v : SendMessage(q, g) = [p EXCEPT !.runner[g][j] = v]
  BY DEF SendMessage, warm, turn, taken
<1>11. PICK v : SendMessage(q, g) = [p EXCEPT !.runner[g][j] = v]
  BY <1>10
<1> HIDE DEF resumed, j
<1>12. p \in QueueType /\ Books(p) = Books(resumed) /\ Line(p) = Line(resumed)
  BY <1>9 DEF QueueType, Books, Line
<1> HIDE DEF p
<1>13. /\ Books([p EXCEPT !.runner[g][j] = v]) = Books(p)
       /\ Line([p EXCEPT !.runner[g][j] = v]) = Line(p)
  BY <1>12 DEF QueueType, Books, Line
<1> QED BY <1>9, <1>11, <1>12, <1>13, SameLine

\* _run_for_group takes the pending messages of the group it runs for, and
\* _run_task was handed its task when it was spawned.
LEMMA RunnerStartsServes ==
    ASSUME NEW q, Good(q), Served(q), NEW g \in Groups
    PROVE  /\ Served(RunForGroupStarts(q, g))
           /\ \A t \in Tasks : Served(RunTaskStarts(q, g, t))
<1> DEFINE p == CancelIdleTimer(q, g)
           m == [p EXCEPT !.idle_waiting[g] = FALSE, !.is_task_container[g] = FALSE,
                          !.pending_messages[g] = FALSE]
           r == ReserveSlots(m, {g})
<1>1. RunForGroupStarts(q, g) = r
  BY DEF RunForGroupStarts
<1>2. Good(p) /\ Served(p)
  BY CancelIdleTimerQuiet, TimersLine, SameBooks, SameLine DEF Good
<1> HIDE DEF p
<1>3. m \in QueueType /\ Books(m) = Books(p)
  BY <1>2 DEF Good, QueueType, Books
<1>4. /\ m.pending_tasks = p.pending_tasks /\ m.waiting = p.waiting
      /\ m.shutting_down = p.shutting_down
      /\ \A h \in Groups \ {g} : m.pending_messages[h] = p.pending_messages[h]
  BY <1>2 DEF Good, QueueType
<1>5. Good(m) /\ Live(m) = Live(p) /\ Holding(m) = Holding(p)
  BY <1>2, <1>3, SameBooks
<1> HIDE DEF m
<1>6. /\ Good(r) /\ Live(r) = Live(p) \cup {g} /\ Holding(r) = Holding(p) \cup {g}
      /\ Line(r) = Line(m)
  BY <1>5, ReserveSlotsGood, ReserveSlotsLine
<1> HIDE DEF r
<1>7. \A h \in Groups : Idle(r, h) => Idle(p, h)
  BY <1>4, <1>6 DEF Idle, HasWork, Live, Line
<1>8. Served(r)
  BY <1>2, <1>4, <1>6, <1>7, LessWorkServes DEF Line
<1>9. ASSUME NEW t \in Tasks
      PROVE  Served(RunTaskStarts(q, g, t))
  <2> DEFINE k == [p EXCEPT !.idle_waiting[g] = FALSE,
                            !.is_task_container[g] = TRUE, !.running_task_id[g] = t]
             s == ReserveSlots(k, {g})
  <2>1. RunTaskStarts(q, g, t) = s
    BY DEF RunTaskStarts, p
  <2>2. k \in QueueType /\ Books(k) = Books(p) /\ Line(k) = Line(p)
    BY <1>2 DEF Good, QueueType, Books, Line
  <2> HIDE DEF k
  <2>3. Good(k) /\ Live(k) = Live(p) /\ Holding(k) = Holding(p) /\ Served(k)
    BY <1>2, <2>2, SameBooks, SameLine
  <2>4. /\ Good(s) /\ Live(s) = Live(k) \cup {g} /\ Holding(s) = Holding(k) \cup {g}
        /\ Line(s) = Line(k)
    BY <2>3, ReserveSlotsGood, ReserveSlotsLine
  <2> HIDE DEF s
  <2>5. Served(s)
    BY <2>3, <2>4, MoreHeldServes
  <2> QED BY <2>1, <2>5
<1> QED BY <1>1, <1>8, <1>9

LEMMA AdoptServes ==
    ASSUME NEW q, Good(q), Served(q), NEW g \in Groups, NEW j \in Jobs
    PROVE  Served(AdoptOrphanContainer(q, g, j))
<1> DEFINE r == AcquireContainers(q, {g})
           p == AdoptOrphanContainer(q, g, j)
<1>1. /\ Good(r) /\ Line(r) = Line(q)
      /\ Live(r) = Live(q) \cup {g} /\ Holding(r) = Holding(q)
  BY AcquireContainersGood, SlotsLine DEF Good
<1>2. p = [r EXCEPT !.processing[g] = FALSE, !.is_task_container[g] = FALSE,
                    !.adopted[g] = TRUE, !.job[g] = j]
  BY DEF AdoptOrphanContainer
<1> HIDE DEF r, p
<1>3. Served(r)
  BY <1>1, MoreHeldServes
<1>4. Books(p) = Books(r) /\ Line(p) = Line(r)
  BY <1>1, <1>2 DEF Good, QueueType, Books, Line
<1>5. Served(p)
  BY <1>3, <1>4, SameLine
<1> QED BY <1>5 DEF p

-----------------------------------------------------------------------------
(* Actions.                                                                *)

\* A coroutine or a container changes its own record.
LEMMA SetRunnerServes ==
    ASSUME NEW q, Good(q), Served(q), NEW g \in Groups, NEW j \in Jobs, NEW r
    PROVE  Served([q EXCEPT !.runner[g][j] = r])
<1> DEFINE p == [q EXCEPT !.runner[g][j] = r]
<1>1. Books(p) = Books(q) /\ Line(p) = Line(q)
  BY DEF Good, QueueType, Books, Line
<1> HIDE DEF p
<1>2. Served(p)
  BY <1>1, SameLine
<1> QED BY <1>2 DEF p

LEMMA ArrivalServes ==
    ASSUME Good(queue), Served(queue), NEW g \in Groups, Arrival(g)
    PROVE  Served(queue')
<1>1. CASE IncomingMessage(g)
  BY <1>1, EnqueueMessageCheckServes DEF IncomingMessage
<1>2. CASE MessageLoopDelivers(g)
  BY <1>2, EnqueueMessageCheckServes, SendMessageServes DEF MessageLoopDelivers
<1>3. ASSUME NEW t \in Tasks, ScheduleTask(g, t)
      PROVE  Served(queue')
  BY <1>3, EnqueueTaskServes DEF ScheduleTask
<1> QED BY <1>1, <1>2, <1>3 DEF Arrival

LEMMA TimersServe ==
    ASSUME Good(queue), Served(queue), NEW g \in Groups,
           RetryFires(g) \/ IdleTimerFires(g)
    PROVE  Served(queue')
<1>1. CASE RetryFires(g)
  <2> DEFINE n == queue.retry_timers[g] - 1
             p == [queue EXCEPT !.retry_timers[g] = n]
  <2>1. n \in Nat
    BY <1>1 DEF RetryFires, Good, QueueType
  <2>2. queue' = EnqueueMessageCheck(p, g)
    BY <1>1 DEF RetryFires
  <2> HIDE DEF n
  <2>3. p \in QueueType /\ Books(p) = Books(queue) /\ Line(p) = Line(queue)
    BY <2>1 DEF Good, QueueType, Books, Line
  <2> HIDE DEF p
  <2>4. Good(p) /\ Served(p)
    BY <2>3, SameBooks, SameLine
  <2> QED BY <2>2, <2>4, EnqueueMessageCheckServes
<1>2. CASE IdleTimerFires(g)
  <2> DEFINE p == CancelIdleTimer(queue, g)
  <2>1. Good(p) /\ Served(p)
    BY CancelIdleTimerQuiet, TimersLine, SameBooks, SameLine DEF Good
  <2>2. queue' \in ReapAdopted(p, g) \/ queue' = RequestShutdown(p, g)
    BY <1>2 DEF IdleTimerFires
  <2> HIDE DEF p
  <2>3. Served(RequestShutdown(p, g))
    BY <2>1, RequestShutdownQuiet, PoolLine, SameLine DEF Good
  <2> QED BY <2>1, <2>2, <2>3, ReapAdoptedServes
<1> QED BY <1>1, <1>2

LEMMA ApprovalsServe ==
    ASSUME Good(queue), Served(queue), NEW g \in Groups, NEW r \in Requests,
           \/ ApprovalRequested(g, r) \/ ApprovalResolved(g, r)
           \/ \E alive \in BOOLEAN : Adopt(g, r, alive)
    PROVE  Served(queue')
<1>1. CASE ApprovalRequested(g, r) \/ ApprovalResolved(g, r)
  BY <1>1, SuspendQuiet, ResumeQuiet, TimersLine, SameLine
     DEF ApprovalRequested, ApprovalResolved, Good
<1>2. ASSUME NEW alive \in BOOLEAN, Adopt(g, r, alive)
      PROVE  Served(queue')
  <2> DEFINE j == FreeJob(queue, g)
             phase == IF alive THEN "orphan" ELSE "none"
             run == [NoRunner EXCEPT !.phase = phase, !.busy = alive]
             p == [queue EXCEPT !.runner[g][j] = run]
             s == AdoptOrphanContainer(p, g, j)
  <2>1. queue' = SuspendForApproval(s, g, r)
    BY <1>2 DEF Adopt
  <2>2. j \in Jobs
    BY <1>2 DEF Adopt, FreeJob, FreeJobs
  <2>3. run \in RunnerType
    BY DEF NoRunner, RunnerType
  <2> HIDE DEF j, run
  <2>4. Good(p) /\ Served(p)
    BY <2>2, <2>3, SetRunnerGood, SetRunnerServes
  <2> HIDE DEF p
  <2>5. Good(s) /\ Served(s)
    BY <2>2, <2>4, AdoptGood, AdoptServes
  <2> HIDE DEF s
  <2> QED BY <2>1, <2>5, SuspendQuiet, TimersLine, SameLine DEF Good
<1> QED BY <1>1, <1>2

LEMMA RunnerCoroutinesServe ==
    ASSUME Good(queue), Served(queue), NEW g \in Groups, NEW j \in Jobs,
           \/ RunnerStarts(g, j) \/ RunnerRegisters(g, j) \/ TaskCloseFires(g, j)
           \/ HandleReply(g, j) \/ HandleFinal(g, j)
    PROVE  Served(queue')
<1> DEFINE r == Runner(g, j)
<1>0. r \in RunnerType /\ queue.runner[g][j] = r
  BY RunnerTyped DEF Runner
<1>1. CASE RunnerStarts(g, j)
  <2> DEFINE s == [r EXCEPT !.phase = "starting"]
             p == [queue EXCEPT !.runner[g][j] = s]
  <2>1. p = [queue EXCEPT !.runner[g][j].phase = "starting"]
    BY <1>0
  <2>2. \/ queue' = RunForGroupStarts(p, g)
        \/ r.task # NoTask /\ queue' = RunTaskStarts(p, g, r.task)
    BY <1>1, <2>1 DEF RunnerStarts
  <2> HIDE DEF r
  <2>3. s \in RunnerType /\ r.task \in Tasks \cup {NoTask}
    BY <1>0 DEF RunnerType
  <2> HIDE DEF s
  <2>4. Good(p) /\ Served(p)
    BY <2>3, SetRunnerGood, SetRunnerServes
  <2> HIDE DEF p
  <2> QED BY <2>2, <2>3, <2>4, RunnerStartsServes
<1>2. CASE RunnerRegisters(g, j)
  <2> DEFINE s == [r EXCEPT !.phase = "up", !.busy = TRUE]
             p == [queue EXCEPT !.runner[g][j] = s]
  <2>1. queue' = [p EXCEPT !.job[g] = j, !.container_name[g] = j]
    BY <1>2 DEF RunnerRegisters, RegisterProcess, Runner
  <2> HIDE DEF r
  <2>2. s \in RunnerType
    BY <1>0 DEF RunnerType
  <2> HIDE DEF s
  <2>3. Good(p) /\ Served(p)
    BY <2>2, SetRunnerGood, SetRunnerServes
  <2> HIDE DEF p
  <2>4. Books(queue') = Books(p) /\ Line(queue') = Line(p)
    BY <2>1, <2>3 DEF Good, QueueType, Books, Line
  <2> QED BY <2>3, <2>4, SameLine
<1>3. CASE TaskCloseFires(g, j)
  <2> DEFINE s == [r EXCEPT !.close = "fired"]
             p == [queue EXCEPT !.runner[g][j] = s]
  <2>1. queue' = RequestShutdown(p, g)
    BY <1>3 DEF TaskCloseFires, Runner
  <2> HIDE DEF r
  <2>2. s \in RunnerType
    BY <1>0 DEF RunnerType
  <2> HIDE DEF s
  <2>3. Good(p) /\ Served(p)
    BY <2>2, SetRunnerGood, SetRunnerServes
  <2> HIDE DEF p
  <2> QED BY <2>1, <2>3, RequestShutdownQuiet, PoolLine, SameLine DEF Good
<1>4. CASE HandleReply(g, j)
  <2>1. \/ queue' = ArmIdleTimer(queue, g)
        \/ \E s : queue' = [queue EXCEPT !.runner[g][j] = s]
    BY <1>4 DEF HandleReply
  <2>2. Served(ArmIdleTimer(queue, g))
    BY ArmIdleTimerQuiet, TimersLine, SameLine DEF Good
  <2>3. \A s : Served([queue EXCEPT !.runner[g][j] = s])
    BY SetRunnerServes
  <2> QED BY <2>1, <2>2, <2>3
<1>5. CASE HandleFinal(g, j)
  <2> DEFINE n == r.finals - 1
             c == IF r.task # NoTask /\ r.close = "unarmed" THEN "armed" ELSE r.close
             s == [r EXCEPT !.finals = n, !.close = c]
             p == [queue EXCEPT !.runner[g][j] = s]
  <2>1. queue' \in NotifyIdle(p, g)
    BY <1>5 DEF HandleFinal, Runner
  <2>2. r.finals > 0
    BY <1>5 DEF HandleFinal
  <2> HIDE DEF r
  <2>3. n \in Nat /\ c \in {"unarmed", "armed", "fired"}
    BY <1>0, <2>2 DEF RunnerType
  <2> HIDE DEF n, c
  <2>4. s \in RunnerType
    BY <1>0, <2>3 DEF RunnerType
  <2> HIDE DEF s
  <2>5. Good(p) /\ Served(p)
    BY <2>4, SetRunnerGood, SetRunnerServes
  <2> HIDE DEF p
  <2> QED BY <2>1, <2>5, NotifyIdleServes
<1> QED BY <1>1, <1>2, <1>3, <1>4, <1>5

LEMMA RunnerEndsServes ==
    ASSUME Good(queue), Served(queue), NEW g \in Groups, NEW j \in Jobs,
           NEW success \in BOOLEAN, NEW raised \in BOOLEAN,
           RunnerEnds(g, j, success, raised)
    PROVE  Served(queue')
<1> DEFINE gone == [queue EXCEPT !.runner[g][j] = NoRunner]
           quiet == CancelIdleTimer(gone, g)
<1>1. \/ queue' \in RunForGroupEnds(gone, g, success)
      \/ queue' \in RunForGroupEnds(quiet, g, success)
      \/ queue' \in RunTaskEnds(gone, g)
  BY DEF RunnerEnds
<1>2. NoRunner \in RunnerType
  BY DEF NoRunner, RunnerType
<1>3. Good(gone) /\ Served(gone)
  BY <1>2, SetRunnerGood, SetRunnerServes
<1> HIDE DEF gone
<1>4. Good(quiet) /\ Served(quiet)
  BY <1>3, CancelIdleTimerQuiet, TimersLine, SameBooks, SameLine DEF Good
<1> HIDE DEF quiet
<1> QED BY <1>1, <1>3, <1>4, RunForGroupEndsServes, RunTaskEndsServes

LEMMA ContainersServe ==
    ASSUME Good(queue), Served(queue), NEW g \in Groups, NEW j \in Jobs,
           \/ AgentFinishesTurn(g, j) \/ AgentTakesInput(g, j)
           \/ ContainerDies(g, j) \/ RunnerLost(g, j)
    PROVE  Served(queue')
<1>1. \E s : queue' = [queue EXCEPT !.runner[g][j] = s]
  BY DEF AgentFinishesTurn, AgentTakesInput, ContainerDies, RunnerLost
<1> QED BY <1>1, SetRunnerServes

LEMMA SweepServes ==
    ASSUME Good(queue), Served(queue),
           \/ Shutdown \/ SweepLists \/ SweepFails \/ SweepResumes
           \/ \E g \in Groups : SweepVisits(g)
    PROVE  Served(queue')
<1>1. CASE Shutdown
  BY <1>1 DEF Shutdown, Served, Good, QueueType
<1>2. ASSUME NEW q, Good(q), Served(q), NEW p, \E s : p = [q EXCEPT !.sweep = s]
      PROVE  Served(p)
  <2>1. Books(p) = Books(q) /\ Line(p) = Line(q)
    BY <1>2 DEF Good, QueueType, Books, Line
  <2> QED BY <1>2, <2>1, SameLine
<1>3. CASE SweepLists \/ SweepFails \/ SweepResumes
  <2>1. \E s : queue' = [queue EXCEPT !.sweep = s]
    BY <1>3 DEF SweepLists, SweepFails, SweepResumes
  <2> QED BY <1>2, <2>1
<1>4. ASSUME NEW g \in Groups, SweepVisits(g)
      PROVE  Served(queue')
  <2>1. PICK q \in ReconcileGroup(queue, g) : \E s : queue' = [q EXCEPT !.sweep = s]
    BY <1>4 DEF SweepVisits
  <2>2. Good(q) /\ Served(q)
    BY ReconcileGroupGood, ReconcileGroupServes
  <2> QED BY <1>2, <2>1, <2>2
<1> QED BY <1>1, <1>3, <1>4

LEMMA NextServes ==
    ASSUME Good(queue), Served(queue), Next
    PROVE  Served(queue')
<1>1. ASSUME NEW g \in Groups, GroupStep(g)
      PROVE  Served(queue')
  <2>1. ASSUME NEW j \in Jobs, RunnerStep(g, j)
        PROVE  Served(queue')
    BY <2>1, RunnerCoroutinesServe, RunnerEndsServes, ContainersServe DEF RunnerStep
  <2> QED BY <1>1, <2>1, TimersServe, ApprovalsServe DEF GroupStep
<1>2. \/ \E g \in Groups : Arrival(g) \/ GroupStep(g)
      \/ Shutdown \/ SweepLists \/ SweepFails \/ SweepResumes
      \/ \E g \in Groups : SweepVisits(g)
  BY DEF Next
<1> QED BY <1>1, <1>2, ArrivalServes, SweepServes

-----------------------------------------------------------------------------
(* The theorem.                                                            *)

LEMMA ServedIsNoStrandedWork == NoStrandedWork <=> Served(queue)
BY DEF NoStrandedWork, Served, Idle

\* No work is stranded, for any groups, limits and bounds: whichever handler
\* gives a slot back (notify_idle, either finally block, the reaper, the reap
\* of an adopted container) also finds the work that was waiting for it, and
\* work that is waiting is on the list that those handlers drain.
THEOREM NoWorkIsStranded == Spec => []NoStrandedWork
<1>1. Init => NoStrandedWork
  BY DEF Init, NoStrandedWork, HasWork
<1>2. QueueInv /\ NoStrandedWork /\ [Next]_vars => NoStrandedWork'
  <2> SUFFICES ASSUME QueueInv, NoStrandedWork, [Next]_vars
               PROVE  NoStrandedWork'
    OBVIOUS
  <2>1. Good(queue) /\ Served(queue)
    BY ServedIsNoStrandedWork DEF QueueInv, TypeOK, Good
  <2>2. Served(queue')
    BY <2>1, NextServes DEF vars
  <2> QED BY <2>2 DEF NoStrandedWork, Served, Idle, HasWork, Waiting,
                      CanColdStart, CanStartTurn, CanSpawn
<1> QED BY <1>1, <1>2, QueueInvariant, PTL DEF Spec

=============================================================================
