----------------------- MODULE GroupQueueLimitProofs -----------------------
(***************************************************************************)
(* Proofs about GroupQueue: slots and turns in lockstep; the limits on     *)
(* turns and containers, the runners of a group, the warm pool and the     *)
(* idle timer; and the refinement of TurnAdmission.                        *)
(*                                                                         *)
(* Adoption does not ask for room, and the reaper frees a group whose      *)
(* coroutine may still be there: with either of them TLC finds states past *)
(* the limits, so the theorems have hypotheses on Orphans and MaxReaps.    *)
(* Lockstep holds with the reaper too.  Coroutines may be lost, unless a   *)
(* theorem says otherwise.                                                 *)
(*                                                                         *)
(* A handler changes one group (Around) and may then start others          *)
(* (Grants).  The invariant, Regular, says of every group by itself that   *)
(* its slot, its place in the pool, its job, its timer and its runners     *)
(* agree (Sound), and of the queue that its limits are kept (Fits) and     *)
(* nobody is in the pool twice (NoDouble).  The groups one pass over the   *)
(* waiting list admits keep the limits because the last of them was let in *)
(* with all the others counted (LastInLine).                               *)
(***************************************************************************)
EXTENDS GroupQueueWorkProofs

\* The groups with a turn in flight.
Busy(q) == {g \in Groups : q.processing[g]}

\* The attributes that admission leaves alone.
Desk(q) == <<q.job, q.idle_handle, q.adopted, q.awaiting_approval,
             q.is_task_container, q.warm, q.sweep>>

\* Turns of the groups T and containers of the groups L are within all limits.
InLimits(T, L) ==
    /\ Cardinality(L) <= GlobalLimit
    /\ Cardinality(T) <= GlobalLimit
    /\ \A t \in Tenants : Cardinality(OfTenant(T, t)) <= TenantLimit[t]
    /\ \A c \in Coworkers : Cardinality(OfCoworker(T, c)) <= CoworkerLimit[c]

Fits(q) == InLimits(Holding(q), Live(q))

\* A coroutine was spawned for h.
Started(q, p, h) ==
    \E t \in Tasks \cup {NoTask} :
        p.runner[h] = [q.runner[h] EXCEPT ![FreeJob(q, h)] = NewRunner(t)]

\* p is q after cold starts of the groups of A, within the limits.
Gives(q, p, A) ==
    /\ A \cap Live(q) = {}
    /\ Live(p) = Live(q) \cup A
    /\ Holding(p) = Holding(q) \cup A
    /\ Busy(p) = Busy(q) \cup A
    /\ Desk(p) = Desk(q)
    /\ \A h \in Groups \ A : p.runner[h] = q.runner[h]
    /\ \A h \in A : Started(q, p, h)
    /\ Fits(q) => Fits(p)

\* p is q after cold starts.
Grants(q, p) == \E A \in SUBSET Groups : Gives(q, p, A)

\* p is q but for a shutdown request to one of its containers.
SameButStop(q, p) ==
    /\ Books(p) = Books(q) /\ Busy(p) = Busy(q) /\ Desk(p) = Desk(q)
    /\ \A h \in Groups, j \in Jobs :
         LET r == q.runner[h][j]
             s == p.runner[h][j]
         IN /\ s.phase = r.phase /\ s.task = r.task /\ s.busy = r.busy
            /\ s.input = r.input /\ s.finals = r.finals
            /\ r.stop /\ r.phase = "up" => s.stop

-----------------------------------------------------------------------------
(* Room, and the end of a pass over the waiting list.                      *)

\* Of some waiting groups one is last.
LEMMA LastInLine ==
    ASSUME NEW q \in QueueType, NEW B, B \subseteq Waiting(q), B # {}
    PROVE  \E g \in B : \A h \in B : h = g \/ h \in Ahead(q, g)
<1> DEFINE n == Len(q.waiting)
           T == {n - i : i \in {k \in DOMAIN q.waiting : q.waiting[k] \in B}}
<1>1. n \in Nat /\ DOMAIN q.waiting = 1..n
  BY DEF QueueType
<1> HIDE DEF n
<1>2. T \subseteq Nat
  BY <1>1
<1>3. T # {}
  BY DEF Waiting
<1> HIDE DEF T
<1>4. PICK m \in T : \A k \in T : m <= k
  BY <1>2, <1>3, Least
<1>5. PICK i \in DOMAIN q.waiting : m = n - i /\ q.waiting[i] \in B
  BY <1>4 DEF T
<1>6. \A k \in DOMAIN q.waiting : q.waiting[k] \in B => k <= i
  <2> SUFFICES ASSUME NEW k \in DOMAIN q.waiting, q.waiting[k] \in B
               PROVE  k <= i
    OBVIOUS
  <2>1. n - k \in T
    BY DEF T
  <2> QED BY <1>1, <1>4, <1>5, <2>1
<1>7. ASSUME NEW h \in B
      PROVE  h = q.waiting[i] \/ h \in Ahead(q, q.waiting[i])
  <2>1. PICK k \in DOMAIN q.waiting : q.waiting[k] = h
    BY DEF Waiting
  <2>2. k <= i
    BY <1>6, <2>1
  <2>3. k = i \/ k < i
    BY <1>1, <2>2
  <2>4. h \in Groups
    BY DEF Waiting
  <2> QED BY <2>1, <2>3, <2>4 DEF Ahead
<1> QED BY <1>5, <1>7

\* One more group in a set.
LEMMA OneMore ==
    ASSUME NEW S, NEW T, NEW g, S \subseteq Groups, T \subseteq S \cup {g},
           T \subseteq Groups, NEW limit \in Nat, Cardinality(S) < limit
    PROVE  Cardinality(T) <= limit
<1>1. IsFiniteSet(S) /\ Cardinality(S) \in Nat
  BY GroupSets
<1>2. IsFiniteSet(S \cup {g}) /\ Cardinality(S \cup {g}) <= Cardinality(S) + 1
      /\ Cardinality(S \cup {g}) \in Nat
  <2>1. IsFiniteSet(S \cup {g})
        /\ Cardinality(S \cup {g}) = IF g \in S THEN Cardinality(S) ELSE Cardinality(S) + 1
    BY <1>1, FS_AddElement
  <2> QED BY <1>1, <2>1
<1>3. Cardinality(T) <= Cardinality(S \cup {g}) /\ Cardinality(T) \in Nat
  BY <1>2, GroupSets, FS_Subset
<1> QED BY <1>1, <1>2, <1>3

\* A pass that admits A, each with room for it and those ahead of it, keeps
\* the limits.
LEMMA PassFits ==
    ASSUME NEW q, Good(q), Fits(q), NEW A, A \subseteq Waiting(q),
           \A g \in A : RoomAtTurn(q, A, g)
    PROVE  InLimits(Holding(q) \cup A, Live(q) \cup A)
<1> DEFINE H == Holding(q)
           L == Live(q)
           Before(g) == Ahead(q, g) \cap A
<1>1. /\ A \subseteq Groups /\ H \subseteq Groups /\ L \subseteq Groups
      /\ q \in QueueType
  BY DEF Waiting, Holding, Live, Good
<1>2. ASSUME NEW g \in A
      PROVE  Room(H \cup Before(g), L \cup Before(g), g)
  <2> DEFINE s == ReserveSlots(q, Before(g))
  <2>1. Before(g) \in SUBSET Groups /\ g \in Groups
    BY <1>1
  <2> HIDE DEF Before
  <2>2. Good(s) /\ Live(s) = L \cup Before(g) /\ Holding(s) = H \cup Before(g)
    BY <2>1, ReserveSlotsGood
  <2>3. CanColdStart(s, g)
    BY DEF RoomAtTurn, Before
  <2> HIDE DEF s, H, L
  <2> QED BY <2>1, <2>2, <2>3, ColdStartIsRoom
<1>3. ASSUME NEW B, B \subseteq A, B # {}
      PROVE  \E g \in B : B \subseteq Before(g) \cup {g}
  <2>1. PICK g \in B : \A h \in B : h = g \/ h \in Ahead(q, g)
    BY <1>1, <1>3, LastInLine
  <2> QED BY <1>3, <2>1
<1>4. /\ \A g \in A : TenantOf[g] \in Tenants /\ CoworkerOf[g] \in Coworkers
      /\ GlobalLimit \in Nat /\ \A t \in Tenants : TenantLimit[t] \in Nat
      /\ \A c \in Coworkers : CoworkerLimit[c] \in Nat
  BY <1>1, QueueAssumptions
<1>5. \A g : Before(g) \subseteq A
  OBVIOUS
<1>6. InLimits(H, L)
  BY DEF Fits
<1> HIDE DEF Before, H, L
<1>7. CASE A = {}
  <2>1. H \cup A = H /\ L \cup A = L
    BY <1>7
  <2> QED BY <1>6, <2>1 DEF H, L
<1>8. CASE A # {}
  <2>1. PICK g \in A : A \subseteq Before(g) \cup {g}
    BY <1>3, <1>8
  <2>2. Room(H \cup Before(g), L \cup Before(g), g)
    BY <1>2
  <2>3. Cardinality(H \cup A) <= GlobalLimit
    BY <1>1, <1>4, <1>5, <2>1, <2>2, OneMore DEF Room
  <2>4. Cardinality(L \cup A) <= GlobalLimit
    BY <1>1, <1>4, <1>5, <2>1, <2>2, OneMore DEF Room
  <2>5. ASSUME NEW t \in Tenants
        PROVE  Cardinality(OfTenant(H \cup A, t)) <= TenantLimit[t]
    <3>1. CASE OfTenant(A, t) = {}
      <4>1. OfTenant(H \cup A, t) = OfTenant(H, t)
        BY <3>1 DEF OfTenant
      <4> QED BY <1>6, <4>1 DEF InLimits
    <3>2. CASE OfTenant(A, t) # {}
      <4>1. PICK x \in OfTenant(A, t) : OfTenant(A, t) \subseteq Before(x) \cup {x}
        BY <1>3, <3>2 DEF OfTenant
      <4>2. x \in A /\ TenantOf[x] = t
        BY <4>1 DEF OfTenant
      <4>3. Cardinality(OfTenant(H \cup Before(x), t)) < TenantLimit[t]
        BY <1>2, <4>2 DEF Room
      <4>4. /\ OfTenant(H \cup A, t) \subseteq OfTenant(H \cup Before(x), t) \cup {x}
            /\ OfTenant(H \cup A, t) \subseteq Groups
            /\ OfTenant(H \cup Before(x), t) \subseteq Groups
        BY <1>1, <1>5, <4>1 DEF OfTenant
      <4> QED BY <1>4, <4>3, <4>4, OneMore
    <3> QED BY <3>1, <3>2
  <2>6. ASSUME NEW c \in Coworkers
        PROVE  Cardinality(OfCoworker(H \cup A, c)) <= CoworkerLimit[c]
    <3>1. CASE OfCoworker(A, c) = {}
      <4>1. OfCoworker(H \cup A, c) = OfCoworker(H, c)
        BY <3>1 DEF OfCoworker
      <4> QED BY <1>6, <4>1 DEF InLimits
    <3>2. CASE OfCoworker(A, c) # {}
      <4>1. PICK x \in OfCoworker(A, c) : OfCoworker(A, c) \subseteq Before(x) \cup {x}
        BY <1>3, <3>2 DEF OfCoworker
      <4>2. x \in A /\ CoworkerOf[x] = c
        BY <4>1 DEF OfCoworker
      <4>3. Cardinality(OfCoworker(H \cup Before(x), c)) < CoworkerLimit[c]
        BY <1>2, <4>2 DEF Room
      <4>4. /\ OfCoworker(H \cup A, c) \subseteq OfCoworker(H \cup Before(x), c) \cup {x}
            /\ OfCoworker(H \cup A, c) \subseteq Groups
            /\ OfCoworker(H \cup Before(x), c) \subseteq Groups
        BY <1>1, <1>5, <4>1 DEF OfCoworker
      <4> QED BY <1>4, <4>3, <4>4, OneMore
    <3> QED BY <3>1, <3>2
  <2>7. InLimits(H \cup A, L \cup A)
    BY <2>3, <2>4, <2>5, <2>6 DEF InLimits
  <2> QED BY <2>7 DEF H, L
<1> QED BY <1>7, <1>8

\* One group that the admission test lets in keeps the limits; a resumed turn
\* asks only for the turn.
LEMMA OneFits ==
    ASSUME NEW q, Good(q), Fits(q), NEW g \in Groups, CanStartTurn(q, g)
    PROVE  /\ InLimits(Holding(q) \cup {g}, Live(q))
           /\ CanSpawn(q) => InLimits(Holding(q) \cup {g}, Live(q) \cup {g})
<1> DEFINE H == Holding(q)
           L == Live(q)
           K == H \cup {g}
<1>1. /\ H \subseteq Groups /\ L \subseteq Groups /\ K \subseteq Groups
  BY DEF Holding, Live
<1>2. /\ TenantOf[g] \in Tenants /\ CoworkerOf[g] \in Coworkers
      /\ GlobalLimit \in Nat /\ \A t \in Tenants : TenantLimit[t] \in Nat
      /\ \A c \in Coworkers : CoworkerLimit[c] \in Nat
  BY QueueAssumptions
<1>3. /\ Cardinality(H) < GlobalLimit
      /\ Cardinality(OfTenant(H, TenantOf[g])) < TenantLimit[TenantOf[g]]
      /\ Cardinality(OfCoworker(H, CoworkerOf[g])) < CoworkerLimit[CoworkerOf[g]]
      /\ CanSpawn(q) => Cardinality(L) < GlobalLimit
  BY <1>2 DEF CanStartTurn, CanSpawn, Good, Balanced
<1>4. InLimits(H, L)
  BY DEF Fits
<1> HIDE DEF H, L
<1>5. Cardinality(K) <= GlobalLimit
  BY <1>1, <1>2, <1>3, OneMore
<1>6. CanSpawn(q) => Cardinality(L \cup {g}) <= GlobalLimit
  BY <1>1, <1>2, <1>3, OneMore
<1>7. ASSUME NEW t \in Tenants
      PROVE  Cardinality(OfTenant(K, t)) <= TenantLimit[t]
  <2>1. CASE t = TenantOf[g]
    <3>1. /\ OfTenant(K, t) \subseteq OfTenant(H, t) \cup {g}
          /\ OfTenant(K, t) \subseteq Groups /\ OfTenant(H, t) \subseteq Groups
      BY <1>1 DEF OfTenant
    <3> QED BY <1>2, <1>3, <2>1, <3>1, OneMore
  <2>2. CASE t # TenantOf[g]
    <3>1. OfTenant(K, t) = OfTenant(H, t)
      BY <2>2 DEF OfTenant
    <3> QED BY <1>4, <3>1 DEF InLimits
  <2> QED BY <2>1, <2>2
<1>8. ASSUME NEW c \in Coworkers
      PROVE  Cardinality(OfCoworker(K, c)) <= CoworkerLimit[c]
  <2>1. CASE c = CoworkerOf[g]
    <3>1. /\ OfCoworker(K, c) \subseteq OfCoworker(H, c) \cup {g}
          /\ OfCoworker(K, c) \subseteq Groups /\ OfCoworker(H, c) \subseteq Groups
      BY <1>1 DEF OfCoworker
    <3> QED BY <1>2, <1>3, <2>1, <3>1, OneMore
  <2>2. CASE c # CoworkerOf[g]
    <3>1. OfCoworker(K, c) = OfCoworker(H, c)
      BY <2>2 DEF OfCoworker
    <3> QED BY <1>4, <3>1 DEF InLimits
  <2> QED BY <2>1, <2>2
<1>9. InLimits(K, L) /\ (CanSpawn(q) => InLimits(K, L \cup {g}))
  BY <1>4, <1>5, <1>6, <1>7, <1>8 DEF InLimits
<1> QED BY <1>9 DEF H, L

\* Smaller sets fit where larger ones do.
LEMMA FewerFit ==
    ASSUME NEW J, NEW M, InLimits(J, M), J \subseteq Groups, M \subseteq Groups,
           NEW H, NEW L, H \subseteq J, L \subseteq M
    PROVE  InLimits(H, L)
<1>1. /\ GlobalLimit \in Nat /\ \A t \in Tenants : TenantLimit[t] \in Nat
      /\ \A c \in Coworkers : CoworkerLimit[c] \in Nat
  BY QueueAssumptions
<1>2. Cardinality(H) <= GlobalLimit /\ Cardinality(L) <= GlobalLimit
  <2>1. /\ Cardinality(H) \in Nat /\ Cardinality(J) \in Nat
        /\ Cardinality(H) <= Cardinality(J)
    BY FewerGroups
  <2>2. /\ Cardinality(L) \in Nat /\ Cardinality(M) \in Nat
        /\ Cardinality(L) <= Cardinality(M)
    BY FewerGroups
  <2> QED BY <1>1, <2>1, <2>2 DEF InLimits
<1>3. ASSUME NEW t \in Tenants
      PROVE  Cardinality(OfTenant(H, t)) <= TenantLimit[t]
  <2>1. OfTenant(H, t) \subseteq OfTenant(J, t) /\ OfTenant(J, t) \subseteq Groups
    BY DEF OfTenant
  <2>2. /\ Cardinality(OfTenant(H, t)) \in Nat /\ Cardinality(OfTenant(J, t)) \in Nat
        /\ Cardinality(OfTenant(H, t)) <= Cardinality(OfTenant(J, t))
    BY <2>1, FewerGroups
  <2>3. Cardinality(OfTenant(J, t)) <= TenantLimit[t]
    BY DEF InLimits
  <2> QED BY <1>1, <2>2, <2>3
<1>4. ASSUME NEW c \in Coworkers
      PROVE  Cardinality(OfCoworker(H, c)) <= CoworkerLimit[c]
  <2>1. OfCoworker(H, c) \subseteq OfCoworker(J, c) /\ OfCoworker(J, c) \subseteq Groups
    BY DEF OfCoworker
  <2>2. /\ Cardinality(OfCoworker(H, c)) \in Nat
        /\ Cardinality(OfCoworker(J, c)) \in Nat
        /\ Cardinality(OfCoworker(H, c)) <= Cardinality(OfCoworker(J, c))
    BY <2>1, FewerGroups
  <2>3. Cardinality(OfCoworker(J, c)) <= CoworkerLimit[c]
    BY DEF InLimits
  <2> QED BY <1>1, <2>2, <2>3
<1> QED BY <1>2, <1>3, <1>4 DEF InLimits

-----------------------------------------------------------------------------
(* What the operators change.                                              *)

\* The same attributes leave the same jobs free.
LEMMA SameFreeJob ==
    ASSUME NEW q, NEW p, NEW h, p.runner[h] = q.runner[h], Desk(p) = Desk(q)
    PROVE  FreeJobs(p, h) = FreeJobs(q, h) /\ FreeJob(p, h) = FreeJob(q, h)
<1>1. p.job = q.job /\ p.sweep = q.sweep
  BY DEF Desk
<1>2. FreeJobs(p, h) = FreeJobs(q, h)
  BY <1>1 DEF FreeJobs
<1> QED BY <1>2 DEF FreeJob

LEMMA ReserveSlotsEffect ==
    ASSUME NEW q, Good(q), NEW S \in SUBSET Groups
    PROVE  LET p == ReserveSlots(q, S) IN
           /\ Good(p) /\ Live(p) = Live(q) \cup S /\ Holding(p) = Holding(q) \cup S
           /\ Busy(p) = Busy(q) \cup S
           /\ Desk(p) = Desk(q) /\ p.runner = q.runner
<1> DEFINE r == AcquireContainers(q, S)
           busy == [g \in Groups |-> q.processing[g] \/ g \in S]
           m == [r EXCEPT !.processing = busy]
           p == AcquireTurns(m, S)
<1>1. Good(r)
  BY AcquireContainersGood
<1>2. busy \in [Groups -> BOOLEAN]
  OBVIOUS
<1>3. ReserveSlots(q, S) = p
  BY DEF ReserveSlots
<1>4. Desk(r) = Desk(q) /\ r.runner = q.runner
  BY DEF AcquireContainers, Desk, Good, QueueType
<1>5. \A g \in Groups : busy[g] <=> q.processing[g] \/ g \in S
  OBVIOUS
<1> HIDE DEF r, busy
<1>6. m \in QueueType /\ Desk(m) = Desk(r) /\ m.runner = r.runner /\ m.processing = busy
  BY <1>1, <1>2 DEF Good, QueueType, Desk
<1> HIDE DEF m
<1>7. Desk(p) = Desk(m) /\ p.runner = m.runner /\ p.processing = m.processing
  BY <1>6 DEF AcquireTurns, Desk, QueueType
<1> HIDE DEF p
<1>8. Busy(p) = Busy(q) \cup S
  BY <1>5, <1>6, <1>7 DEF Busy
<1> QED BY <1>3, <1>4, <1>6, <1>7, <1>8, ReserveSlotsGood

LEMMA StartPendingEffect ==
    ASSUME NEW q, Good(q), NEW S \in SUBSET Groups
    PROVE  LET p == StartPending(q, S) IN
           /\ Good(p) /\ Live(p) = Live(q) \cup S /\ Holding(p) = Holding(q) \cup S
           /\ Busy(p) = Busy(q) \cup S
           /\ Desk(p) = Desk(q)
           /\ \A h \in Groups \ S : p.runner[h] = q.runner[h]
           /\ \A h \in S : Started(q, p, h)
<1> DEFINE r == ReserveSlots(q, S)
           next(g) == IF q.pending_tasks[g] # <<>> THEN Head(q.pending_tasks[g])
                                                   ELSE NoTask
           tasks == [g \in Groups |->
              IF g \in S /\ q.pending_tasks[g] # <<>>
              THEN Tail(q.pending_tasks[g]) ELSE q.pending_tasks[g]]
           runners == [g \in Groups |->
              IF g \in S
              THEN [q.runner[g] EXCEPT ![FreeJob(q, g)] = NewRunner(next(g))]
              ELSE q.runner[g]]
           p == StartPending(q, S)
<1>1. Good(r) /\ Busy(r) = Busy(q) \cup S /\ Desk(r) = Desk(q)
  BY ReserveSlotsEffect
<1>2. p = [r EXCEPT !.pending_tasks = tasks, !.runner = runners]
  BY DEF StartPending
<1>3. /\ Good(p) /\ Live(p) = Live(q) \cup S /\ Holding(p) = Holding(q) \cup S
  BY StartPendingLine
<1>4. \A g \in Groups : next(g) \in Tasks \cup {NoTask}
  BY DEF Good, QueueType
<1>5. /\ \A h \in Groups \ S : runners[h] = q.runner[h]
      /\ \A h \in S :
           runners[h] = [q.runner[h] EXCEPT ![FreeJob(q, h)] = NewRunner(next(h))]
  OBVIOUS
<1> HIDE DEF r, tasks, runners, next, p
<1>6. p.processing = r.processing /\ Desk(p) = Desk(r) /\ p.runner = runners
  BY <1>1, <1>2 DEF Good, QueueType, Desk
<1>7. Busy(p) = Busy(q) \cup S
  BY <1>1, <1>6 DEF Busy
<1>8. \A h \in S : Started(q, p, h)
  BY <1>4, <1>5, <1>6 DEF Started
<1>9. \A h \in Groups \ S : p.runner[h] = q.runner[h]
  BY <1>5, <1>6
<1> QED BY <1>1, <1>3, <1>6, <1>7, <1>8, <1>9 DEF p

\* A pass over the waiting list starts groups within the limits.
LEMMA DrainWaitingGrants ==
    ASSUME NEW q, Good(q), NEW p \in DrainWaiting(q)
    PROVE  Grants(q, p)
<1>1. PICK A \in SUBSET Waiting(q) :
         /\ Admits(q, A)
         /\ \E w \in InOrder(q, Remaining(q, A)) :
               p = [StartPending(q, A) EXCEPT !.waiting = w]
  BY DEF DrainWaiting
<1>2. PICK w \in InOrder(q, Remaining(q, A)) :
         p = [StartPending(q, A) EXCEPT !.waiting = w]
  BY <1>1
<1> DEFINE r == StartPending(q, A)
<1>3. A \in SUBSET Groups
  BY DEF Waiting
<1>4. /\ Good(r) /\ Live(r) = Live(q) \cup A /\ Holding(r) = Holding(q) \cup A
      /\ Busy(r) = Busy(q) \cup A /\ Desk(r) = Desk(q)
      /\ \A h \in Groups \ A : r.runner[h] = q.runner[h]
      /\ \A h \in A : Started(q, r, h)
  BY <1>3, StartPendingEffect
<1>5. p = [r EXCEPT !.waiting = w]
  BY <1>2
<1> HIDE DEF r
<1>6. /\ p.active = r.active /\ p.slot_held = r.slot_held
      /\ p.processing = r.processing /\ Desk(p) = Desk(r) /\ p.runner = r.runner
  BY <1>4, <1>5 DEF Good, QueueType, Desk
<1>7. Live(p) = Live(r) /\ Holding(p) = Holding(r) /\ Busy(p) = Busy(r)
  BY <1>6 DEF Live, Holding, Busy
<1>8. \A g \in A : ~q.active[g] /\ RoomAtTurn(q, A, g)
  BY <1>1 DEF Admits
<1>9. Fits(q) => Fits(p)
  BY <1>4, <1>7, <1>8, PassFits DEF Fits
<1>10. A \cap Live(q) = {}
  BY <1>8 DEF Live
<1>11. \A h \in A : Started(q, p, h)
  BY <1>4, <1>6 DEF Started
<1> QED BY <1>3, <1>4, <1>6, <1>7, <1>9, <1>10, <1>11 DEF Grants, Gives

\* What follows from a queue follows from one that differs in nothing that
\* matters here.
LEMMA GrantsFrom ==
    ASSUME NEW q, NEW m, NEW p, Books(m) = Books(q), Busy(m) = Busy(q),
           Desk(m) = Desk(q), m.runner = q.runner, Grants(m, p)
    PROVE  Grants(q, p)
<1>1. Live(m) = Live(q) /\ Holding(m) = Holding(q)
  BY DEF Books, Live, Holding
<1>2. \A h : FreeJob(m, h) = FreeJob(q, h)
  BY SameFreeJob
<1>3. \A h : Started(m, p, h) <=> Started(q, p, h)
  BY <1>2 DEF Started
<1> QED BY <1>1, <1>3 DEF Grants, Gives, Fits

\* A group whose container ended starts its next work, or lets others.
LEMMA DrainGroupGrants ==
    ASSUME NEW q, Good(q), NEW g \in Groups, ~q.active[g], NEW p \in DrainGroup(q, g)
    PROVE  Grants(q, p)
<1>1. CASE p = q
  <2>1. Gives(q, p, {})
    BY <1>1 DEF Gives
  <2> QED BY <2>1 DEF Grants
<1>2. CASE CanColdStart(q, g) /\ p = StartPending(q, {g})
  <2>1. /\ Good(p) /\ Live(p) = Live(q) \cup {g} /\ Holding(p) = Holding(q) \cup {g}
        /\ Busy(p) = Busy(q) \cup {g} /\ Desk(p) = Desk(q)
        /\ \A h \in Groups \ {g} : p.runner[h] = q.runner[h]
        /\ \A h \in {g} : Started(q, p, h)
    BY <1>2, StartPendingEffect
  <2>2. Fits(q) => Fits(p)
    BY <1>2, <2>1, OneFits DEF Fits, CanColdStart
  <2>3. {g} \cap Live(q) = {}
    BY DEF Live
  <2>4. Gives(q, p, {g})
    BY <2>1, <2>2, <2>3 DEF Gives
  <2> QED BY <2>4 DEF Grants
<1>3. CASE p \in DrainWaiting(q)
  BY <1>3, DrainWaitingGrants
<1>4. CASE p \in DrainWaiting(AppendWaiting(q, g))
  <2> DEFINE m == AppendWaiting(q, g)
  <2>1. Good(m) /\ Books(m) = Books(q)
    BY AppendWaitingLists
  <2>2. Busy(m) = Busy(q) /\ Desk(m) = Desk(q) /\ m.runner = q.runner
    BY DEF AppendWaiting, Good, QueueType, Busy, Desk
  <2> HIDE DEF m
  <2>3. Grants(m, p)
    BY <1>4, <2>1, DrainWaitingGrants DEF m
  <2> QED BY <2>1, <2>2, <2>3, GrantsFrom
<1> QED BY <1>1, <1>2, <1>3, <1>4 DEF DrainGroup

\* A cold start.
LEMMA ColdStartGrants ==
    ASSUME NEW q, Good(q), NEW g \in Groups, ~q.active[g], CanColdStart(q, g),
           NEW t \in Tasks \cup {NoTask}
    PROVE  Grants(q, Spawn(ReserveSlots(q, {g}), g, t))
<1> DEFINE r == ReserveSlots(q, {g})
           p == Spawn(r, g, t)
<1>1. /\ Good(r) /\ Live(r) = Live(q) \cup {g} /\ Holding(r) = Holding(q) \cup {g}
      /\ Busy(r) = Busy(q) \cup {g} /\ Desk(r) = Desk(q) /\ r.runner = q.runner
  BY ReserveSlotsEffect
<1> HIDE DEF r
<1>2. /\ p.active = r.active /\ p.slot_held = r.slot_held
      /\ p.processing = r.processing /\ Desk(p) = Desk(r)
      /\ p.runner = [r.runner EXCEPT ![g][FreeJob(r, g)] = NewRunner(t)]
  BY <1>1 DEF Spawn, Good, QueueType, Desk
<1>3. Live(p) = Live(r) /\ Holding(p) = Holding(r) /\ Busy(p) = Busy(r)
  BY <1>2 DEF Live, Holding, Busy
<1>4. FreeJob(r, g) = FreeJob(q, g)
  BY <1>1, SameFreeJob
<1>5. q.runner \in [Groups -> [Jobs -> RunnerType]]
  BY DEF Good, QueueType
<1> HIDE DEF p
<1>6. /\ \A h \in Groups \ {g} : p.runner[h] = q.runner[h]
      /\ p.runner[g] = [q.runner[g] EXCEPT ![FreeJob(q, g)] = NewRunner(t)]
  BY <1>1, <1>2, <1>4, <1>5
<1>7. Started(q, p, g)
  BY <1>6 DEF Started
<1>8. Fits(q) => Fits(p)
  BY <1>1, <1>3, OneFits DEF Fits, CanColdStart
<1>9. {g} \cap Live(q) = {}
  BY DEF Live
<1>10. Gives(q, p, {g})
  BY <1>1, <1>2, <1>3, <1>6, <1>7, <1>8, <1>9 DEF Gives
<1>11. Grants(q, p)
  BY <1>10 DEF Grants
<1> QED BY <1>11 DEF p, r

\* A shutdown request touches the stop flag of one container, and reaches it if
\* it is up.
LEMMA RequestShutdownStops ==
    ASSUME NEW q \in QueueType, NEW g \in Groups
    PROVE  /\ SameButStop(q, RequestShutdown(q, g))
           /\ \A j \in Jobs :
                q.active[g] /\ q.job[g] = j /\ q.runner[g][j].phase = "up"
                    => RequestShutdown(q, g).runner[g][j].stop
<1>1. CASE q.active[g] /\ q.job[g] # NoJob
  <2> DEFINE j == q.job[g]
             r == q.runner[g][j]
             stop == r.phase \in {"up", "orphan"}
             s == [r EXCEPT !.stop = stop]
             p == RequestShutdown(q, g)
  <2>1. j \in Jobs
    BY <1>1 DEF QueueType
  <2>2. r \in RunnerType
    BY <2>1 DEF QueueType
  <2>3. p = [q EXCEPT !.runner[g][j].stop = stop]
    BY <1>1 DEF RequestShutdown
  <2> HIDE DEF j, p
  <2>4. /\ Books(p) = Books(q) /\ p.processing = q.processing /\ Desk(p) = Desk(q)
        /\ p.runner = [q.runner EXCEPT ![g][j] = s]
    BY <2>3 DEF QueueType, Books, Desk
  <2>5. /\ s.phase = r.phase /\ s.task = r.task /\ s.busy = r.busy
        /\ s.input = r.input /\ s.finals = r.finals /\ s.stop = stop
    BY <2>2 DEF RunnerType
  <2>6. q.runner \in [Groups -> [Jobs -> RunnerType]]
    BY DEF QueueType
  <2>7. /\ p.runner[g][j] = s
        /\ \A h \in Groups, k \in Jobs : (h = g /\ k = j) \/ p.runner[h][k] = q.runner[h][k]
    BY <2>1, <2>4, <2>6
  <2>8. r.phase = "up" => s.stop
    BY <2>5
  <2> HIDE DEF s
  <2>9. SameButStop(q, p)
    BY <2>4, <2>5, <2>7, <2>8 DEF SameButStop, Busy
  <2>10. \A k \in Jobs : q.job[g] = k /\ q.runner[g][k].phase = "up"
                           => p.runner[g][k].stop
    BY <2>7, <2>8 DEF j
  <2> QED BY <2>9, <2>10 DEF p
<1>2. CASE ~(q.active[g] /\ q.job[g] # NoJob)
  <2>1. RequestShutdown(q, g) = q
    BY <1>2 DEF RequestShutdown
  <2>2. \A j \in Jobs : j # NoJob
    BY QueueAssumptions
  <2> QED BY <1>2, <2>1, <2>2 DEF SameButStop
<1> QED BY <1>1, <1>2

\* Two such changes make one.
LEMMA StopsCompose ==
    ASSUME NEW q, NEW m, NEW p, SameButStop(q, m), SameButStop(m, p)
    PROVE  SameButStop(q, p)
BY DEF SameButStop

\* Queueing work up leaves the group as it is and may evict another.
LEMMA QueueUpStops ==
    ASSUME NEW q, Good(q), NEW g \in Groups
    PROVE  SameButStop(q, EvictIfLiveBound(AppendWaiting(q, g), g))
<1> DEFINE m == AppendWaiting(q, g)
           first == CHOOSE i \in Evictable(m) : \A k \in Evictable(m) : i <= k
<1>1. Good(m) /\ Books(m) = Books(q)
  BY AppendWaitingLists
<1>2. m.processing = q.processing /\ Desk(m) = Desk(q) /\ m.runner = q.runner
  BY DEF AppendWaiting, Good, QueueType, Desk
<1> HIDE DEF m
<1>3. SameButStop(q, m)
  BY <1>1, <1>2 DEF SameButStop, Busy
<1>4. SameButStop(m, m)
  BY DEF SameButStop
<1>5. CASE Evictable(m) = {}
  BY <1>3, <1>5 DEF EvictIfLiveBound, EvictLruWarm, m
<1>6. CASE Evictable(m) # {}
  <2>1. m.warm \in Seq(Groups) /\ Evictable(m) \subseteq DOMAIN m.warm
    BY <1>1 DEF Evictable, Good, QueueType
  <2>2. Evictable(m) \subseteq Nat
    BY <2>1
  <2>3. first \in Evictable(m)
    BY <1>6, <2>2, Least
  <2>4. EvictLruWarm(m) = RequestShutdown(m, m.warm[first])
    BY <1>6 DEF EvictLruWarm
  <2> HIDE DEF first
  <2>5. m.warm[first] \in Groups
    BY <2>1, <2>3
  <2>6. SameButStop(m, EvictLruWarm(m))
    BY <1>1, <2>4, <2>5, RequestShutdownStops DEF Good
  <2>7. SameButStop(m, EvictIfLiveBound(m, g))
    BY <1>4, <2>6 DEF EvictIfLiveBound
  <2> QED BY <1>3, <2>7, StopsCompose DEF m
<1> QED BY <1>5, <1>6

\* A change to the queued work only.
LEMMA WorkOnly ==
    ASSUME NEW q \in QueueType, NEW p,
           \/ \E x : p = [q EXCEPT !.pending_messages = x]
           \/ \E x : p = [q EXCEPT !.pending_tasks = x]
           \/ \E x : p = [q EXCEPT !.retry_timers = x]
           \/ \E x : p = [q EXCEPT !.shutting_down = x]
    PROVE  /\ SameButStop(q, p) /\ p.runner = q.runner
           /\ Books(p) = Books(q) /\ Busy(p) = Busy(q) /\ Desk(p) = Desk(q)
<1>1. Books(p) = Books(q) /\ p.processing = q.processing /\ Desk(p) = Desk(q)
      /\ p.runner = q.runner
  BY DEF QueueType, Books, Desk
<1> QED BY <1>1 DEF SameButStop, Busy

\* enqueue_message_check starts one group cold, or changes nothing that matters
\* here.
LEMMA EnqueueMessageCheckGives ==
    ASSUME NEW q, Good(q), NEW g \in Groups
    PROVE  \/ SameButStop(q, EnqueueMessageCheck(q, g))
           \/ Grants(q, EnqueueMessageCheck(q, g))
<1> DEFINE list == [q.pending_messages EXCEPT ![g] = TRUE]
           m == [q EXCEPT !.pending_messages = list]
           p == EnqueueMessageCheck(q, g)
<1>1. m \in QueueType /\ Books(m) = Books(q) /\ SameButStop(q, m)
  <2>1. m \in QueueType
    BY DEF Good, QueueType
  <2>2. q \in QueueType
    BY DEF Good
  <2> HIDE DEF list
  <2> QED BY <2>1, <2>2, WorkOnly
<1>2. Good(m)
  BY <1>1, SameBooks
<1>3. SameButStop(q, q)
  BY DEF SameButStop
<1>4. \/ p = q \/ p = m \/ p = EvictIfLiveBound(AppendWaiting(m, g), g)
      \/ ~q.active[g] /\ CanColdStart(q, g) /\ p = Spawn(ReserveSlots(q, {g}), g, NoTask)
  BY DEF EnqueueMessageCheck
<1> HIDE DEF m, p
<1>5. SameButStop(q, EvictIfLiveBound(AppendWaiting(m, g), g))
  BY <1>1, <1>2, QueueUpStops, StopsCompose
<1>6. ~q.active[g] /\ CanColdStart(q, g)
        => Grants(q, Spawn(ReserveSlots(q, {g}), g, NoTask))
  BY ColdStartGrants
<1> QED BY <1>1, <1>3, <1>4, <1>5, <1>6 DEF p

\* The same for enqueue_task.
LEMMA EnqueueTaskGives ==
    ASSUME NEW q, Good(q), NEW g \in Groups, NEW t \in Tasks
    PROVE  \/ SameButStop(q, EnqueueTask(q, g, t))
           \/ Grants(q, EnqueueTask(q, g, t))
<1> DEFINE list == [q.pending_tasks EXCEPT ![g] = Append(@, t)]
           m == [q EXCEPT !.pending_tasks = list]
           p == EnqueueTask(q, g, t)
<1>1. list \in [Groups -> Seq(Tasks)]
  BY DEF Good, QueueType
<1>2. \/ p = q \/ p = m \/ p = RequestShutdown(m, g)
      \/ p = EvictIfLiveBound(AppendWaiting(m, g), g)
      \/ ~q.active[g] /\ CanColdStart(q, g) /\ p = Spawn(ReserveSlots(q, {g}), g, t)
  BY DEF EnqueueTask
<1> HIDE DEF list
<1>3. m \in QueueType /\ Books(m) = Books(q) /\ SameButStop(q, m)
  <2>1. m \in QueueType
    BY <1>1 DEF Good, QueueType
  <2> QED BY <2>1, WorkOnly DEF Good
<1>4. Good(m)
  BY <1>3, SameBooks
<1>5. SameButStop(q, q)
  BY DEF SameButStop
<1> HIDE DEF m, p
<1>6. SameButStop(q, EvictIfLiveBound(AppendWaiting(m, g), g))
  BY <1>3, <1>4, QueueUpStops, StopsCompose
<1>7. SameButStop(q, RequestShutdown(m, g))
  BY <1>3, RequestShutdownStops, StopsCompose
<1>8. ~q.active[g] /\ CanColdStart(q, g)
        => Grants(q, Spawn(ReserveSlots(q, {g}), g, t))
  BY ColdStartGrants
<1> QED BY <1>2, <1>3, <1>5, <1>6, <1>7, <1>8 DEF p

-----------------------------------------------------------------------------
(* The warm pool.                                                          *)

InPool(q, h) == \E i \in DOMAIN q.warm : q.warm[i] = h

\* Nobody is in the pool twice.
NoDouble(q) == \A i, k \in DOMAIN q.warm : q.warm[i] = q.warm[k] => i = k

\* The attributes beside the pool and the books.
Seat(q) == <<q.job, q.idle_handle, q.adopted, q.awaiting_approval,
             q.is_task_container, q.sweep, q.processing, q.runner>>

\* What is left when one position is removed.
LEMMA RemoveAtIs ==
    ASSUME NEW w \in Seq(Groups), NEW i \in DOMAIN w
    PROVE  LET v == RemoveAt(w, i) IN
           /\ v \in Seq(Groups) /\ Len(v) = Len(w) - 1
           /\ \A k \in 1..(Len(w) - 1) : v[k] = IF k < i THEN w[k] ELSE w[k + 1]
<1> DEFINE a == SubSeq(w, 1, i - 1)
           b == SubSeq(w, i + 1, Len(w))
           v == a \o b
<1>1. Len(w) \in Nat /\ DOMAIN w = 1..Len(w) /\ i \in 1..Len(w)
  OBVIOUS
<1>2. /\ a \in Seq(Groups) /\ Len(a) = i - 1 /\ \A k \in 1..(i - 1) : a[k] = w[k]
  BY <1>1
<1>3. /\ b \in Seq(Groups) /\ Len(b) = Len(w) - i
      /\ \A k \in 1..(Len(w) - i) : b[k] = w[i + k]
  BY <1>1
<1> HIDE DEF a, b
<1>4. v \in Seq(Groups) /\ Len(v) = Len(w) - 1
  <2>0. a \in Seq(Groups) /\ b \in Seq(Groups)
    BY <1>2, <1>3
  <2>1. v \in Seq(Groups)
    BY <2>0
  <2>2. Len(v) = Len(a) + Len(b)
    BY <2>0
  <2>3. Len(v) = (i - 1) + (Len(w) - i)
    BY <1>2, <1>3, <2>2
  <2> QED BY <1>1, <2>1, <2>3
<1>5. ASSUME NEW k \in 1..(Len(w) - 1)
      PROVE  v[k] = IF k < i THEN w[k] ELSE w[k + 1]
  <2>1. CASE k < i
    BY <1>1, <1>2, <1>3, <2>1
  <2>2. CASE ~(k < i)
    <3>1. v[k] = b[k - (i - 1)]
      BY <1>1, <1>2, <1>3, <2>2
    <3>2. k - (i - 1) \in 1..(Len(w) - i) /\ i + (k - (i - 1)) = k + 1
      BY <1>1, <2>2
    <3> QED BY <1>3, <2>2, <3>1, <3>2
  <2> QED BY <2>1, <2>2
<1>6. RemoveAt(w, i) = v
  BY DEF RemoveAt, a, b
<1> HIDE DEF v
<1> QED BY <1>4, <1>5, <1>6

LEMMA WarmPopEffect ==
    ASSUME NEW q \in QueueType, NEW g \in Groups, NoDouble(q)
    PROVE  LET p == WarmPop(q, g) IN
           /\ p \in QueueType /\ Books(p) = Books(q) /\ Seat(p) = Seat(q)
           /\ NoDouble(p)
           /\ \A h \in Groups : InPool(p, h) <=> InPool(q, h) /\ h # g
<1> DEFINE p == WarmPop(q, g)
           i == CHOOSE k \in DOMAIN q.warm : q.warm[k] = g
           rest == RemoveAt(q.warm, i)
<1>1. p \in QueueType /\ Books(p) = Books(q)
  BY WarmPopQuiet
<1>2. CASE ~InPool(q, g)
  <2>1. p = q
    BY <1>2 DEF WarmPop, InPool
  <2> HIDE DEF p
  <2> QED BY <1>1, <1>2, <2>1 DEF p
<1>3. CASE InPool(q, g)
  <2>1. i \in DOMAIN q.warm /\ q.warm[i] = g
    BY <1>3 DEF InPool
  <2>2. p = [q EXCEPT !.warm = rest]
    BY <1>3 DEF WarmPop, InPool
  <2> HIDE DEF i
  <2>3. /\ rest \in Seq(Groups) /\ Len(rest) = Len(q.warm) - 1
        /\ \A k \in 1..(Len(q.warm) - 1) :
             rest[k] = IF k < i THEN q.warm[k] ELSE q.warm[k + 1]
    BY <2>1, RemoveAtIs DEF QueueType
  <2> HIDE DEF rest, p
  <2>4. p.warm = rest /\ Seat(p) = Seat(q)
    BY <2>2 DEF QueueType, Seat
  <2>5. /\ DOMAIN q.warm = 1..Len(q.warm) /\ Len(q.warm) \in Nat
        /\ DOMAIN rest = 1..(Len(q.warm) - 1)
    BY <2>3 DEF QueueType
  <2>6. \A k \in DOMAIN rest :
          \E m \in DOMAIN q.warm : m # i /\ rest[k] = q.warm[m]
                                   /\ m = IF k < i THEN k ELSE k + 1
    BY <2>1, <2>3, <2>5
  <2>7. NoDouble(p)
    <3> SUFFICES ASSUME NEW k \in DOMAIN rest, NEW l \in DOMAIN rest, rest[k] = rest[l]
                 PROVE  k = l
      BY <2>4 DEF NoDouble
    <3>1. PICK m \in DOMAIN q.warm : rest[k] = q.warm[m]
                                     /\ m = IF k < i THEN k ELSE k + 1
      BY <2>6
    <3>2. PICK n \in DOMAIN q.warm : rest[l] = q.warm[n]
                                     /\ n = IF l < i THEN l ELSE l + 1
      BY <2>6
    <3>3. m = n
      BY <3>1, <3>2 DEF NoDouble
    <3>4. k \in Nat /\ l \in Nat /\ i \in Nat
      BY <2>1, <2>5
    <3> QED BY <3>1, <3>2, <3>3, <3>4
  <2>8. \A h \in Groups : InPool(p, h) => InPool(q, h) /\ h # g
    BY <2>1, <2>4, <2>6 DEF InPool, NoDouble
  <2>9. ASSUME NEW h \in Groups, InPool(q, h), h # g
        PROVE  InPool(p, h)
    <3>1. PICK m \in DOMAIN q.warm : q.warm[m] = h
      BY <2>9 DEF InPool
    <3>2. m # i
      BY <2>1, <2>9, <3>1
    <3>3. CASE m < i
      <4>1. m \in DOMAIN rest /\ rest[m] = h
        BY <2>1, <2>3, <2>5, <3>1, <3>3
      <4> QED BY <2>4, <4>1 DEF InPool
    <3>4. CASE m > i
      <4>1. m - 1 \in DOMAIN rest /\ rest[m - 1] = h
        BY <2>1, <2>3, <2>5, <3>1, <3>4
      <4> QED BY <2>4, <4>1 DEF InPool
    <3> QED BY <2>1, <2>5, <3>2, <3>3, <3>4
  <2> QED BY <1>1, <2>4, <2>7, <2>8, <2>9 DEF p
<1> QED BY <1>2, <1>3

LEMMA WarmPushEffect ==
    ASSUME NEW q \in QueueType, NEW g \in Groups, NoDouble(q)
    PROVE  LET p == WarmPush(q, g) IN
           /\ p \in QueueType /\ Books(p) = Books(q) /\ Seat(p) = Seat(q)
           /\ NoDouble(p)
           /\ \A h \in Groups : InPool(p, h) <=> InPool(q, h) \/ h = g
<1> DEFINE m == WarmPop(q, g)
           list == Append(m.warm, g)
           p == WarmPush(q, g)
<1>1. /\ m \in QueueType /\ Books(m) = Books(q) /\ Seat(m) = Seat(q) /\ NoDouble(m)
      /\ \A h \in Groups : InPool(m, h) <=> InPool(q, h) /\ h # g
  BY WarmPopEffect
<1>2. p = [m EXCEPT !.warm = list]
  BY DEF WarmPush
<1>3. p \in QueueType /\ Books(p) = Books(q)
  BY WarmPushQuiet
<1> HIDE DEF m, p
<1>4. /\ DOMAIN m.warm = 1..Len(m.warm) /\ Len(m.warm) \in Nat
      /\ DOMAIN list = 1..(Len(m.warm) + 1)
      /\ list[Len(m.warm) + 1] = g
      /\ \A k \in DOMAIN m.warm : list[k] = m.warm[k]
  <2>1. m.warm \in Seq(Groups)
    BY <1>1 DEF QueueType
  <2> QED BY <2>1
<1> HIDE DEF list
<1>5. p.warm = list /\ Seat(p) = Seat(m)
  BY <1>1, <1>2 DEF QueueType, Seat
<1>6. \A k \in DOMAIN list : k = Len(m.warm) + 1 \/ k \in DOMAIN m.warm
  BY <1>4
<1>7. \A k \in DOMAIN m.warm : m.warm[k] # g /\ k # Len(m.warm) + 1
  BY <1>1, <1>4 DEF InPool
<1>8. NoDouble(p)
  BY <1>1, <1>4, <1>5, <1>6, <1>7 DEF NoDouble
<1>9. \A h \in Groups : InPool(p, h) <=> InPool(m, h) \/ h = g
  <2>1. DOMAIN m.warm \subseteq DOMAIN list /\ Len(m.warm) + 1 \in DOMAIN list
    BY <1>4
  <2> QED BY <1>4, <1>5, <1>6, <2>1 DEF InPool
<1> QED BY <1>1, <1>3, <1>5, <1>8, <1>9 DEF p


-----------------------------------------------------------------------------
(* What a group looks like, and what is right with it.                     *)

\* The attributes of h are the same in p as in q.
Alike(q, p, h) ==
    /\ h \in Live(p) <=> h \in Live(q)
    /\ h \in Holding(p) <=> h \in Holding(q)
    /\ h \in Busy(p) <=> h \in Busy(q)
    /\ InPool(p, h) <=> InPool(q, h)
    /\ p.job[h] = q.job[h]
    /\ p.idle_handle[h] = q.idle_handle[h]
    /\ p.adopted[h] = q.adopted[h]
    /\ p.awaiting_approval[h] = q.awaiting_approval[h]
    /\ p.is_task_container[h] = q.is_task_container[h]
    /\ p.runner[h] = q.runner[h]

\* p is q but for g, and for what no group looks at.
Around(q, p, g) ==
    /\ p.sweep = q.sweep
    /\ NoDouble(p)
    /\ \A h \in Groups \ {g} : Alike(q, p, h)

\* A runner of h is its only one, and its phase says whether the turn is in
\* flight, which job is registered and whether the idle timer can be armed.
RunnerSound(q, h, j) ==
    \/ q.runner[h][j].phase = "none"
    \/ /\ h \in Live(q)
       /\ \A k \in Jobs \ {j} : q.runner[h][k].phase = "none"
       /\ \/ /\ q.runner[h][j].phase = "spawned"
             /\ h \in Busy(q) /\ q.job[h] = NoJob
          \/ /\ q.runner[h][j].phase = "starting"
             /\ h \in Busy(q) /\ q.job[h] = NoJob /\ q.idle_handle[h] = "off"
          \/ /\ q.runner[h][j].phase \in {"up", "dead"}
             /\ q.job[h] = j

\* Slot, pool, job, timer and runners of h agree.
Sound(q, h) ==
    /\ h \in Holding(q) <=> h \in Busy(q)
    /\ InPool(q, h) <=> /\ h \in Live(q) /\ h \notin Busy(q)
                        /\ q.is_task_container[h] = FALSE
    /\ q.adopted[h] = FALSE /\ q.idle_handle[h] # "reap_adopted"
    /\ h \in Live(q) \/ q.job[h] = NoJob
    /\ q.idle_handle[h] # "off" /\ q.job[h] # NoJob
         => h \notin Busy(q) /\ q.awaiting_approval[h] = {}
    /\ \A j \in Jobs : RunnerSound(q, h, j)

\* Without lost coroutines a live group has one.
Manned(q, h) ==
    MaxLost = 0 /\ Jobs # {} /\ h \in Live(q)
        => \E j \in Jobs : q.runner[h][j].phase # "none"

\* A container without a task works, will, or is on its way out.
OnTheMove(r, handle) ==
    r.phase = "up" /\ r.task = NoTask
        => r.busy \/ r.input \/ r.finals > 0 \/ handle # "off" \/ r.stop

Reapable(q, h) ==
    Requests = {} => \A j \in Jobs : OnTheMove(q.runner[h][j], q.idle_handle[h])

Fine(q, h) == Sound(q, h) /\ Manned(q, h) /\ Reapable(q, h)

NoSweep == [phase |-> "idle", live |-> {}, todo |-> {}]

Regular(q) ==
    /\ NoDouble(q) /\ Fits(q) /\ q.sweep = NoSweep
    /\ \A h \in Groups : Fine(q, h)

\* The turns and containers of p are those of T and L and of groups started
\* cold.
StartedFrom(T, L, p) ==
    \E S \in SUBSET Groups :
        S \cap L = {} /\ Holding(p) = T \cup S /\ Live(p) = L \cup S

\* What TurnAdmission allows a step to do.
Admitted(q, p) ==
    \/ Holding(p) = Holding(q) /\ Live(p) = Live(q)
    \/ \E g \in Groups :
         \/ /\ g \in Live(q) \ Holding(q)
            /\ Holding(p) = Holding(q) \cup {g} /\ Live(p) = Live(q)
         \/ StartedFrom(Holding(q) \ {g}, Live(q), p)
         \/ g \in Live(q) /\ StartedFrom(Holding(q) \ {g}, Live(q) \ {g}, p)

\* What is right with a group depends on its own attributes.
LEMMA AlikeFine ==
    ASSUME NEW q, NEW p, NEW h, Alike(q, p, h), Fine(q, h)
    PROVE  Fine(p, h)
<1>1. \A j \in Jobs : RunnerSound(p, h, j)
  BY DEF Alike, Fine, Sound, RunnerSound
<1>2. Sound(p, h)
  BY <1>1 DEF Alike, Fine, Sound
<1>3. Manned(p, h)
  BY DEF Alike, Fine, Manned
<1>4. Reapable(p, h)
  BY DEF Alike, Fine, Reapable
<1> QED BY <1>2, <1>3, <1>4 DEF Fine

\* A step around g is right if it is right with g and keeps the limits.
LEMMA AroundRegular ==
    ASSUME NEW q, Regular(q), NEW g \in Groups, NEW p, Around(q, p, g),
           Fine(p, g), Fits(p)
    PROVE  Regular(p)
<1>1. \A h \in Groups : Fine(p, h)
  BY AlikeFine DEF Regular, Around
<1> QED BY <1>1 DEF Regular, Around

\* Equal attributes make groups alike.
LEMMA SameAlike ==
    ASSUME NEW q, NEW p, Books(p) = Books(q), Busy(p) = Busy(q), Desk(p) = Desk(q),
           NEW h, p.runner[h] = q.runner[h]
    PROVE  Alike(q, p, h)
<1>1. Live(p) = Live(q) /\ Holding(p) = Holding(q)
  BY DEF Books, Live, Holding
<1>2. /\ p.job = q.job /\ p.idle_handle = q.idle_handle /\ p.adopted = q.adopted
      /\ p.awaiting_approval = q.awaiting_approval
      /\ p.is_task_container = q.is_task_container /\ p.warm = q.warm
  BY DEF Desk
<1> QED BY <1>1, <1>2 DEF Alike, InPool

\* Cold starts within the limits: a group without a container has no runner
\* and no job, and its new coroutine is its only one.
LEMMA GrantsKeep ==
    ASSUME NEW q, Good(q), Regular(q), NEW p, Grants(q, p)
    PROVE  Regular(p) /\ Admitted(q, p)
<1>1. PICK A \in SUBSET Groups : Gives(q, p, A)
  BY DEF Grants
<1>2. /\ p.job = q.job /\ p.idle_handle = q.idle_handle /\ p.adopted = q.adopted
      /\ p.awaiting_approval = q.awaiting_approval
      /\ p.is_task_container = q.is_task_container /\ p.warm = q.warm
      /\ p.sweep = q.sweep
  BY <1>1 DEF Gives, Desk
<1>3. \A h \in Groups : InPool(p, h) <=> InPool(q, h)
  BY <1>2 DEF InPool
<1>4. ASSUME NEW h \in Groups \ A
      PROVE  Fine(p, h)
  <2>1. Alike(q, p, h)
    BY <1>1, <1>2, <1>3 DEF Gives, Alike
  <2> QED BY <2>1, AlikeFine DEF Regular
<1>5. ASSUME NEW h \in A
      PROVE  Fine(p, h)
  <2>1. /\ h \in Groups /\ h \notin Live(q)
        /\ h \in Live(p) /\ h \in Holding(p) /\ h \in Busy(p)
    BY <1>1 DEF Gives
  <2>2. Fine(q, h)
    BY <2>1 DEF Regular
  <2>3. q.job[h] = NoJob /\ ~InPool(q, h) /\ q.adopted[h] = FALSE
        /\ q.idle_handle[h] # "reap_adopted"
    BY <2>1, <2>2 DEF Fine, Sound
  <2>4. \A j \in Jobs : q.runner[h][j].phase = "none"
    BY <2>1, <2>2 DEF Fine, Sound, RunnerSound
  <2>5. PICK t \in Tasks \cup {NoTask} :
           p.runner[h] = [q.runner[h] EXCEPT ![FreeJob(q, h)] = NewRunner(t)]
    BY <1>1 DEF Gives, Started
  <2> DEFINE f == FreeJob(q, h)
  <2>6. q.runner[h] \in [Jobs -> RunnerType]
    BY <2>1 DEF Good, QueueType
  <2>7. Jobs # {} => f \in Jobs
    <3>1. q.sweep.live = {}
      BY DEF Regular, NoSweep
    <3>2. FreeJobs(q, h) = Jobs
      BY <2>3, <2>4, <3>1, QueueAssumptions DEF FreeJobs
    <3> QED BY <3>2 DEF FreeJob
  <2> HIDE DEF f
  <2>8. \A j \in Jobs : p.runner[h][j] = IF j = f THEN NewRunner(t) ELSE q.runner[h][j]
    BY <2>5, <2>6 DEF f
  <2>9. NewRunner(t).phase = "spawned"
    BY DEF NewRunner, NoRunner
  <2>10. \A j \in Jobs : p.runner[h][j].phase = IF j = f THEN "spawned" ELSE "none"
    BY <2>4, <2>8, <2>9
  <2>11. \A j \in Jobs : RunnerSound(p, h, j)
    BY <1>2, <2>1, <2>3, <2>10 DEF RunnerSound
  <2>12. Sound(p, h)
    BY <1>2, <1>3, <2>1, <2>3, <2>11 DEF Sound
  <2>13. Manned(p, h)
    BY <2>7, <2>10 DEF Manned
  <2>14. Reapable(p, h)
    BY <2>10 DEF Reapable, OnTheMove
  <2> QED BY <2>12, <2>13, <2>14 DEF Fine
<1>6. NoDouble(p) /\ Fits(p) /\ p.sweep = NoSweep
  BY <1>1, <1>2 DEF Regular, NoDouble, Gives
<1>7. Regular(p)
  BY <1>4, <1>5, <1>6 DEF Regular
<1>8. CASE A = {}
  <2>1. Admitted(q, p)
    BY <1>1, <1>8 DEF Gives, Admitted
  <2> QED BY <1>7, <2>1
<1>9. CASE A # {}
  <2>1. PICK g \in A : TRUE
    BY <1>9
  <2>2. g \notin Holding(q)
    BY <1>1 DEF Gives, Good, Balanced
  <2>3. Holding(q) \ {g} = Holding(q)
    BY <2>2
  <2>4. StartedFrom(Holding(q) \ {g}, Live(q), p)
    BY <1>1, <2>3 DEF Gives, StartedFrom
  <2>5. Admitted(q, p)
    BY <2>4 DEF Admitted
  <2> QED BY <1>7, <2>5
<1> QED BY <1>8, <1>9

\* A group that gives up its turn, or its container too, makes room.
LEMMA AdmittedAfter ==
    ASSUME NEW q, NEW m, NEW p, NEW g \in Groups, Grants(m, p),
           Holding(m) = Holding(q) \ {g},
           \/ Live(m) = Live(q)
           \/ g \in Live(q) /\ Live(m) = Live(q) \ {g}
    PROVE  Admitted(q, p)
<1>1. PICK A \in SUBSET Groups : Gives(m, p, A)
  BY DEF Grants
<1>2. StartedFrom(Holding(m), Live(m), p)
  BY <1>1 DEF StartedFrom, Gives
<1> QED BY <1>2 DEF Admitted

-----------------------------------------------------------------------------
(* What the handlers change, seen from the group they are about.           *)

\* All attributes but the timer and the approvals.
Body(q) == <<q.job, q.adopted, q.is_task_container, q.warm, q.sweep,
             q.processing, q.runner>>

\* p is q for g too, but for its timer, its approvals and its runners.
SameCore(q, p, g) ==
    /\ Live(p) = Live(q) /\ Holding(p) = Holding(q) /\ Busy(p) = Busy(q)
    /\ InPool(p, g) <=> InPool(q, g)
    /\ p.job[g] = q.job[g] /\ p.adopted[g] = q.adopted[g]
    /\ p.is_task_container[g] = q.is_task_container[g]

LEMMA AroundTwice ==
    ASSUME NEW q, NEW m, NEW p, NEW g, Around(q, m, g), Around(m, p, g)
    PROVE  Around(q, p, g)
BY DEF Around, Alike

LEMMA AroundSelf ==
    ASSUME NEW q, NEW g, NoDouble(q)
    PROVE  Around(q, q, g) /\ SameCore(q, q, g)
BY DEF Around, Alike, SameCore

LEMMA BodyAround ==
    ASSUME NEW q, NoDouble(q), NEW p, Books(p) = Books(q), Body(p) = Body(q), NEW g,
           \A h \in Groups \ {g} : /\ p.idle_handle[h] = q.idle_handle[h]
                                   /\ p.awaiting_approval[h] = q.awaiting_approval[h]
    PROVE  Around(q, p, g) /\ SameCore(q, p, g) /\ p.runner = q.runner
<1>1. /\ p.job = q.job /\ p.adopted = q.adopted /\ p.warm = q.warm
      /\ p.is_task_container = q.is_task_container /\ p.sweep = q.sweep
      /\ p.processing = q.processing /\ p.runner = q.runner
  BY DEF Body
<1>2. Live(p) = Live(q) /\ Holding(p) = Holding(q) /\ Busy(p) = Busy(q)
  BY <1>1 DEF Books, Live, Holding, Busy
<1>3. NoDouble(p) /\ \A h : InPool(p, h) <=> InPool(q, h)
  BY <1>1 DEF NoDouble, InPool
<1> QED BY <1>1, <1>2, <1>3 DEF Around, Alike, SameCore

\* The timer: cancelled, or armed if the container rests.
LEMMA CancelIdleTimerEffect ==
    ASSUME NEW q \in QueueType, NoDouble(q), NEW g \in Groups
    PROVE  LET p == CancelIdleTimer(q, g) IN
           /\ p \in QueueType /\ Books(p) = Books(q) /\ p.runner = q.runner
           /\ Around(q, p, g) /\ SameCore(q, p, g)
           /\ p.awaiting_approval = q.awaiting_approval /\ p.idle_handle[g] = "off"
<1> DEFINE p == CancelIdleTimer(q, g)
<1>1. /\ p.idle_handle = [q.idle_handle EXCEPT ![g] = "off"]
      /\ p.awaiting_approval = q.awaiting_approval /\ Body(p) = Body(q)
  BY DEF CancelIdleTimer, QueueType, Body
<1>2. p \in QueueType /\ Books(p) = Books(q)
  BY CancelIdleTimerQuiet
<1>3. q.idle_handle \in [Groups -> {"off", "request_shutdown", "reap_adopted"}]
  BY DEF QueueType
<1> HIDE DEF p
<1>4. /\ p.idle_handle[g] = "off"
      /\ \A h \in Groups \ {g} : p.idle_handle[h] = q.idle_handle[h]
  BY <1>1, <1>3
<1>5. Around(q, p, g) /\ SameCore(q, p, g) /\ p.runner = q.runner
  BY <1>1, <1>2, <1>4, BodyAround
<1> QED BY <1>1, <1>2, <1>4, <1>5 DEF p

LEMMA ArmIdleTimerEffect ==
    ASSUME NEW q \in QueueType, NoDouble(q), NEW g \in Groups
    PROVE  LET p == ArmIdleTimer(q, g) IN
           /\ p \in QueueType /\ Books(p) = Books(q) /\ p.runner = q.runner
           /\ Around(q, p, g) /\ SameCore(q, p, g)
           /\ p.awaiting_approval = q.awaiting_approval
           /\ p.idle_handle[g] # "off" <=> /\ q.awaiting_approval[g] = {}
                                           /\ g \notin Busy(q)
           /\ q.adopted[g] = FALSE => p.idle_handle[g] # "reap_adopted"
<1> DEFINE p == ArmIdleTimer(q, g)
           to == IF q.awaiting_approval[g] # {} \/ q.processing[g] THEN "off"
                 ELSE IF q.adopted[g] THEN "reap_adopted"
                 ELSE "request_shutdown"
<1>1. /\ p.idle_handle = [q.idle_handle EXCEPT ![g] = to]
      /\ p.awaiting_approval = q.awaiting_approval /\ Body(p) = Body(q)
  BY DEF ArmIdleTimer, QueueType, Body
<1>2. p \in QueueType /\ Books(p) = Books(q)
  BY ArmIdleTimerQuiet
<1>3. q.idle_handle \in [Groups -> {"off", "request_shutdown", "reap_adopted"}]
  BY DEF QueueType
<1>4. to # "off" <=> q.awaiting_approval[g] = {} /\ g \notin Busy(q)
  BY DEF Busy
<1>5. q.adopted[g] = FALSE => to # "reap_adopted"
  OBVIOUS
<1> HIDE DEF p, to
<1>6. /\ p.idle_handle[g] = to
      /\ \A h \in Groups \ {g} : p.idle_handle[h] = q.idle_handle[h]
  BY <1>1, <1>3
<1>7. Around(q, p, g) /\ SameCore(q, p, g) /\ p.runner = q.runner
  BY <1>1, <1>2, <1>6, BodyAround
<1> QED BY <1>1, <1>2, <1>4, <1>5, <1>6, <1>7 DEF p

\* Approvals: the timer is off while one is pending.
LEMMA SuspendEffect ==
    ASSUME NEW q \in QueueType, NoDouble(q), NEW g \in Groups, NEW r \in Requests
    PROVE  LET p == SuspendForApproval(q, g, r) IN
           /\ p \in QueueType /\ Books(p) = Books(q) /\ p.runner = q.runner
           /\ Around(q, p, g) /\ SameCore(q, p, g) /\ p.idle_handle[g] = "off"
<1> DEFINE p == SuspendForApproval(q, g, r)
<1>1. /\ p.idle_handle = [q.idle_handle EXCEPT ![g] = "off"]
      /\ p.awaiting_approval = [q.awaiting_approval EXCEPT ![g] = @ \cup {r}]
      /\ Body(p) = Body(q)
  BY DEF SuspendForApproval, CancelIdleTimer, QueueType, Body
<1>2. p \in QueueType /\ Books(p) = Books(q)
  BY SuspendQuiet
<1>3. /\ q.idle_handle \in [Groups -> {"off", "request_shutdown", "reap_adopted"}]
      /\ q.awaiting_approval \in [Groups -> SUBSET Requests]
  BY DEF QueueType
<1> HIDE DEF p
<1>4. /\ p.idle_handle[g] = "off"
      /\ \A h \in Groups \ {g} : p.idle_handle[h] = q.idle_handle[h]
      /\ \A h \in Groups \ {g} : p.awaiting_approval[h] = q.awaiting_approval[h]
  BY <1>1, <1>3
<1>5. Around(q, p, g) /\ SameCore(q, p, g) /\ p.runner = q.runner
  BY <1>1, <1>2, <1>4, BodyAround
<1> QED BY <1>2, <1>4, <1>5 DEF p

LEMMA ResumeEffect ==
    ASSUME NEW q \in QueueType, NoDouble(q), NEW g \in Groups, NEW r \in Requests,
           q.adopted[g] = FALSE, r \in q.awaiting_approval[g]
    PROVE  LET p == ResumeFromApproval(q, g, r) IN
           /\ p \in QueueType /\ Books(p) = Books(q) /\ p.runner = q.runner
           /\ Around(q, p, g) /\ SameCore(q, p, g)
           /\ \/ p.idle_handle[g] = q.idle_handle[g]
              \/ p.idle_handle[g] # "reap_adopted"
           /\ \/ p.idle_handle[g] = q.idle_handle[g]
              \/ p.idle_handle[g] = "off"
              \/ g \notin Busy(q) /\ p.awaiting_approval[g] = {}
<1> DEFINE rest == [q.awaiting_approval EXCEPT ![g] = @ \ {r}]
           m == [q EXCEPT !.awaiting_approval = rest]
           p == ResumeFromApproval(q, g, r)
<1>1. q.awaiting_approval \in [Groups -> SUBSET Requests]
  BY DEF QueueType
<1>2. /\ rest \in [Groups -> SUBSET Requests]
      /\ \A h \in Groups \ {g} : rest[h] = q.awaiting_approval[h]
      /\ rest[g] = q.awaiting_approval[g] \ {r}
  BY <1>1
<1>3. p = m \/ p = ArmIdleTimer(m, g)
  BY DEF ResumeFromApproval
<1>4. p \in QueueType /\ Books(p) = Books(q)
  BY ResumeQuiet
<1> HIDE DEF rest, p
<1>5. /\ m \in QueueType /\ Books(m) = Books(q) /\ Body(m) = Body(q)
      /\ m.idle_handle = q.idle_handle /\ m.awaiting_approval = rest
  BY <1>2 DEF QueueType, Books, Body
<1> HIDE DEF m
<1>6. Around(q, m, g) /\ SameCore(q, m, g) /\ m.runner = q.runner
  BY <1>2, <1>5, BodyAround
<1>7. CASE p = m
  BY <1>1, <1>2, <1>4, <1>5, <1>6, <1>7 DEF p
<1>8. CASE p = ArmIdleTimer(m, g)
  <2>1. NoDouble(m) /\ m.adopted[g] = FALSE /\ Busy(m) = Busy(q)
    BY <1>6 DEF Around, SameCore
  <2>2. /\ p.runner = m.runner /\ Around(m, p, g) /\ SameCore(m, p, g)
        /\ p.awaiting_approval = m.awaiting_approval
        /\ p.idle_handle[g] # "off" <=> m.awaiting_approval[g] = {} /\ g \notin Busy(m)
        /\ p.idle_handle[g] # "reap_adopted"
    BY <1>5, <1>8, <2>1, ArmIdleTimerEffect
  <2>3. Around(q, p, g)
    BY <1>6, <2>2, AroundTwice
  <2>4. SameCore(q, p, g) /\ p.runner = q.runner
    BY <1>6, <2>2 DEF SameCore
  <2> QED BY <1>2, <1>4, <1>5, <2>1, <2>2, <2>3, <2>4 DEF p
<1> QED BY <1>3, <1>7, <1>8

\* The slots are all that the two releases change.
LEMMA ReleaseSeat ==
    ASSUME NEW q \in QueueType
    PROVE  /\ \A g : /\ Seat(ReleaseTurn(q, g)) = Seat(q)
                     /\ ReleaseTurn(q, g).warm = q.warm
           /\ \A g : /\ Seat(ReleaseContainer(q, g)) = Seat(q)
                     /\ ReleaseContainer(q, g).warm = q.warm
<1>1. \A g : /\ Seat(ReleaseTurn(q, g)) = Seat(q)
             /\ ReleaseTurn(q, g).warm = q.warm
  BY DEF ReleaseTurn, DecrementActive, Seat, QueueType
<1>2. \A g : /\ Seat(ReleaseContainer(q, g)) = Seat(q)
             /\ ReleaseContainer(q, g).warm = q.warm
  BY DEF ReleaseContainer, Seat, QueueType
<1> QED BY <1>1, <1>2

LEMMA SamePool ==
    ASSUME NEW q, NEW p, p.warm = q.warm
    PROVE  (NoDouble(p) <=> NoDouble(q)) /\ \A h : InPool(p, h) <=> InPool(q, h)
BY DEF NoDouble, InPool

\* A teardown: the group is left without turn, container, pool entry and job.
LEMMA ReleaseAllEffect ==
    ASSUME NEW q, Good(q), NoDouble(q), NEW g \in Groups
    PROVE  LET p == ReleaseAll(q, g) IN
           /\ Good(p) /\ Around(q, p, g)
           /\ Live(p) = Live(q) \ {g} /\ Holding(p) = Holding(q) \ {g}
           /\ Busy(p) = Busy(q) \ {g}
           /\ ~InPool(p, g) /\ p.job[g] = NoJob
           /\ p.idle_handle = q.idle_handle /\ p.adopted = q.adopted
           /\ p.runner = q.runner
<1> DEFINE free == ReleaseTurn(q, g)
           gone == ReleaseContainer(free, g)
           pop == WarmPop(gone, g)
           p == ReleaseAll(q, g)
<1>1. /\ Good(free) /\ Live(free) = Live(q) /\ Holding(free) = Holding(q) \ {g}
      /\ Seat(free) = Seat(q) /\ free.warm = q.warm
  BY ReleaseTurnGood, ReleaseSeat DEF Good
<1> HIDE DEF free
<1>2. /\ Good(gone) /\ Live(gone) = Live(q) \ {g}
      /\ Holding(gone) = Holding(q) \ {g} /\ Seat(gone) = Seat(q)
      /\ gone.warm = q.warm
  BY <1>1, ReleaseContainerGood, ReleaseSeat DEF Good
<1>3. p = [pop EXCEPT !.processing[g] = FALSE, !.container_name[g] = NoJob,
                      !.job[g] = NoJob]
  BY DEF ReleaseAll, free
<1> HIDE DEF gone
<1>4. NoDouble(gone) /\ \A h : InPool(gone, h) <=> InPool(q, h)
  BY <1>2, SamePool
<1>5. /\ pop \in QueueType /\ Books(pop) = Books(gone) /\ Seat(pop) = Seat(q)
      /\ NoDouble(pop)
      /\ \A h \in Groups : InPool(pop, h) <=> InPool(q, h) /\ h # g
  <2>1. gone \in QueueType
    BY <1>2 DEF Good
  <2> QED BY <1>2, <1>4, <2>1, WarmPopEffect
<1> HIDE DEF pop, p
<1>6. /\ p \in QueueType /\ Books(p) = Books(pop) /\ p.warm = pop.warm
      /\ p.processing = [pop.processing EXCEPT ![g] = FALSE]
      /\ p.job = [pop.job EXCEPT ![g] = NoJob]
      /\ p.idle_handle = pop.idle_handle /\ p.adopted = pop.adopted
      /\ p.awaiting_approval = pop.awaiting_approval
      /\ p.is_task_container = pop.is_task_container /\ p.sweep = pop.sweep
      /\ p.runner = pop.runner
  BY <1>3, <1>5 DEF QueueType, Books
<1>7. Good(p) /\ Live(p) = Live(q) \ {g} /\ Holding(p) = Holding(q) \ {g}
  BY <1>2, <1>5, <1>6, SameBooks
<1>8. /\ pop.job = q.job /\ pop.idle_handle = q.idle_handle
      /\ pop.adopted = q.adopted /\ pop.awaiting_approval = q.awaiting_approval
      /\ pop.is_task_container = q.is_task_container /\ pop.sweep = q.sweep
      /\ pop.processing = q.processing /\ pop.runner = q.runner
  BY <1>5 DEF Seat
<1>9. /\ p.job[g] = NoJob /\ \A h \in Groups \ {g} : p.job[h] = q.job[h]
      /\ \A h \in Groups : p.processing[h] <=> q.processing[h] /\ h # g
  <2>1. pop.job \in [Groups -> Jobs \cup {NoJob}] /\ pop.processing \in [Groups -> BOOLEAN]
    BY <1>5 DEF QueueType
  <2>2. p.job[g] = NoJob /\ \A h \in Groups \ {g} : p.job[h] = q.job[h]
    BY <1>6, <1>8, <2>1
  <2>3. \A h \in Groups : p.processing[h] <=> q.processing[h] /\ h # g
    BY <1>6, <1>8, <2>1
  <2> QED BY <2>2, <2>3
<1>10. Busy(p) = Busy(q) \ {g}
  BY <1>9 DEF Busy
<1>11. NoDouble(p) /\ \A h \in Groups : InPool(p, h) <=> InPool(q, h) /\ h # g
  BY <1>5, <1>6, SamePool
<1>12. Around(q, p, g)
  BY <1>6, <1>7, <1>8, <1>9, <1>10, <1>11 DEF Around, Alike
<1> QED BY <1>6, <1>7, <1>8, <1>9, <1>10, <1>11, <1>12 DEF p

\* The end of a turn: the slot is given back, a message container goes to the
\* pool, the timer is armed or the container is asked to stop; then others are
\* started.  While an approval is pending nothing happens.
LEMMA NotifyIdleEffect ==
    ASSUME NEW q, Good(q), NoDouble(q), NEW g \in Groups, NEW p \in NotifyIdle(q, g)
    PROVE  \/ p = q /\ q.awaiting_approval[g] # {}
           \/ \E n :
                /\ q.awaiting_approval[g] = {}
                /\ Good(n) /\ Around(q, n, g) /\ n.runner = q.runner
                /\ Live(n) = Live(q) /\ Holding(n) = Holding(q) \ {g}
                /\ Busy(n) = Busy(q) \ {g}
                /\ InPool(n, g) <=> \/ InPool(q, g)
                                    \/ g \in Live(q) /\ q.is_task_container[g] = FALSE
                /\ n.job[g] = q.job[g] /\ n.adopted[g] = q.adopted[g]
                /\ n.is_task_container[g] = q.is_task_container[g]
                /\ n.awaiting_approval[g] = {}
                /\ n.idle_handle[g] = q.idle_handle[g]
                /\ \/ Grants(RequestShutdown(n, g), p)
                   \/ Grants(ArmIdleTimer(n, g), p)
<1> DEFINE free == ReleaseTurn(q, g)
           rested == [free EXCEPT !.processing[g] = FALSE, !.idle_waiting[g] = TRUE]
           pooled == IF q.active[g] /\ ~q.is_task_container[g]
                     THEN WarmPush(rested, g) ELSE rested
           ended == IF q.pending_tasks[g] # <<>>
                    THEN RequestShutdown(pooled, g) ELSE ArmIdleTimer(pooled, g)
<1>1. /\ Good(free) /\ Live(free) = Live(q) /\ Holding(free) = Holding(q) \ {g}
      /\ Seat(free) = Seat(q) /\ free.warm = q.warm
  BY ReleaseTurnGood, ReleaseSeat DEF Good
<1>2. \/ p = q /\ q.awaiting_approval[g] # {}
      \/ p \in DrainWaiting(ended) /\ q.awaiting_approval[g] = {}
  BY DEF NotifyIdle
<1> HIDE DEF free
<1>3. /\ rested \in QueueType /\ Books(rested) = Books(free)
      /\ rested.warm = free.warm
      /\ rested.processing = [free.processing EXCEPT ![g] = FALSE]
      /\ rested.job = free.job /\ rested.idle_handle = free.idle_handle
      /\ rested.adopted = free.adopted
      /\ rested.awaiting_approval = free.awaiting_approval
      /\ rested.is_task_container = free.is_task_container
      /\ rested.sweep = free.sweep /\ rested.runner = free.runner
  BY <1>1 DEF Good, QueueType, Books
<1>4. Good(rested) /\ Live(rested) = Live(q) /\ Holding(rested) = Holding(q) \ {g}
  BY <1>1, <1>3, SameBooks
<1> HIDE DEF rested
<1>5. \A h \in Groups : rested.processing[h] <=> q.processing[h] /\ h # g
  <2>1. free.processing \in [Groups -> BOOLEAN] /\ free.processing = q.processing
    BY <1>1 DEF Good, QueueType, Seat
  <2> QED BY <1>3, <2>1
<1>6. NoDouble(rested) /\ \A h : InPool(rested, h) <=> InPool(q, h)
  BY <1>1, <1>3, SamePool
<1>7. /\ pooled \in QueueType /\ Books(pooled) = Books(rested)
      /\ Seat(pooled) = Seat(rested) /\ NoDouble(pooled)
      /\ \A h \in Groups \ {g} : InPool(pooled, h) <=> InPool(q, h)
      /\ InPool(pooled, g) <=> \/ InPool(q, g)
                               \/ q.active[g] /\ ~q.is_task_container[g]
  <2>1. rested \in QueueType
    BY <1>3
  <2>2. CASE q.active[g] /\ ~q.is_task_container[g]
    <3>1. pooled = WarmPush(rested, g)
      BY <2>2
    <3> HIDE DEF pooled
    <3> QED BY <1>6, <2>1, <2>2, <3>1, WarmPushEffect
  <2>3. CASE ~(q.active[g] /\ ~q.is_task_container[g])
    BY <1>6, <2>1, <2>3
  <2> QED BY <2>2, <2>3
<1>8. ended = RequestShutdown(pooled, g) \/ ended = ArmIdleTimer(pooled, g)
  OBVIOUS
<1> HIDE DEF pooled
<1>9. Good(pooled) /\ Live(pooled) = Live(q) /\ Holding(pooled) = Holding(q) \ {g}
  BY <1>4, <1>7, SameBooks
<1>10. /\ pooled.job = q.job /\ pooled.idle_handle = q.idle_handle
       /\ pooled.adopted = q.adopted
       /\ pooled.awaiting_approval = q.awaiting_approval
       /\ pooled.is_task_container = q.is_task_container
       /\ pooled.sweep = q.sweep /\ pooled.runner = q.runner
       /\ pooled.processing = rested.processing
  BY <1>1, <1>3, <1>7 DEF Seat
<1>11. Busy(pooled) = Busy(q) \ {g}
  BY <1>5, <1>10 DEF Busy
<1>12. Around(q, pooled, g)
  BY <1>7, <1>9, <1>10, <1>11 DEF Around, Alike
<1>13. Good(ended)
  BY <1>8, <1>9, RequestShutdownQuiet, ArmIdleTimerQuiet, SameBooks DEF Good
<1>14. q.active[g] /\ ~q.is_task_container[g]
         <=> g \in Live(q) /\ q.is_task_container[g] = FALSE
  <2>1. q.is_task_container[g] \in BOOLEAN
    BY DEF Good, QueueType
  <2> QED BY <2>1 DEF Live
<1> HIDE DEF ended
<1>15. CASE p \in DrainWaiting(ended) /\ q.awaiting_approval[g] = {}
  <2>1. Grants(ended, p)
    BY <1>13, <1>15, DrainWaitingGrants
  <2>2. Grants(RequestShutdown(pooled, g), p) \/ Grants(ArmIdleTimer(pooled, g), p)
    BY <1>8, <2>1
  <2>3. InPool(pooled, g) <=> \/ InPool(q, g)
                              \/ g \in Live(q) /\ q.is_task_container[g] = FALSE
    BY <1>7, <1>14
  <2> QED BY <1>9, <1>10, <1>11, <1>12, <1>15, <2>2, <2>3
<1> QED BY <1>2, <1>15

\* The same attributes, seen from g.
LEMMA SameAround ==
    ASSUME NEW q, NoDouble(q), NEW p, Books(p) = Books(q), Busy(p) = Busy(q),
           Desk(p) = Desk(q), p.runner = q.runner, NEW g \in Groups
    PROVE  /\ Around(q, p, g) /\ SameCore(q, p, g)
           /\ p.idle_handle = q.idle_handle /\ p.awaiting_approval = q.awaiting_approval
<1>1. \A h \in Groups : Alike(q, p, h)
  BY SameAlike
<1>2. /\ p.warm = q.warm /\ p.sweep = q.sweep /\ p.idle_handle = q.idle_handle
      /\ p.awaiting_approval = q.awaiting_approval
  BY DEF Desk
<1>3. NoDouble(p)
  BY <1>2, SamePool
<1>4. Live(p) = Live(q) /\ Holding(p) = Holding(q)
  BY DEF Books, Live, Holding
<1>5. SameCore(q, p, g)
  BY <1>1, <1>4 DEF SameCore, Alike
<1> QED BY <1>1, <1>2, <1>3, <1>5 DEF Around

\* A message piped to the container: a resting group takes a turn slot again
\* and leaves the pool.
LEMMA SendMessageEffect ==
    ASSUME NEW q, Good(q), NoDouble(q), NEW g \in Groups, Deliverable(q, g)
    PROVE  LET p == SendMessage(q, g) IN
           /\ Good(p) /\ Around(q, p, g)
           /\ Live(p) = Live(q) /\ Busy(p) = Busy(q) \cup {g}
           /\ g \in Busy(q) => /\ Holding(p) = Holding(q)
                               /\ InPool(p, g) <=> InPool(q, g)
                               /\ p.idle_handle[g] = q.idle_handle[g]
           /\ g \notin Busy(q) => /\ Holding(p) = Holding(q) \cup {g}
                                  /\ CanStartTurn(q, g)
                                  /\ ~InPool(p, g)
                                  /\ p.idle_handle[g] = "off"
           /\ p.job[g] = q.job[g] /\ p.adopted[g] = q.adopted[g]
           /\ p.is_task_container[g] = q.is_task_container[g]
           /\ p.awaiting_approval[g] = q.awaiting_approval[g]
           /\ \E input \in BOOLEAN :
                /\ p.runner[g] = [q.runner[g] EXCEPT
                                    ![q.job[g]] = [@ EXCEPT !.input = input]]
                /\ q.runner[g][q.job[g]].input => input
                /\ q.runner[g][q.job[g]].phase = "up" => input
<1> DEFINE off == CancelIdleTimer(q, g)
           warm == WarmPop(off, g)
           turn == AcquireTurns(warm, {g})
           again == [turn EXCEPT !.processing[g] = TRUE]
           resumed == IF q.processing[g] THEN q ELSE again
           j == q.job[g]
           awake == [resumed EXCEPT !.idle_waiting[g] = FALSE]
           r == q.runner[g][j]
           input == r.input \/ r.phase \in {"up", "orphan"}
           p == SendMessage(q, g)
<1>1. q \in QueueType /\ q.active[g] /\ j \in Jobs /\ g \in Live(q)
  BY DEF Good, Deliverable, QueueType, Live
<1>2. Good(p)
  BY SendMessageGood
<1>3. /\ off \in QueueType /\ Books(off) = Books(q) /\ off.runner = q.runner
      /\ Around(q, off, g) /\ SameCore(q, off, g)
      /\ off.awaiting_approval = q.awaiting_approval /\ off.idle_handle[g] = "off"
  BY <1>1, CancelIdleTimerEffect
<1> HIDE DEF off
<1>4. NoDouble(off)
  BY <1>3 DEF Around
<1>5. /\ warm \in QueueType /\ Books(warm) = Books(off) /\ Seat(warm) = Seat(off)
      /\ NoDouble(warm)
      /\ \A h \in Groups : InPool(warm, h) <=> InPool(off, h) /\ h # g
  BY <1>3, <1>4, WarmPopEffect
<1>6. Good(warm) /\ Live(warm) = Live(q) /\ Holding(warm) = Holding(q)
  BY <1>3, <1>5, SameBooks
<1> HIDE DEF warm
<1>7. {g} \in SUBSET Live(warm)
  BY <1>1, <1>6
<1>8. Good(turn) /\ Live(turn) = Live(q) /\ Holding(turn) = Holding(q) \cup {g}
  BY <1>6, <1>7, AcquireTurnsGood
<1>9. Seat(turn) = Seat(warm) /\ turn.warm = warm.warm
  BY <1>5 DEF AcquireTurns, Seat, QueueType
<1>10. p = [awake EXCEPT !.runner[g][j].input =
                @ \/ q.runner[g][q.job[g]].phase \in {"up", "orphan"}]
  BY DEF SendMessage, turn, warm, off
<1> HIDE DEF turn
<1>11. /\ again \in QueueType /\ Books(again) = Books(turn)
       /\ again.warm = turn.warm
       /\ again.processing = [turn.processing EXCEPT ![g] = TRUE]
       /\ again.job = turn.job /\ again.idle_handle = turn.idle_handle
       /\ again.adopted = turn.adopted
       /\ again.awaiting_approval = turn.awaiting_approval
       /\ again.is_task_container = turn.is_task_container
       /\ again.sweep = turn.sweep /\ again.runner = turn.runner
  BY <1>8 DEF Good, QueueType, Books
<1> HIDE DEF again
<1>12. /\ again.job = off.job /\ again.idle_handle = off.idle_handle
       /\ again.adopted = off.adopted
       /\ again.awaiting_approval = off.awaiting_approval
       /\ again.is_task_container = off.is_task_container
       /\ again.sweep = off.sweep /\ again.runner = off.runner
       /\ turn.processing = off.processing /\ turn.processing \in [Groups -> BOOLEAN]
  BY <1>5, <1>8, <1>9, <1>11 DEF Seat, Good, QueueType
<1>13. Live(again) = Live(q) /\ Holding(again) = Holding(q) \cup {g}
  BY <1>8, <1>11 DEF Books, Live, Holding
<1>14. Busy(again) = Busy(off) \cup {g}
  BY <1>11, <1>12 DEF Busy
<1>15. NoDouble(again) /\ \A h : InPool(again, h) <=> InPool(warm, h)
  BY <1>5, <1>9, <1>11, SamePool
<1>16. Around(off, again, g)
  <2>1. Live(off) = Live(q) /\ Holding(off) = Holding(q)
    BY <1>3 DEF SameCore
  <2> QED BY <1>5, <1>12, <1>13, <1>14, <1>15, <2>1 DEF Around, Alike
<1>17. Around(q, again, g)
  BY <1>3, <1>16, AroundTwice
<1>18. resumed \in QueueType /\ resumed.runner = q.runner
  BY <1>1, <1>3, <1>11, <1>12
<1>19. /\ Around(q, resumed, g) /\ Live(resumed) = Live(q)
       /\ Busy(resumed) = Busy(q) \cup {g}
       /\ g \in Busy(q) => /\ Holding(resumed) = Holding(q)
                           /\ InPool(resumed, g) <=> InPool(q, g)
                           /\ resumed.idle_handle[g] = q.idle_handle[g]
       /\ g \notin Busy(q) => /\ Holding(resumed) = Holding(q) \cup {g}
                              /\ CanStartTurn(q, g)
                              /\ ~InPool(resumed, g)
                              /\ resumed.idle_handle[g] = "off"
       /\ resumed.job[g] = q.job[g] /\ resumed.adopted[g] = q.adopted[g]
       /\ resumed.is_task_container[g] = q.is_task_container[g]
       /\ resumed.awaiting_approval[g] = q.awaiting_approval[g]
  <2>1. CASE q.processing[g]
    <3>1. resumed = q /\ g \in Busy(q)
      BY <2>1 DEF Busy
    <3>2. Busy(q) = Busy(q) \cup {g}
      BY <3>1
    <3> HIDE DEF resumed
    <3> QED BY <3>1, <3>2, AroundSelf
  <2>2. CASE ~q.processing[g]
    <3>1. resumed = again /\ g \notin Busy(q) /\ CanStartTurn(q, g)
      BY <2>2 DEF Busy, Deliverable
    <3> HIDE DEF resumed
    <3>2. Busy(off) = Busy(q) /\ off.job[g] = q.job[g] /\ off.adopted[g] = q.adopted[g]
          /\ off.is_task_container[g] = q.is_task_container[g]
      BY <1>3 DEF SameCore
    <3>3. ~InPool(again, g)
      BY <1>5, <1>15
    <3> QED BY <1>3, <1>12, <1>13, <1>14, <1>17, <3>1, <3>2, <3>3
  <2> QED BY <2>1, <2>2
<1> HIDE DEF resumed, j
<1>20. /\ awake \in QueueType /\ Books(awake) = Books(resumed)
       /\ awake.processing = resumed.processing /\ Desk(awake) = Desk(resumed)
       /\ awake.runner = q.runner
  BY <1>18 DEF QueueType, Books, Desk
<1> HIDE DEF awake
<1>21. r \in RunnerType
  BY <1>1 DEF QueueType
<1>22. input \in BOOLEAN
  BY <1>21 DEF RunnerType
<1>23. p = [awake EXCEPT !.runner[g][j] = [r EXCEPT !.input = input]]
  BY <1>1, <1>10, <1>20 DEF QueueType, j
<1>24. (r.input => input) /\ (r.phase = "up" => input)
  OBVIOUS
<1> HIDE DEF input, p
<1>25. /\ Books(p) = Books(resumed) /\ p.processing = resumed.processing
       /\ Desk(p) = Desk(resumed)
       /\ p.runner = [q.runner EXCEPT ![g][j] = [r EXCEPT !.input = input]]
  BY <1>20, <1>23 DEF QueueType, Books, Desk
<1>26. q.runner \in [Groups -> [Jobs -> RunnerType]]
  BY <1>1 DEF QueueType
<1>27. /\ \A h \in Groups \ {g} : p.runner[h] = q.runner[h]
       /\ p.runner[g] = [q.runner[g] EXCEPT ![j] = [@ EXCEPT !.input = input]]
  BY <1>1, <1>25, <1>26
<1>28. /\ Live(p) = Live(resumed) /\ Holding(p) = Holding(resumed)
       /\ Busy(p) = Busy(resumed)
  BY <1>25 DEF Books, Live, Holding, Busy
<1>29. /\ p.job = resumed.job /\ p.idle_handle = resumed.idle_handle
       /\ p.adopted = resumed.adopted /\ p.sweep = resumed.sweep
       /\ p.awaiting_approval = resumed.awaiting_approval
       /\ p.is_task_container = resumed.is_task_container /\ p.warm = resumed.warm
  BY <1>25 DEF Desk
<1>30. (NoDouble(p) <=> NoDouble(resumed)) /\ \A h : InPool(p, h) <=> InPool(resumed, h)
  BY <1>29, SamePool
<1>31. \A h \in Groups \ {g} : Alike(q, resumed, h)
  BY <1>19 DEF Around
<1>32. \A h \in Groups \ {g} : Alike(q, p, h)
  BY <1>27, <1>28, <1>29, <1>30, <1>31 DEF Alike
<1>33. Around(q, p, g)
  BY <1>19, <1>29, <1>30, <1>32 DEF Around
<1>34. \E in \in BOOLEAN :
         /\ p.runner[g] = [q.runner[g] EXCEPT ![q.job[g]] = [@ EXCEPT !.input = in]]
         /\ q.runner[g][q.job[g]].input => in
         /\ q.runner[g][q.job[g]].phase = "up" => in
  BY <1>22, <1>24, <1>27 DEF j
<1> QED BY <1>2, <1>19, <1>28, <1>29, <1>30, <1>33, <1>34 DEF p

\* A coroutine that begins to run: the timer goes off, and the slots are the
\* group's (again).
LEMMA StartsEffect ==
    ASSUME NEW q, Good(q), NoDouble(q), NEW g \in Groups,
           NEW t \in Tasks \cup {NoTask}, NEW p,
           p = RunForGroupStarts(q, g) \/ p = RunTaskStarts(q, g, t)
    PROVE  /\ Good(p) /\ Around(q, p, g)
           /\ Live(p) = Live(q) \cup {g} /\ Holding(p) = Holding(q) \cup {g}
           /\ Busy(p) = Busy(q) \cup {g}
           /\ InPool(p, g) <=> InPool(q, g)
           /\ p.job[g] = q.job[g] /\ p.adopted[g] = q.adopted[g]
           /\ p.idle_handle[g] = "off" /\ p.runner = q.runner
<1> DEFINE off == CancelIdleTimer(q, g)
           m == [off EXCEPT !.idle_waiting[g] = FALSE, !.is_task_container[g] = FALSE,
                            !.pending_messages[g] = FALSE]
           n == [off EXCEPT !.idle_waiting[g] = FALSE, !.is_task_container[g] = TRUE,
                            !.running_task_id[g] = t]
<1>1. p = ReserveSlots(m, {g}) \/ p = ReserveSlots(n, {g})
  BY DEF RunForGroupStarts, RunTaskStarts
<1>2. /\ off \in QueueType /\ Books(off) = Books(q) /\ off.runner = q.runner
      /\ Around(q, off, g) /\ SameCore(q, off, g)
      /\ off.awaiting_approval = q.awaiting_approval /\ off.idle_handle[g] = "off"
  BY CancelIdleTimerEffect DEF Good
<1> HIDE DEF off
<1>3. PICK s \in {m, n} : p = ReserveSlots(s, {g})
  BY <1>1
<1>4. \E b \in BOOLEAN :
      /\ s \in QueueType /\ Books(s) = Books(off) /\ s.warm = off.warm
      /\ s.processing = off.processing /\ s.job = off.job
      /\ s.idle_handle = off.idle_handle /\ s.adopted = off.adopted
      /\ s.awaiting_approval = off.awaiting_approval /\ s.sweep = off.sweep
      /\ s.runner = off.runner
      /\ s.is_task_container = [off.is_task_container EXCEPT ![g] = b]
  <2>1. CASE s = m
    <3>1. /\ m \in QueueType /\ Books(m) = Books(off) /\ m.warm = off.warm
          /\ m.processing = off.processing /\ m.job = off.job
          /\ m.idle_handle = off.idle_handle /\ m.adopted = off.adopted
          /\ m.awaiting_approval = off.awaiting_approval /\ m.sweep = off.sweep
          /\ m.runner = off.runner
          /\ m.is_task_container = [off.is_task_container EXCEPT ![g] = FALSE]
      BY <1>2 DEF QueueType, Books
    <3> HIDE DEF m
    <3> QED BY <2>1, <3>1
  <2>2. CASE s = n
    <3>1. /\ n \in QueueType /\ Books(n) = Books(off) /\ n.warm = off.warm
          /\ n.processing = off.processing /\ n.job = off.job
          /\ n.idle_handle = off.idle_handle /\ n.adopted = off.adopted
          /\ n.awaiting_approval = off.awaiting_approval /\ n.sweep = off.sweep
          /\ n.runner = off.runner
          /\ n.is_task_container = [off.is_task_container EXCEPT ![g] = TRUE]
      BY <1>2 DEF QueueType, Books
    <3> HIDE DEF n
    <3> QED BY <2>2, <3>1
  <2> HIDE DEF m, n
  <2> QED BY <2>1, <2>2
<1> HIDE DEF m, n
<1>5. \A h \in Groups \ {g} : s.is_task_container[h] = off.is_task_container[h]
  <2>1. off.is_task_container \in [Groups -> BOOLEAN]
    BY <1>2 DEF QueueType
  <2> QED BY <1>4, <2>1
<1>6. Good(s) /\ Live(s) = Live(q) /\ Holding(s) = Holding(q)
  BY <1>2, <1>4, SameBooks
<1>7. Busy(s) = Busy(q)
  BY <1>2, <1>4 DEF Busy, SameCore
<1>8. NoDouble(off)
  BY <1>2 DEF Around
<1>9. NoDouble(s) /\ \A h : InPool(s, h) <=> InPool(off, h)
  BY <1>4, <1>8, SamePool
<1>10. Live(off) = Live(q) /\ Holding(off) = Holding(q) /\ Busy(off) = Busy(q)
  BY <1>2 DEF SameCore
<1>11. Around(off, s, g)
  BY <1>4, <1>5, <1>6, <1>7, <1>9, <1>10 DEF Around, Alike
<1>12. /\ Good(p) /\ Live(p) = Live(s) \cup {g} /\ Holding(p) = Holding(s) \cup {g}
       /\ Busy(p) = Busy(s) \cup {g} /\ Desk(p) = Desk(s) /\ p.runner = s.runner
  BY <1>3, <1>6, ReserveSlotsEffect
<1>13. /\ p.job = s.job /\ p.idle_handle = s.idle_handle /\ p.adopted = s.adopted
       /\ p.awaiting_approval = s.awaiting_approval /\ p.sweep = s.sweep
       /\ p.is_task_container = s.is_task_container /\ p.warm = s.warm
  BY <1>12 DEF Desk
<1>14. NoDouble(p) /\ \A h : InPool(p, h) <=> InPool(s, h)
  BY <1>9, <1>13, SamePool
<1>15. Around(s, p, g)
  BY <1>12, <1>13, <1>14 DEF Around, Alike
<1>16. Around(q, p, g)
  BY <1>2, <1>11, <1>15, AroundTwice
<1>17. InPool(p, g) <=> InPool(q, g)
  BY <1>2, <1>9, <1>14 DEF SameCore
<1>18. p.job[g] = q.job[g] /\ p.adopted[g] = q.adopted[g]
  BY <1>2, <1>4, <1>13 DEF SameCore
<1>19. p.idle_handle[g] = "off" /\ p.runner = q.runner
  BY <1>2, <1>4, <1>12, <1>13
<1> QED BY <1>6, <1>7, <1>12, <1>16, <1>17, <1>18, <1>19

\* m is q after g has left it.
Left(q, m, g) ==
    /\ Good(m) /\ Around(q, m, g)
    /\ Live(m) = Live(q) \ {g} /\ Holding(m) = Holding(q) \ {g}
    /\ Busy(m) = Busy(q) \ {g}
    /\ ~InPool(m, g) /\ m.job[g] = NoJob
    /\ m.idle_handle[g] = q.idle_handle[g] \/ m.idle_handle[g] = "off"
    /\ m.adopted[g] = q.adopted[g] \/ m.adopted[g] = FALSE
    /\ m.runner = q.runner

\* Attributes of a group that has left may change.
LEMMA StillLeft ==
    ASSUME NEW q, NEW m, NEW g \in Groups, Left(q, m, g), NEW p \in QueueType,
           Books(p) = Books(m), p.processing = m.processing, p.warm = m.warm,
           p.job = m.job, p.awaiting_approval = m.awaiting_approval,
           p.sweep = m.sweep, p.runner = m.runner,
           p.idle_handle = m.idle_handle
             \/ p.idle_handle = [m.idle_handle EXCEPT ![g] = "off"],
           p.adopted = m.adopted \/ p.adopted = [m.adopted EXCEPT ![g] = FALSE],
           p.is_task_container = m.is_task_container
             \/ p.is_task_container = [m.is_task_container EXCEPT ![g] = FALSE]
    PROVE  Left(q, p, g)
<1>1. /\ m.idle_handle \in [Groups -> {"off", "request_shutdown", "reap_adopted"}]
      /\ m.adopted \in [Groups -> BOOLEAN]
      /\ m.is_task_container \in [Groups -> BOOLEAN]
  BY DEF Left, Good, QueueType
<1>2. Good(p) /\ Live(p) = Live(m) /\ Holding(p) = Holding(m)
  BY SameBooks DEF Left
<1>3. Busy(p) = Busy(m)
  BY DEF Busy
<1>4. NoDouble(p) /\ \A h : InPool(p, h) <=> InPool(m, h)
  BY SamePool DEF Left, Around
<1>5. \A h \in Groups \ {g} : p.idle_handle[h] = m.idle_handle[h]
  BY <1>1
<1>6. \A h \in Groups \ {g} : p.adopted[h] = m.adopted[h]
  BY <1>1
<1>7. \A h \in Groups \ {g} : p.is_task_container[h] = m.is_task_container[h]
  BY <1>1
<1>8. p.idle_handle[g] = m.idle_handle[g] \/ p.idle_handle[g] = "off"
  BY <1>1
<1>9. p.adopted[g] = m.adopted[g] \/ p.adopted[g] = FALSE
  BY <1>1
<1>10. Around(m, p, g)
  BY <1>2, <1>3, <1>4, <1>5, <1>6, <1>7 DEF Around, Alike
<1>11. Around(q, p, g)
  BY <1>10, AroundTwice DEF Left
<1> QED BY <1>2, <1>3, <1>4, <1>8, <1>9, <1>11 DEF Left

LEMMA ReleaseAllLeft ==
    ASSUME NEW q, Good(q), NoDouble(q), NEW g \in Groups
    PROVE  Left(q, ReleaseAll(q, g), g)
BY ReleaseAllEffect DEF Left

\* A group that has left is drained.
LEMMA LeftGrants ==
    ASSUME NEW q, NEW m, NEW g \in Groups, Left(q, m, g), NEW p \in DrainGroup(m, g)
    PROVE  Grants(m, p)
<1>1. Good(m) /\ g \notin Live(m)
  BY DEF Left
<1>2. ~m.active[g]
  BY <1>1 DEF Live
<1> QED BY <1>1, <1>2, DrainGroupGrants

\* Another count of the retries.
LEMMA RetryOnly ==
    ASSUME NEW q \in QueueType, NEW g \in Groups, NEW p,
           p = [q EXCEPT !.retry_count[g] = 0] \/ p = ScheduleRetry(q, g)
    PROVE  /\ p \in QueueType /\ Books(p) = Books(q) /\ Busy(p) = Busy(q)
           /\ Desk(p) = Desk(q) /\ p.runner = q.runner
<1>1. [q EXCEPT !.retry_count[g] = 0] \in QueueType
  BY DEF QueueType
<1>2. p \in QueueType
  BY <1>1, ScheduleRetryQuiet
<1>3. PICK a, b : p = [q EXCEPT !.retry_count = a]
                  \/ p = [q EXCEPT !.retry_count = a, !.retry_timers = b]
  BY DEF ScheduleRetry
<1>4. Books(p) = Books(q) /\ p.processing = q.processing /\ Desk(p) = Desk(q)
      /\ p.runner = q.runner
  BY <1>3 DEF QueueType, Books, Desk
<1> QED BY <1>2, <1>4 DEF Busy

\* The end of a coroutine: the group leaves, and its slot is passed on.
LEMMA EndsEffect ==
    ASSUME NEW q, Good(q), NoDouble(q), NEW g \in Groups, NEW success \in BOOLEAN,
           NEW p, p \in RunForGroupEnds(q, g, success) \/ p \in RunTaskEnds(q, g)
    PROVE  \E m : Left(q, m, g) /\ Grants(m, p)
<1>1. CASE p \in RunForGroupEnds(q, g, success)
  <2> DEFINE s == IF success THEN [q EXCEPT !.retry_count[g] = 0]
                             ELSE ScheduleRetry(q, g)
             m == ReleaseAll(s, g)
  <2>1. p \in DrainGroup(m, g)
    BY <1>1 DEF RunForGroupEnds
  <2>2. /\ s \in QueueType /\ Books(s) = Books(q) /\ Busy(s) = Busy(q)
        /\ Desk(s) = Desk(q) /\ s.runner = q.runner
    <3>1. s = [q EXCEPT !.retry_count[g] = 0] \/ s = ScheduleRetry(q, g)
      OBVIOUS
    <3> HIDE DEF s
    <3> QED BY <3>1, RetryOnly DEF Good
  <2> HIDE DEF s
  <2>3. Good(s)
    BY <2>2, SameBooks
  <2>4. Around(q, s, g) /\ SameCore(q, s, g) /\ s.idle_handle = q.idle_handle
    BY <2>2, SameAround
  <2>5. NoDouble(s)
    BY <2>4 DEF Around
  <2>6. Left(s, m, g)
    BY <2>3, <2>5, ReleaseAllLeft
  <2> HIDE DEF m
  <2>7. Around(q, m, g)
    BY <2>4, <2>6, AroundTwice DEF Left
  <2>8. Left(q, m, g)
    BY <2>2, <2>4, <2>6, <2>7 DEF Left, SameCore
  <2>9. Grants(m, p)
    BY <2>1, <2>8, LeftGrants
  <2> QED BY <2>8, <2>9
<1>2. CASE p \in RunTaskEnds(q, g)
  <2> DEFINE r == ReleaseAll(q, g)
             s == [r EXCEPT !.is_task_container[g] = FALSE,
                            !.running_task_id[g] = NoTask]
  <2>1. p \in DrainGroup(s, g)
    BY <1>2 DEF RunTaskEnds
  <2>2. Left(q, r, g)
    BY ReleaseAllLeft
  <2> HIDE DEF r
  <2>0. r \in QueueType
    BY <2>2 DEF Left, Good
  <2>3. /\ s \in QueueType /\ Books(s) = Books(r) /\ s.processing = r.processing
        /\ s.warm = r.warm /\ s.job = r.job /\ s.sweep = r.sweep
        /\ s.awaiting_approval = r.awaiting_approval /\ s.runner = r.runner
        /\ s.idle_handle = r.idle_handle /\ s.adopted = r.adopted
        /\ s.is_task_container = [r.is_task_container EXCEPT ![g] = FALSE]
    BY <2>0 DEF QueueType, Books
  <2> HIDE DEF s
  <2>4. Left(q, s, g)
    BY <2>2, <2>3, StillLeft
  <2>5. Grants(s, p)
    BY <2>1, <2>4, LeftGrants
  <2> QED BY <2>4, <2>5
<1> QED BY <1>1, <1>2

\* The reaper, and the timer of an adopted container, make the group leave too.
LEMMA ReapEffect ==
    ASSUME NEW q, Good(q), NoDouble(q), NEW g \in Groups, NEW p,
           p \in ReapGhost(q, g) \/ p \in ReapAdopted(q, g)
    PROVE  \E s, m : /\ Holding(s) = Holding(q) /\ Busy(s) = Busy(q)
                     /\ Left(s, m, g) /\ Grants(m, p)
<1>1. CASE p \in ReapGhost(q, g)
  <2> DEFINE all == ReleaseAll(q, g)
             r == CancelIdleTimer(all, g)
             s == [r EXCEPT !.is_task_container[g] = FALSE,
                            !.running_task_id[g] = NoTask, !.missing_sweeps[g] = 0]
  <2>1. p \in DrainGroup(s, g)
    BY <1>1 DEF ReapGhost
  <2>2. Left(q, all, g)
    BY ReleaseAllLeft
  <2>0. all \in QueueType
    BY <2>2 DEF Left, Good
  <2> HIDE DEF all
  <2>3. r \in QueueType /\ Books(r) = Books(all)
        /\ r.idle_handle = [all.idle_handle EXCEPT ![g] = "off"]
        /\ r.awaiting_approval = all.awaiting_approval /\ Body(r) = Body(all)
    BY <2>0 DEF CancelIdleTimer, QueueType, Books, Body
  <2>4. Left(q, r, g)
    <3>1. /\ r.job = all.job /\ r.adopted = all.adopted /\ r.warm = all.warm
          /\ r.is_task_container = all.is_task_container /\ r.sweep = all.sweep
          /\ r.processing = all.processing /\ r.runner = all.runner
      BY <2>3 DEF Body
    <3> HIDE DEF r
    <3> QED BY <2>2, <2>3, <3>1, StillLeft
  <2> HIDE DEF r
  <2>5. /\ s \in QueueType /\ Books(s) = Books(r) /\ s.processing = r.processing
        /\ s.warm = r.warm /\ s.job = r.job /\ s.sweep = r.sweep
        /\ s.awaiting_approval = r.awaiting_approval /\ s.runner = r.runner
        /\ s.idle_handle = r.idle_handle /\ s.adopted = r.adopted
        /\ s.is_task_container = [r.is_task_container EXCEPT ![g] = FALSE]
    BY <2>3 DEF QueueType, Books
  <2> HIDE DEF s
  <2>6. Left(q, s, g)
    BY <2>4, <2>5, StillLeft
  <2>7. Grants(s, p)
    BY <2>1, <2>6, LeftGrants
  <2> QED BY <2>6, <2>7
<1>2. CASE p \in ReapAdopted(q, g)
  <2> DEFINE asked == RequestShutdown(q, g)
             r == ReleaseAll(asked, g)
             s == [r EXCEPT !.adopted[g] = FALSE, !.idle_handle[g] = "off"]
  <2>1. p \in DrainGroup(s, g)
    BY <1>2 DEF ReapAdopted
  <2>2. asked \in QueueType /\ Books(asked) = Books(q) /\ SameButStop(q, asked)
    BY RequestShutdownQuiet, RequestShutdownStops DEF Good
  <2> HIDE DEF asked
  <2>3. Good(asked) /\ Holding(asked) = Holding(q)
    BY <2>2, SameBooks
  <2>4. Busy(asked) = Busy(q) /\ asked.warm = q.warm
    BY <2>2 DEF SameButStop, Desk
  <2>5. NoDouble(asked)
    BY <2>4, SamePool
  <2>6. Left(asked, r, g)
    BY <2>3, <2>5, ReleaseAllLeft
  <2>0. r \in QueueType
    BY <2>6 DEF Left, Good
  <2> HIDE DEF r
  <2>7. /\ s \in QueueType /\ Books(s) = Books(r) /\ s.processing = r.processing
        /\ s.warm = r.warm /\ s.job = r.job /\ s.sweep = r.sweep
        /\ s.awaiting_approval = r.awaiting_approval /\ s.runner = r.runner
        /\ s.idle_handle = [r.idle_handle EXCEPT ![g] = "off"]
        /\ s.adopted = [r.adopted EXCEPT ![g] = FALSE]
        /\ s.is_task_container = r.is_task_container
    BY <2>0 DEF QueueType, Books
  <2> HIDE DEF s
  <2>8. Left(asked, s, g)
    BY <2>6, <2>7, StillLeft
  <2>9. Grants(s, p)
    BY <2>1, <2>8, LeftGrants
  <2> QED BY <2>3, <2>4, <2>8, <2>9
<1> QED BY <1>1, <1>2

-----------------------------------------------------------------------------
(* First pass: slots and turns in lockstep, with the reaper and with lost  *)
(* coroutines, unless a container was adopted.                             *)

Lockstep(q) == NoDouble(q) /\ Holding(q) = Busy(q)

LEMMA GrantsInStep ==
    ASSUME NEW q, NEW p, Lockstep(q), Grants(q, p)
    PROVE  Lockstep(p)
<1>1. PICK A \in SUBSET Groups : Gives(q, p, A)
  BY DEF Grants
<1>2. p.warm = q.warm /\ Holding(p) = Holding(q) \cup A /\ Busy(p) = Busy(q) \cup A
  BY <1>1 DEF Gives, Desk
<1> QED BY <1>2, SamePool DEF Lockstep

LEMMA StopsInStep ==
    ASSUME NEW q, NEW p, Lockstep(q), SameButStop(q, p)
    PROVE  Lockstep(p)
<1>1. p.warm = q.warm /\ Holding(p) = Holding(q) /\ Busy(p) = Busy(q)
  BY DEF SameButStop, Desk, Books, Holding
<1> QED BY <1>1, SamePool DEF Lockstep

LEMMA LeftInStep ==
    ASSUME NEW q, NEW m, NEW g, Holding(q) = Busy(q), Left(q, m, g)
    PROVE  Lockstep(m)
BY DEF Left, Around, Lockstep

\* A change of the attributes that lockstep is not about.
LEMMA RestInStep ==
    ASSUME NEW q \in QueueType, Lockstep(q), NEW p,
           \/ \E x : p = [q EXCEPT !.runner = x]
           \/ \E x : p = [q EXCEPT !.sweep = x]
           \/ \E x : p = [q EXCEPT !.idle_handle = x]
           \/ \E x : p = [q EXCEPT !.missing_sweeps = x]
           \/ \E x : p = [q EXCEPT !.retry_timers = x]
           \/ \E x : p = [q EXCEPT !.shutting_down = x]
           \/ \E x, y : p = [q EXCEPT !.job = x, !.container_name = y]
    PROVE  Lockstep(p)
<1>1. p.warm = q.warm /\ p.slot_held = q.slot_held /\ p.processing = q.processing
  BY DEF QueueType
<1>2. Holding(p) = Holding(q) /\ Busy(p) = Busy(q)
  BY <1>1 DEF Holding, Busy
<1> QED BY <1>1, <1>2, SamePool DEF Lockstep

LEMMA NotifyIdleInStep ==
    ASSUME NEW q, Good(q), Lockstep(q), NEW g \in Groups, NEW p \in NotifyIdle(q, g)
    PROVE  Lockstep(p)
<1>1. CASE p = q
  BY <1>1
<1>2. CASE p # q
  <2>1. PICK n : /\ Good(n) /\ Around(q, n, g)
                 /\ Holding(n) = Holding(q) \ {g} /\ Busy(n) = Busy(q) \ {g}
                 /\ \/ Grants(RequestShutdown(n, g), p)
                    \/ Grants(ArmIdleTimer(n, g), p)
    BY <1>2, NotifyIdleEffect DEF Lockstep
  <2>2. Lockstep(n) /\ n \in QueueType
    BY <2>1 DEF Lockstep, Around, Good
  <2>3. Lockstep(RequestShutdown(n, g))
    BY <2>2, RequestShutdownStops, StopsInStep
  <2>4. \E x : ArmIdleTimer(n, g) = [n EXCEPT !.idle_handle = x]
    BY DEF ArmIdleTimer
  <2>5. Lockstep(ArmIdleTimer(n, g))
    BY <2>2, <2>4, RestInStep
  <2> QED BY <2>1, <2>3, <2>5, GrantsInStep
<1> QED BY <1>1, <1>2

LEMMA ArrivalInStep ==
    ASSUME Good(queue), Lockstep(queue), NEW g \in Groups, Arrival(g)
    PROVE  Lockstep(queue')
<1>1. CASE queue' = EnqueueMessageCheck(queue, g)
  BY <1>1, EnqueueMessageCheckGives, StopsInStep, GrantsInStep
<1>2. CASE Deliverable(queue, g) /\ queue' = SendMessage(queue, g)
  <2> DEFINE p == SendMessage(queue, g)
  <2>1. /\ Around(queue, p, g) /\ Busy(p) = Busy(queue) \cup {g}
        /\ g \in Busy(queue) => Holding(p) = Holding(queue)
        /\ g \notin Busy(queue) => Holding(p) = Holding(queue) \cup {g}
    BY <1>2, SendMessageEffect DEF Lockstep
  <2> HIDE DEF p
  <2>2. Lockstep(p)
    BY <2>1 DEF Lockstep, Around
  <2> QED BY <1>2, <2>2 DEF p
<1>3. ASSUME NEW t \in Tasks, ScheduleTask(g, t)
      PROVE  Lockstep(queue')
  BY <1>3, EnqueueTaskGives, StopsInStep, GrantsInStep DEF ScheduleTask
<1> QED BY <1>1, <1>2, <1>3 DEF Arrival, IncomingMessage, MessageLoopDelivers

LEMMA TimersInStep ==
    ASSUME Good(queue), Lockstep(queue), NEW g \in Groups,
           RetryFires(g) \/ IdleTimerFires(g)
    PROVE  Lockstep(queue')
<1>1. CASE RetryFires(g)
  <2> DEFINE n == [queue.retry_timers EXCEPT ![g] = @ - 1]
             p == [queue EXCEPT !.retry_timers = n]
  <2>1. n \in [Groups -> Nat]
    BY <1>1 DEF RetryFires, Good, QueueType
  <2>2. queue' = EnqueueMessageCheck(p, g)
    BY <1>1 DEF RetryFires
  <2> HIDE DEF n
  <2>3. p \in QueueType /\ Books(p) = Books(queue)
    BY <2>1 DEF Good, QueueType, Books
  <2>4. Lockstep(p)
    BY RestInStep DEF Good
  <2> HIDE DEF p
  <2>5. Good(p)
    BY <2>3, SameBooks
  <2> QED BY <2>2, <2>4, <2>5, EnqueueMessageCheckGives, StopsInStep, GrantsInStep
<1>2. CASE IdleTimerFires(g)
  <2> DEFINE p == CancelIdleTimer(queue, g)
  <2>1. Good(p)
    BY CancelIdleTimerQuiet, SameBooks DEF Good
  <2>2. \E x : p = [queue EXCEPT !.idle_handle = x]
    BY DEF CancelIdleTimer
  <2>3. queue' \in ReapAdopted(p, g) \/ queue' = RequestShutdown(p, g)
    BY <1>2 DEF IdleTimerFires
  <2> HIDE DEF p
  <2>4. Lockstep(p)
    BY <2>2, RestInStep DEF Good
  <2>5. Lockstep(RequestShutdown(p, g))
    BY <2>1, <2>4, RequestShutdownStops, StopsInStep DEF Good
  <2>6. ASSUME queue' \in ReapAdopted(p, g)
        PROVE  Lockstep(queue')
    <3>1. PICK s, m : /\ Holding(s) = Holding(p) /\ Busy(s) = Busy(p)
                      /\ Left(s, m, g) /\ Grants(m, queue')
      BY <2>1, <2>4, <2>6, ReapEffect DEF Lockstep
    <3> QED BY <2>4, <3>1, LeftInStep, GrantsInStep DEF Lockstep
  <2> QED BY <2>3, <2>5, <2>6
<1> QED BY <1>1, <1>2

LEMMA ApprovalsInStep ==
    ASSUME Good(queue), Lockstep(queue), NEW g \in Groups, NEW r \in Requests,
           ApprovalRequested(g, r) \/ ApprovalResolved(g, r)
    PROVE  Lockstep(queue')
<1>1. \/ queue' = SuspendForApproval(queue, g, r)
      \/ queue' = ResumeFromApproval(queue, g, r)
  BY DEF ApprovalRequested, ApprovalResolved
<1>2. \E x, y, z :
         \/ queue' = queue
         \/ queue' = [queue EXCEPT !.awaiting_approval = y]
         \/ queue' = [queue EXCEPT !.awaiting_approval = y, !.idle_handle = x]
         \/ queue' = [queue EXCEPT !.idle_handle = x, !.idle_waiting = z,
                                   !.awaiting_approval = y]
  <2>1. queue \in QueueType
    BY DEF Good
  <2>2. CASE queue' = SuspendForApproval(queue, g, r)
    BY <2>1, <2>2 DEF SuspendForApproval, CancelIdleTimer, QueueType
  <2>3. CASE queue' = ResumeFromApproval(queue, g, r)
    BY <2>1, <2>3 DEF ResumeFromApproval, ArmIdleTimer, QueueType
  <2> QED BY <1>1, <2>2, <2>3
<1>3. /\ queue'.warm = queue.warm /\ queue'.slot_held = queue.slot_held
      /\ queue'.processing = queue.processing
  BY <1>2 DEF Good, QueueType
<1>4. Holding(queue') = Holding(queue) /\ Busy(queue') = Busy(queue)
  BY <1>3 DEF Holding, Busy
<1> QED BY <1>3, <1>4, SamePool DEF Lockstep

LEMMA CoroutinesInStep ==
    ASSUME Good(queue), Lockstep(queue), NEW g \in Groups, NEW j \in Jobs,
           \/ RunnerStarts(g, j) \/ RunnerRegisters(g, j) \/ TaskCloseFires(g, j)
           \/ HandleReply(g, j) \/ HandleFinal(g, j)
    PROVE  Lockstep(queue')
<1> DEFINE r == Runner(g, j)
<1>0. r \in RunnerType /\ queue.runner[g][j] = r
  BY RunnerTyped DEF Runner
<1>1. ASSUME NEW s \in RunnerType
      PROVE  LET p == [queue EXCEPT !.runner[g][j] = s] IN Good(p) /\ Lockstep(p)
  <2> DEFINE x == [queue.runner EXCEPT ![g][j] = s]
             p == [queue EXCEPT !.runner = x]
  <2>1. Good(p)
    BY <1>1, SetRunnerGood
  <2> HIDE DEF x
  <2>2. Lockstep(p)
    BY RestInStep DEF Good
  <2> QED BY <2>1, <2>2 DEF x
<1>2. CASE RunnerStarts(g, j)
  <2> DEFINE s == [r EXCEPT !.phase = "starting"]
             p == [queue EXCEPT !.runner[g][j] = s]
  <2>1. \/ queue' = RunForGroupStarts(p, g)
        \/ r.task # NoTask /\ queue' = RunTaskStarts(p, g, r.task)
    BY <1>2 DEF RunnerStarts, Runner
  <2> HIDE DEF r
  <2>2. s \in RunnerType /\ r.task \in Tasks \cup {NoTask}
    BY <1>0 DEF RunnerType
  <2> HIDE DEF s
  <2>3. Good(p) /\ Lockstep(p)
    BY <1>1, <2>2
  <2> HIDE DEF p
  <2>4. /\ Around(p, queue', g) /\ Holding(queue') = Holding(p) \cup {g}
        /\ Busy(queue') = Busy(p) \cup {g}
    BY <2>1, <2>2, <2>3, StartsEffect DEF Lockstep
  <2> QED BY <2>3, <2>4 DEF Lockstep, Around
<1>3. CASE RunnerRegisters(g, j)
  <2> DEFINE s == [r EXCEPT !.phase = "up", !.busy = TRUE]
             p == [queue EXCEPT !.runner[g][j] = s]
  <2>1. \E x, y : queue' = [p EXCEPT !.job = x, !.container_name = y]
    BY <1>3 DEF RunnerRegisters, RegisterProcess, Runner
  <2> HIDE DEF r
  <2>2. s \in RunnerType
    BY <1>0 DEF RunnerType
  <2> HIDE DEF s
  <2>3. Good(p) /\ Lockstep(p)
    BY <1>1, <2>2
  <2> HIDE DEF p
  <2> QED BY <2>1, <2>3, RestInStep DEF Good
<1>4. CASE TaskCloseFires(g, j)
  <2> DEFINE s == [r EXCEPT !.close = "fired"]
             p == [queue EXCEPT !.runner[g][j] = s]
  <2>1. queue' = RequestShutdown(p, g)
    BY <1>4 DEF TaskCloseFires, Runner
  <2> HIDE DEF r
  <2>2. s \in RunnerType
    BY <1>0 DEF RunnerType
  <2> HIDE DEF s
  <2>3. Good(p) /\ Lockstep(p)
    BY <1>1, <2>2
  <2> HIDE DEF p
  <2> QED BY <2>1, <2>3, RequestShutdownStops, StopsInStep DEF Good
<1>5. CASE HandleReply(g, j)
  <2>1. \/ \E x : queue' = [queue EXCEPT !.idle_handle = x]
        \/ \E x : queue' = [queue EXCEPT !.runner = x]
    BY <1>5 DEF HandleReply, ArmIdleTimer
  <2> QED BY <2>1, RestInStep DEF Good
<1>6. CASE HandleFinal(g, j)
  <2> DEFINE n == r.finals - 1
             c == IF r.task # NoTask /\ r.close = "unarmed" THEN "armed" ELSE r.close
             s == [r EXCEPT !.finals = n, !.close = c]
             p == [queue EXCEPT !.runner[g][j] = s]
  <2>1. queue' \in NotifyIdle(p, g)
    BY <1>6 DEF HandleFinal, Runner
  <2>2. r.finals > 0
    BY <1>6 DEF HandleFinal
  <2> HIDE DEF r
  <2>3. n \in Nat /\ c \in {"unarmed", "armed", "fired"}
    BY <1>0, <2>2 DEF RunnerType
  <2> HIDE DEF n, c
  <2>4. s \in RunnerType
    BY <1>0, <2>3 DEF RunnerType
  <2> HIDE DEF s
  <2>5. Good(p) /\ Lockstep(p)
    BY <1>1, <2>4
  <2> HIDE DEF p
  <2> QED BY <2>1, <2>5, NotifyIdleInStep
<1> QED BY <1>2, <1>3, <1>4, <1>5, <1>6

LEMMA EndsInStep ==
    ASSUME Good(queue), Lockstep(queue), NEW g \in Groups, NEW j \in Jobs,
           NEW success \in BOOLEAN, NEW raised \in BOOLEAN,
           RunnerEnds(g, j, success, raised)
    PROVE  Lockstep(queue')
<1> DEFINE gone == [queue EXCEPT !.runner[g][j] = NoRunner]
           quiet == CancelIdleTimer(gone, g)
<1>1. \E q \in {gone, quiet} : \/ queue' \in RunForGroupEnds(q, g, success)
                               \/ queue' \in RunTaskEnds(q, g)
  BY DEF RunnerEnds
<1>2. NoRunner \in RunnerType
  BY DEF NoRunner, RunnerType
<1>3. Good(gone)
  BY <1>2, SetRunnerGood
<1>4. Lockstep(gone)
  <2>1. \E x : gone = [queue EXCEPT !.runner = x]
    OBVIOUS
  <2> HIDE DEF gone
  <2> QED BY <2>1, RestInStep DEF Good
<1> HIDE DEF gone
<1>5. Good(quiet)
  BY <1>3, CancelIdleTimerQuiet, SameBooks DEF Good
<1>6. Lockstep(quiet)
  <2>1. \E x : quiet = [gone EXCEPT !.idle_handle = x]
    BY DEF CancelIdleTimer
  <2> HIDE DEF quiet
  <2> QED BY <1>3, <1>4, <2>1, RestInStep DEF Good
<1> HIDE DEF quiet
<1>7. PICK q \in {gone, quiet} : \/ queue' \in RunForGroupEnds(q, g, success)
                                 \/ queue' \in RunTaskEnds(q, g)
  BY <1>1
<1>8. Good(q) /\ Lockstep(q)
  BY <1>3, <1>4, <1>5, <1>6
<1>9. PICK m : Left(q, m, g) /\ Grants(m, queue')
  BY <1>7, <1>8, EndsEffect DEF Lockstep
<1> QED BY <1>8, <1>9, LeftInStep, GrantsInStep DEF Lockstep

LEMMA SweepInStep ==
    ASSUME Good(queue), Lockstep(queue), NEW g \in Groups, SweepVisits(g)
    PROVE  Lockstep(queue')
<1>1. PICK q \in ReconcileGroup(queue, g) : \E s : queue' = [q EXCEPT !.sweep = s]
  BY DEF SweepVisits
<1>2. Good(q)
  BY ReconcileGroupGood
<1>3. \/ \E x : q = [queue EXCEPT !.missing_sweeps = x]
      \/ q = queue \/ q \in ReapGhost(queue, g)
  BY DEF ReconcileGroup
<1>4. CASE q \in ReapGhost(queue, g)
  <2>1. PICK s, m : /\ Holding(s) = Holding(queue) /\ Busy(s) = Busy(queue)
                    /\ Left(s, m, g) /\ Grants(m, q)
    BY <1>4, ReapEffect DEF Lockstep
  <2>2. Holding(s) = Busy(s)
    BY <2>1 DEF Lockstep
  <2>3. Lockstep(q)
    BY <2>1, <2>2, LeftInStep, GrantsInStep
  <2> QED BY <1>1, <1>2, <2>3, RestInStep DEF Good
<1>5. CASE q = queue \/ \E x : q = [queue EXCEPT !.missing_sweeps = x]
  <2>1. Lockstep(q)
    BY <1>5, RestInStep DEF Good
  <2> QED BY <1>1, <1>2, <2>1, RestInStep DEF Good
<1> QED BY <1>3, <1>4, <1>5

LEMMA NextInStep ==
    ASSUME Good(queue), Lockstep(queue), orphans = {}, Next
    PROVE  Lockstep(queue') /\ orphans' = {}
<1>1. ASSUME NEW g \in Groups, NEW j \in Jobs, RunnerStep(g, j)
      PROVE  Lockstep(queue') /\ orphans' = {}
  <2>1. orphans' = {}
    BY <1>1 DEF RunnerStep, RunnerStarts, RunnerRegisters, HandleReply, HandleFinal,
              RunnerEnds, TaskCloseFires, AgentFinishesTurn, AgentTakesInput,
              ContainerDies, RunnerLost, env
  <2>2. CASE \/ AgentFinishesTurn(g, j) \/ AgentTakesInput(g, j)
             \/ ContainerDies(g, j) \/ RunnerLost(g, j)
    <3>1. \E x : queue' = [queue EXCEPT !.runner = x]
      BY <2>2 DEF AgentFinishesTurn, AgentTakesInput, ContainerDies, RunnerLost
    <3> QED BY <2>1, <3>1, RestInStep DEF Good
  <2> QED BY <1>1, <2>1, <2>2, CoroutinesInStep, EndsInStep DEF RunnerStep
<1>2. ASSUME NEW g \in Groups, GroupStep(g)
      PROVE  Lockstep(queue') /\ orphans' = {}
  <2>1. CASE RetryFires(g) \/ IdleTimerFires(g)
    BY <2>1, TimersInStep DEF RetryFires, IdleTimerFires, env
  <2>2. ASSUME NEW r \in Requests, ApprovalRequested(g, r) \/ ApprovalResolved(g, r)
        PROVE  Lockstep(queue') /\ orphans' = {}
    BY <2>2, ApprovalsInStep DEF ApprovalRequested, ApprovalResolved, env
  <2>3. \A r \in Requests, alive \in BOOLEAN : ~Adopt(g, r, alive)
    BY DEF Adopt
  <2> QED BY <1>1, <1>2, <2>1, <2>2, <2>3 DEF GroupStep
<1>3. ASSUME NEW g \in Groups, Arrival(g)
      PROVE  Lockstep(queue') /\ orphans' = {}
  BY <1>3, ArrivalInStep
     DEF Arrival, IncomingMessage, MessageLoopDelivers, ScheduleTask, env
<1>4. CASE Shutdown \/ SweepLists \/ SweepFails \/ SweepResumes
  <2>1. \/ \E x : queue' = [queue EXCEPT !.shutting_down = x]
        \/ \E x : queue' = [queue EXCEPT !.sweep = x]
    BY <1>4 DEF Shutdown, SweepLists, SweepFails, SweepResumes
  <2>2. orphans' = {}
    BY <1>4 DEF Shutdown, SweepLists, SweepFails, SweepResumes, env
  <2> QED BY <2>1, <2>2, RestInStep DEF Good
<1>5. ASSUME NEW g \in Groups, SweepVisits(g)
      PROVE  Lockstep(queue') /\ orphans' = {}
  BY <1>5, SweepInStep DEF SweepVisits
<1> QED BY <1>2, <1>3, <1>4, <1>5 DEF Next

\* slot_held and processing never come apart while nothing is adopted: every
\* handler that starts, resumes, ends or tears down a turn, a sweep with a stale
\* snapshot included, changes both or neither, for any groups and limits.
THEOREM SlotsMoveWithTurns ==
    ASSUME Orphans = {}
    PROVE  Spec => []SlotHeldIffProcessing
<1> DEFINE Inv == Lockstep(queue) /\ orphans = {}
<1>1. Init => Inv
  <2> SUFFICES ASSUME Init
               PROVE  Inv
    OBVIOUS
  <2>1. Holding(queue) = {} /\ Busy(queue) = {} /\ queue.warm = <<>> /\ orphans = {}
    BY DEF Init, Holding, Busy
  <2> QED BY <2>1 DEF Lockstep, NoDouble
<1>2. QueueInv /\ Inv /\ [Next]_vars => Inv'
  <2> SUFFICES ASSUME QueueInv, Inv, [Next]_vars
               PROVE  Inv'
    OBVIOUS
  <2>1. Good(queue)
    BY DEF QueueInv, TypeOK, Good
  <2>2. Lockstep(queue') /\ orphans' = {}
    BY <2>1, NextInStep DEF vars
  <2> QED BY <2>2 DEF Lockstep, NoDouble, Holding, Busy
<1>3. QueueInv /\ Inv => SlotHeldIffProcessing
  <2> SUFFICES ASSUME QueueInv, Inv, NEW g \in Groups
               PROVE  queue.slot_held[g] = queue.processing[g]
    BY DEF SlotHeldIffProcessing
  <2>1. queue.slot_held[g] \in BOOLEAN /\ queue.processing[g] \in BOOLEAN
    BY DEF QueueInv, TypeOK, QueueType
  <2>2. queue.slot_held[g] <=> queue.processing[g]
    BY DEF Lockstep, Holding, Busy
  <2> QED BY <2>1, <2>2
<1> QED BY <1>1, <1>2, <1>3, QueueInvariant, PTL DEF Spec

-----------------------------------------------------------------------------
(* Second pass: everything about a group at once, without the reaper.      *)

\* A runner of g is replaced.
LEMMA SetRunnerEffect ==
    ASSUME NEW q, Good(q), NoDouble(q), NEW g \in Groups, NEW j \in Jobs,
           NEW r \in RunnerType
    PROVE  LET p == [q EXCEPT !.runner[g][j] = r] IN
           /\ Good(p) /\ Around(q, p, g) /\ SameCore(q, p, g)
           /\ p.idle_handle = q.idle_handle
           /\ p.awaiting_approval = q.awaiting_approval
           /\ \A k \in Jobs : p.runner[g][k] = IF k = j THEN r ELSE q.runner[g][k]
<1> DEFINE p == [q EXCEPT !.runner[g][j] = r]
<1>1. Good(p)
  BY SetRunnerGood
<1>2. /\ Books(p) = Books(q) /\ p.processing = q.processing /\ Desk(p) = Desk(q)
      /\ p.runner = [q.runner EXCEPT ![g][j] = r]
      /\ q.runner \in [Groups -> [Jobs -> RunnerType]]
  BY DEF Good, QueueType, Books, Desk
<1> HIDE DEF p
<1>3. /\ \A h \in Groups \ {g} : p.runner[h] = q.runner[h]
      /\ \A k \in Jobs : p.runner[g][k] = IF k = j THEN r ELSE q.runner[g][k]
  BY <1>2
<1>4. Busy(p) = Busy(q) /\ Live(p) = Live(q) /\ Holding(p) = Holding(q)
  BY <1>2 DEF Busy, Books, Live, Holding
<1>5. \A h \in Groups \ {g} : Alike(q, p, h)
  BY <1>2, <1>3, <1>4, SameAlike
<1>6. /\ p.job = q.job /\ p.idle_handle = q.idle_handle /\ p.adopted = q.adopted
      /\ p.awaiting_approval = q.awaiting_approval
      /\ p.is_task_container = q.is_task_container /\ p.warm = q.warm
      /\ p.sweep = q.sweep
  BY <1>2 DEF Desk
<1>7. NoDouble(p) /\ \A h : InPool(p, h) <=> InPool(q, h)
  BY <1>6, SamePool
<1>8. Around(q, p, g) /\ SameCore(q, p, g)
  BY <1>4, <1>5, <1>6, <1>7 DEF Around, SameCore
<1> QED BY <1>1, <1>3, <1>6, <1>8 DEF p

\* The timer of g may be off, or armed at rest, or as it was.
TimerSound(q, p, g) ==
    /\ p.idle_handle[g] # "reap_adopted"
    /\ \/ p.idle_handle[g] = "off"
       \/ g \notin Busy(q) /\ p.awaiting_approval[g] = {}
       \/ /\ p.idle_handle[g] = q.idle_handle[g]
          /\ q.awaiting_approval[g] = {} => p.awaiting_approval[g] = {}

LEMMA CoreSound ==
    ASSUME NEW q, NEW p, NEW g, Sound(q, g), Manned(q, g), SameCore(q, p, g),
           \A k \in Jobs : p.runner[g][k].phase = q.runner[g][k].phase,
           TimerSound(q, p, g)
    PROVE  Sound(p, g) /\ Manned(p, g)
<1>1. \A j \in Jobs : RunnerSound(p, g, j)
  <2> SUFFICES ASSUME NEW j \in Jobs
               PROVE  RunnerSound(p, g, j)
    OBVIOUS
  <2>1. RunnerSound(q, g, j)
    BY DEF Sound
  <2>2. q.runner[g][j].phase = "starting" => p.idle_handle[g] = "off"
    BY <2>1 DEF RunnerSound, TimerSound
  <2> QED BY <2>1, <2>2 DEF RunnerSound, SameCore
<1>2. p.idle_handle[g] # "off" /\ p.job[g] # NoJob
        => g \notin Busy(p) /\ p.awaiting_approval[g] = {}
  BY DEF Sound, SameCore, TimerSound
<1>3. p.idle_handle[g] # "reap_adopted"
  BY DEF TimerSound
<1>4. Sound(p, g)
  BY <1>1, <1>2, <1>3 DEF Sound, SameCore
<1>5. Manned(p, g)
  BY DEF Manned, SameCore
<1> QED BY <1>4, <1>5

\* A shutdown request, seen from one group.
LEMMA StopsSound ==
    ASSUME NEW q, NEW p, NEW h \in Groups, SameButStop(q, p), Sound(q, h), Manned(q, h)
    PROVE  Sound(p, h) /\ Manned(p, h)
<1>1. Live(p) = Live(q) /\ Holding(p) = Holding(q) /\ Busy(p) = Busy(q)
  BY DEF SameButStop, Books, Live, Holding
<1>2. /\ p.job = q.job /\ p.idle_handle = q.idle_handle /\ p.adopted = q.adopted
      /\ p.awaiting_approval = q.awaiting_approval
      /\ p.is_task_container = q.is_task_container /\ p.warm = q.warm
  BY DEF SameButStop, Desk
<1>3. \A j \in Jobs : p.runner[h][j].phase = q.runner[h][j].phase
  BY DEF SameButStop
<1>4. InPool(p, h) <=> InPool(q, h)
  BY <1>2 DEF InPool
<1>5. SameCore(q, p, h)
  BY <1>1, <1>2, <1>4 DEF SameCore
<1>6. TimerSound(q, p, h)
  BY <1>2 DEF TimerSound, Sound
<1> QED BY <1>3, <1>5, <1>6, CoreSound

\* A shutdown request changes nothing that matters.
LEMMA StopsKeep ==
    ASSUME NEW q, Regular(q), NEW p, SameButStop(q, p)
    PROVE  Regular(p) /\ Admitted(q, p)
<1>1. Live(p) = Live(q) /\ Holding(p) = Holding(q)
  BY DEF SameButStop, Books, Live, Holding
<1>2. p.idle_handle = q.idle_handle /\ p.warm = q.warm /\ p.sweep = q.sweep
  BY DEF SameButStop, Desk
<1>3. ASSUME NEW h \in Groups
      PROVE  Fine(p, h)
  <2>1. Fine(q, h)
    BY DEF Regular
  <2>2. Sound(p, h) /\ Manned(p, h)
    BY <2>1, StopsSound DEF Fine
  <2>3. Reapable(p, h)
    BY <1>2, <2>1 DEF Fine, Reapable, OnTheMove, SameButStop
  <2> QED BY <2>2, <2>3 DEF Fine
<1>4. NoDouble(p) /\ Fits(p) /\ p.sweep = NoSweep
  BY <1>1, <1>2 DEF Regular, NoDouble, Fits
<1> QED BY <1>1, <1>3, <1>4 DEF Regular, Admitted

\* A step that is only about g, ends in a shutdown request to g, and leaves g
\* in order.
LEMMA StopsAround ==
    ASSUME NEW q, Regular(q), NEW n, NEW g \in Groups, Around(q, n, g), Fits(n),
           Sound(n, g), Manned(n, g), NEW p, SameButStop(n, p), Reapable(p, g)
    PROVE  Regular(p)
<1>1. \A h \in Groups \ {g} : Fine(n, h)
  BY AlikeFine DEF Around, Regular
<1>2. Fine(p, g)
  BY <1>1, StopsSound DEF Fine
<1>3. ASSUME NEW h \in Groups \ {g}
      PROVE  Fine(p, h)
  <2>1. Sound(p, h) /\ Manned(p, h)
    BY <1>1, StopsSound DEF Fine
  <2>2. p.idle_handle = n.idle_handle
    BY DEF SameButStop, Desk
  <2>3. Reapable(p, h)
    BY <1>1, <2>2 DEF Fine, Reapable, OnTheMove, SameButStop
  <2> QED BY <2>1, <2>3 DEF Fine
<1>4. p.warm = n.warm /\ p.sweep = n.sweep
  BY DEF SameButStop, Desk
<1>5. NoDouble(p) /\ p.sweep = NoSweep
  BY <1>4, SamePool DEF Around, Regular
<1>6. Fits(p)
  BY DEF Fits, SameButStop, Books, Live, Holding
<1> QED BY <1>2, <1>3, <1>5, <1>6 DEF Regular

\* The sets of p are those of m, which are those of q.
LEMMA AdmittedSame ==
    ASSUME NEW q, NEW m, NEW p, Holding(m) = Holding(q), Live(m) = Live(q),
           Admitted(m, p)
    PROVE  Admitted(q, p)
BY DEF Admitted

\* Messages and tasks arrive.
LEMMA EnqueueKeeps ==
    ASSUME NEW q, Good(q), Regular(q), NEW p, SameButStop(q, p) \/ Grants(q, p)
    PROVE  Regular(p) /\ Admitted(q, p)
BY StopsKeep, GrantsKeep

LEMMA SendMessageKeeps ==
    ASSUME NEW q, Good(q), Regular(q), NEW g \in Groups, Deliverable(q, g)
    PROVE  Regular(SendMessage(q, g)) /\ Admitted(q, SendMessage(q, g))
<1> DEFINE p == SendMessage(q, g)
           j == q.job[g]
<1>1. NoDouble(q) /\ Fits(q) /\ Fine(q, g)
  BY DEF Regular
<1>2. /\ Good(p) /\ Around(q, p, g)
      /\ Live(p) = Live(q) /\ Busy(p) = Busy(q) \cup {g}
      /\ g \in Busy(q) => /\ Holding(p) = Holding(q)
                          /\ InPool(p, g) <=> InPool(q, g)
                          /\ p.idle_handle[g] = q.idle_handle[g]
      /\ g \notin Busy(q) => /\ Holding(p) = Holding(q) \cup {g}
                             /\ CanStartTurn(q, g)
                             /\ ~InPool(p, g)
                             /\ p.idle_handle[g] = "off"
      /\ p.job[g] = q.job[g] /\ p.adopted[g] = q.adopted[g]
      /\ p.is_task_container[g] = q.is_task_container[g]
      /\ p.awaiting_approval[g] = q.awaiting_approval[g]
  BY <1>1, SendMessageEffect
<1>3. PICK input \in BOOLEAN :
         /\ p.runner[g] = [q.runner[g] EXCEPT ![j] = [@ EXCEPT !.input = input]]
         /\ q.runner[g][j].input => input
         /\ q.runner[g][j].phase = "up" => input
  BY <1>1, SendMessageEffect
<1>4. j # NoJob /\ j \in Jobs /\ g \in Live(q)
  BY DEF Deliverable, Good, QueueType, Live
<1> HIDE DEF p, j
<1>5. q.runner[g] \in [Jobs -> RunnerType]
  BY DEF Good, QueueType
<1>6. /\ p.runner[g][j] = [q.runner[g][j] EXCEPT !.input = input]
      /\ \A k \in Jobs \ {j} : p.runner[g][k] = q.runner[g][k]
  BY <1>3, <1>4, <1>5
<1>7. /\ p.runner[g][j].phase = q.runner[g][j].phase
      /\ p.runner[g][j].input = input
  <2>1. q.runner[g][j] \in RunnerType
    BY <1>4, <1>5
  <2> QED BY <1>6, <2>1 DEF RunnerType
<1>8. \A k \in Jobs : p.runner[g][k].phase = q.runner[g][k].phase
  BY <1>6, <1>7
<1>9. /\ g \in Holding(q) <=> g \in Busy(q)
      /\ g \in Busy(q) => ~InPool(q, g) /\ q.idle_handle[g] = "off"
      /\ q.adopted[g] = FALSE
      /\ \A k \in Jobs : q.runner[g][k].phase = "none"
           \/ /\ k = j /\ q.runner[g][k].phase \in {"up", "dead"}
              /\ \A i \in Jobs \ {k} : q.runner[g][i].phase = "none"
  <2>1. Sound(q, g)
    BY <1>1 DEF Fine
  <2>2. \A k \in Jobs : RunnerSound(q, g, k)
    BY <2>1 DEF Sound
  <2>3. \A k \in Jobs : q.runner[g][k].phase = "none"
           \/ /\ k = j /\ q.runner[g][k].phase \in {"up", "dead"}
              /\ \A i \in Jobs \ {k} : q.runner[g][i].phase = "none"
    BY <1>4, <2>2 DEF RunnerSound, j
  <2> QED BY <1>4, <2>1, <2>3 DEF Sound, j
<1>10. \A k \in Jobs : RunnerSound(p, g, k)
  BY <1>2, <1>4, <1>8, <1>9 DEF RunnerSound, j
<1>11. Sound(p, g)
  BY <1>2, <1>4, <1>9, <1>10 DEF Sound
<1>12. Manned(p, g)
  BY <1>1, <1>2, <1>8 DEF Fine, Manned
<1>13. Reapable(p, g)
  <2> SUFFICES ASSUME NEW k \in Jobs, p.runner[g][k].phase = "up"
               PROVE  OnTheMove(p.runner[g][k], p.idle_handle[g])
    BY DEF Reapable, OnTheMove
  <2>1. k = j
    BY <1>8, <1>9
  <2>2. p.runner[g][k].input
    BY <1>3, <1>7, <2>1
  <2> QED BY <2>2 DEF OnTheMove
<1>14. Fine(p, g)
  BY <1>11, <1>12, <1>13 DEF Fine
<1>15. Fits(p)
  BY <1>1, <1>2, OneFits DEF Fits
<1>16. Regular(p)
  BY <1>2, <1>14, <1>15, AroundRegular
<1>17. Admitted(q, p)
  BY <1>2, <1>4, <1>9 DEF Admitted
<1> QED BY <1>16, <1>17 DEF p

LEMMA ArrivalRegular ==
    ASSUME Good(queue), Regular(queue), NEW g \in Groups, Arrival(g)
    PROVE  Regular(queue') /\ Admitted(queue, queue')
<1>1. CASE queue' = EnqueueMessageCheck(queue, g)
  BY <1>1, EnqueueMessageCheckGives, EnqueueKeeps
<1>2. CASE Deliverable(queue, g) /\ queue' = SendMessage(queue, g)
  BY <1>2, SendMessageKeeps
<1>3. ASSUME NEW t \in Tasks, ScheduleTask(g, t)
      PROVE  Regular(queue') /\ Admitted(queue, queue')
  BY <1>3, EnqueueTaskGives, EnqueueKeeps DEF ScheduleTask
<1> QED BY <1>1, <1>2, <1>3 DEF Arrival, IncomingMessage, MessageLoopDelivers

\* A retry is a message that arrives; an idle timer asks the one container of
\* the group to stop.
LEMMA TimersRegular ==
    ASSUME Good(queue), Regular(queue), NEW g \in Groups,
           RetryFires(g) \/ IdleTimerFires(g)
    PROVE  Regular(queue') /\ Admitted(queue, queue')
<1>1. CASE RetryFires(g)
  <2> DEFINE n == [queue.retry_timers EXCEPT ![g] = @ - 1]
             p == [queue EXCEPT !.retry_timers = n]
  <2>1. n \in [Groups -> Nat]
    BY <1>1 DEF RetryFires, Good, QueueType
  <2>2. queue' = EnqueueMessageCheck(p, g)
    BY <1>1 DEF RetryFires
  <2> HIDE DEF n
  <2>3. p \in QueueType /\ Books(p) = Books(queue) /\ SameButStop(queue, p)
    <3>1. p \in QueueType
      BY <2>1 DEF Good, QueueType
    <3> QED BY <3>1, WorkOnly DEF Good
  <2> HIDE DEF p
  <2>4. Good(p) /\ Live(p) = Live(queue) /\ Holding(p) = Holding(queue)
    BY <2>3, SameBooks
  <2>5. Regular(p)
    BY <2>3, StopsKeep
  <2>6. Regular(queue') /\ Admitted(p, queue')
    BY <2>2, <2>4, <2>5, EnqueueMessageCheckGives, EnqueueKeeps
  <2> QED BY <2>4, <2>6, AdmittedSame
<1>2. CASE IdleTimerFires(g)
  <2> DEFINE n == CancelIdleTimer(queue, g)
  <2>1. NoDouble(queue) /\ Fine(queue, g) /\ Fits(queue)
    BY DEF Regular
  <2>2. queue' = RequestShutdown(n, g)
    BY <1>2, <2>1 DEF IdleTimerFires, Fine, Sound
  <2>3. /\ n \in QueueType /\ Books(n) = Books(queue) /\ n.runner = queue.runner
        /\ Around(queue, n, g) /\ SameCore(queue, n, g)
        /\ n.awaiting_approval = queue.awaiting_approval /\ n.idle_handle[g] = "off"
    BY <2>1, CancelIdleTimerEffect DEF Good
  <2> HIDE DEF n
  <2>4. Live(n) = Live(queue) /\ Holding(n) = Holding(queue)
    BY <2>3 DEF SameCore
  <2>5. Sound(n, g) /\ Manned(n, g)
    BY <2>1, <2>3, CoreSound DEF Fine, TimerSound
  <2>6. SameButStop(n, queue')
    BY <2>2, <2>3, RequestShutdownStops
  <2>7. \A j \in Jobs : n.active[g] /\ n.job[g] = j /\ n.runner[g][j].phase = "up"
                          => queue'.runner[g][j].stop
    BY <2>2, <2>3, RequestShutdownStops
  <2>8. Reapable(queue', g)
    <3> SUFFICES ASSUME NEW j \in Jobs, queue'.runner[g][j].phase = "up"
                 PROVE  OnTheMove(queue'.runner[g][j], queue'.idle_handle[g])
      BY DEF Reapable, OnTheMove
    <3>1. n.runner[g][j].phase = "up"
      BY <2>6 DEF SameButStop
    <3>2. n.active[g] /\ n.job[g] = j
      <4>1. RunnerSound(n, g, j)
        BY <2>5 DEF Sound
      <4> QED BY <3>1, <4>1 DEF RunnerSound, Live
    <3> QED BY <2>7, <3>1, <3>2 DEF OnTheMove
  <2>9. Fits(n)
    BY <2>1, <2>4 DEF Fits
  <2>10. Regular(queue')
    BY <2>3, <2>5, <2>6, <2>8, <2>9, StopsAround
  <2>11. Live(queue') = Live(queue) /\ Holding(queue') = Holding(queue)
    BY <2>4, <2>6 DEF SameButStop, Books, Live, Holding
  <2> QED BY <2>10, <2>11 DEF Admitted
<1> QED BY <1>1, <1>2

\* A pending approval keeps the timer off.
LEMMA ApprovalsRegular ==
    ASSUME Good(queue), Regular(queue), NEW g \in Groups, NEW r \in Requests,
           ApprovalRequested(g, r) \/ ApprovalResolved(g, r)
    PROVE  Regular(queue') /\ Admitted(queue, queue')
<1>1. /\ queue \in QueueType /\ NoDouble(queue) /\ Fine(queue, g) /\ Fits(queue)
      /\ queue.adopted[g] = FALSE /\ queue.idle_handle[g] # "reap_adopted"
  BY DEF Good, Regular, Fine, Sound
<1>2. /\ queue'.runner = queue.runner
      /\ Around(queue, queue', g) /\ SameCore(queue, queue', g)
      /\ TimerSound(queue, queue', g)
  <2>1. CASE ApprovalRequested(g, r)
    BY <1>1, <2>1, SuspendEffect DEF ApprovalRequested, TimerSound
  <2>2. CASE ApprovalResolved(g, r)
    BY <1>1, <2>2, ResumeEffect DEF ApprovalResolved, TimerSound
  <2> QED BY <2>1, <2>2
<1>3. Live(queue') = Live(queue) /\ Holding(queue') = Holding(queue)
  BY <1>2 DEF SameCore
<1>4. Sound(queue', g) /\ Manned(queue', g)
  BY <1>1, <1>2, CoreSound DEF Fine
<1>5. Fine(queue', g)
  BY <1>4 DEF Fine, Reapable
<1>6. Fits(queue')
  BY <1>1, <1>3 DEF Fits
<1>7. Regular(queue')
  BY <1>2, <1>5, <1>6, AroundRegular
<1> QED BY <1>3, <1>7 DEF Admitted

\* Steps of a container or a coroutine that change only the runner.
LEMMA RunnerRegular ==
    ASSUME NEW q, Good(q), Regular(q), NEW g \in Groups, NEW j \in Jobs,
           NEW r \in RunnerType, NEW p, p = [q EXCEPT !.runner[g][j] = r],
           \/ r.phase = q.runner[g][j].phase
           \/ r.phase = "dead" /\ q.runner[g][j].phase = "up"
           \/ r.phase = "none" /\ MaxLost # 0,
           Requests = {} => OnTheMove(r, q.idle_handle[g])
    PROVE  Regular(p) /\ Admitted(q, p)
<1>1. NoDouble(q) /\ Fine(q, g) /\ Fits(q)
  BY DEF Regular
<1>2. /\ Around(q, p, g) /\ SameCore(q, p, g)
      /\ p.idle_handle = q.idle_handle
      /\ p.awaiting_approval = q.awaiting_approval
      /\ \A k \in Jobs : p.runner[g][k] = IF k = j THEN r ELSE q.runner[g][k]
  BY <1>1, SetRunnerEffect
<1>3. Live(p) = Live(q) /\ Holding(p) = Holding(q) /\ Busy(p) = Busy(q)
  BY <1>2 DEF SameCore
<1>4. \A k \in Jobs : RunnerSound(p, g, k)
  <2> SUFFICES ASSUME NEW k \in Jobs
               PROVE  RunnerSound(p, g, k)
    OBVIOUS
  <2>1. RunnerSound(q, g, k) /\ RunnerSound(q, g, j)
    BY <1>1 DEF Fine, Sound
  <2>2. p.job[g] = q.job[g]
    BY <1>2 DEF SameCore
  <2> QED BY <1>2, <1>3, <2>1, <2>2 DEF RunnerSound
<1>5. Sound(p, g)
  BY <1>1, <1>2, <1>4 DEF Fine, Sound, SameCore
<1>6. Manned(p, g)
  <2>1. Manned(q, g)
    BY <1>1 DEF Fine
  <2> QED BY <1>2, <1>3, <2>1 DEF Manned
<1>7. Reapable(p, g)
  BY <1>1, <1>2 DEF Fine, Reapable
<1>8. Fits(p)
  BY <1>1, <1>3 DEF Fits
<1>9. Regular(p)
  BY <1>2, <1>5, <1>6, <1>7, <1>8, AroundRegular DEF Fine
<1> QED BY <1>3, <1>9 DEF Admitted

LEMMA ContainersRegular ==
    ASSUME Good(queue), Regular(queue), NEW g \in Groups, NEW j \in Jobs,
           \/ AgentFinishesTurn(g, j) \/ AgentTakesInput(g, j)
           \/ ContainerDies(g, j)
           \/ RunnerLost(g, j) /\ lost \in Nat
    PROVE  Regular(queue') /\ Admitted(queue, queue')
<1> DEFINE r == Runner(g, j)
<1>1. r \in RunnerType /\ queue.runner[g][j] = r
  BY RunnerTyped DEF Runner
<1>2. r.phase # "orphan"
  <2>1. RunnerSound(queue, g, j)
    BY DEF Regular, Fine, Sound
  <2> QED BY <2>1 DEF RunnerSound, Runner
<1>3. CASE AgentFinishesTurn(g, j)
  <2> DEFINE n == r.finals + 1
             s == [r EXCEPT !.busy = FALSE, !.finals = n]
  <2>1. queue' = [queue EXCEPT !.runner[g][j] = s]
    BY <1>3 DEF AgentFinishesTurn, Runner
  <2> HIDE DEF r
  <2>2. n \in Nat /\ n > 0
    BY <1>1 DEF RunnerType
  <2> HIDE DEF n
  <2>3. s \in RunnerType /\ s.phase = r.phase /\ s.finals = n
    BY <1>1, <2>2 DEF RunnerType
  <2> HIDE DEF s
  <2> QED BY <1>1, <2>1, <2>2, <2>3, RunnerRegular DEF OnTheMove
<1>4. CASE AgentTakesInput(g, j)
  <2> DEFINE s == [r EXCEPT !.input = FALSE, !.busy = TRUE]
  <2>1. queue' = [queue EXCEPT !.runner[g][j] = s]
    BY <1>4 DEF AgentTakesInput, Runner
  <2> HIDE DEF r
  <2>2. s \in RunnerType /\ s.phase = r.phase /\ s.busy
    BY <1>1 DEF RunnerType
  <2> HIDE DEF s
  <2> QED BY <1>1, <2>1, <2>2, RunnerRegular DEF OnTheMove
<1>5. CASE ContainerDies(g, j)
  <2> DEFINE s == [r EXCEPT !.phase = "dead", !.busy = FALSE,
                            !.input = FALSE, !.stop = FALSE]
  <2>1. r.phase = "up" /\ queue' = [queue EXCEPT !.runner[g][j] = s]
    BY <1>2, <1>5 DEF ContainerDies, Runner
  <2> HIDE DEF r
  <2>2. s \in RunnerType /\ s.phase = "dead"
    BY <1>1 DEF RunnerType
  <2> HIDE DEF s
  <2> QED BY <1>1, <2>1, <2>2, RunnerRegular DEF OnTheMove
<1>6. CASE RunnerLost(g, j) /\ lost \in Nat
  <2>1. queue' = [queue EXCEPT !.runner[g][j] = NoRunner] /\ MaxLost # 0
    BY <1>6, BoundsAssumption DEF RunnerLost
  <2>2. NoRunner \in RunnerType /\ NoRunner.phase = "none"
    BY DEF NoRunner, RunnerType
  <2> QED BY <2>1, <2>2, RunnerRegular DEF OnTheMove
<1> QED BY <1>3, <1>4, <1>5, <1>6

\* The only runner of a group, by its phase.
LEMMA OnlyRunner ==
    ASSUME NEW q, NEW g, NEW j \in Jobs, Sound(q, g), q.runner[g][j].phase # "none"
    PROVE  /\ g \in Live(q) /\ \A k \in Jobs \ {j} : q.runner[g][k].phase = "none"
           /\ q.runner[g][j].phase \in {"spawned", "starting"}
                => g \in Busy(q) /\ q.job[g] = NoJob
           /\ q.runner[g][j].phase = "starting" => q.idle_handle[g] = "off"
           /\ q.runner[g][j].phase \in {"up", "dead"} => q.job[g] = j
<1>1. RunnerSound(q, g, j)
  BY DEF Sound
<1> QED BY <1>1 DEF RunnerSound

LEMMA RunnerStartsRegular ==
    ASSUME Good(queue), Regular(queue), NEW g \in Groups, NEW j \in Jobs,
           RunnerStarts(g, j)
    PROVE  Regular(queue') /\ Admitted(queue, queue')
<1> DEFINE r == Runner(g, j)
           s == [r EXCEPT !.phase = "starting"]
           p == [queue EXCEPT !.runner[g][j] = s]
<1>1. r \in RunnerType /\ queue.runner[g][j] = r /\ r.phase = "spawned"
  BY RunnerTyped DEF Runner, RunnerStarts
<1>2. NoDouble(queue) /\ Sound(queue, g) /\ Fits(queue)
  BY DEF Regular, Fine
<1>3. \/ queue' = RunForGroupStarts(p, g)
      \/ queue' = RunTaskStarts(p, g, r.task)
  BY DEF RunnerStarts, Runner
<1> HIDE DEF r
<1>4. s \in RunnerType /\ s.phase = "starting" /\ r.task \in Tasks \cup {NoTask}
  BY <1>1 DEF RunnerType
<1> HIDE DEF s
<1>5. /\ Good(p) /\ Around(queue, p, g) /\ SameCore(queue, p, g)
      /\ \A k \in Jobs : p.runner[g][k] = IF k = j THEN s ELSE queue.runner[g][k]
  BY <1>2, <1>4, SetRunnerEffect
<1> HIDE DEF p
<1>6. NoDouble(p)
  BY <1>5 DEF Around
<1>7. /\ Around(p, queue', g)
      /\ Live(queue') = Live(p) \cup {g} /\ Holding(queue') = Holding(p) \cup {g}
      /\ Busy(queue') = Busy(p) \cup {g}
      /\ InPool(queue', g) <=> InPool(p, g)
      /\ queue'.job[g] = p.job[g] /\ queue'.adopted[g] = p.adopted[g]
      /\ queue'.idle_handle[g] = "off" /\ queue'.runner = p.runner
  BY <1>3, <1>4, <1>5, <1>6, StartsEffect
<1>8. /\ g \in Live(queue) /\ g \in Busy(queue) /\ queue.job[g] = NoJob
      /\ \A k \in Jobs \ {j} : queue.runner[g][k].phase = "none"
  BY <1>1, <1>2, OnlyRunner
<1>9. g \in Holding(queue) /\ ~InPool(queue, g) /\ queue.adopted[g] = FALSE
  BY <1>2, <1>8 DEF Sound
<1>10. /\ Live(queue') = Live(queue) /\ Holding(queue') = Holding(queue)
       /\ Busy(queue') = Busy(queue) /\ ~InPool(queue', g)
       /\ queue'.job[g] = NoJob /\ queue'.adopted[g] = FALSE
  BY <1>5, <1>7, <1>8, <1>9 DEF SameCore
<1>11. \A k \in Jobs :
         queue'.runner[g][k].phase = IF k = j THEN "starting" ELSE "none"
  BY <1>4, <1>5, <1>7, <1>8
<1>12. \A k \in Jobs : RunnerSound(queue', g, k)
  BY <1>7, <1>8, <1>10, <1>11 DEF RunnerSound
<1>13. Sound(queue', g)
  BY <1>7, <1>8, <1>9, <1>10, <1>12 DEF Sound
<1>14. Manned(queue', g) /\ Reapable(queue', g)
  BY <1>11 DEF Manned, Reapable, OnTheMove
<1>15. Around(queue, queue', g)
  BY <1>5, <1>7, AroundTwice
<1>16. Fits(queue')
  BY <1>2, <1>10 DEF Fits
<1>17. Regular(queue')
  BY <1>13, <1>14, <1>15, <1>16, AroundRegular DEF Fine
<1> QED BY <1>10, <1>17 DEF Admitted

LEMMA RunnerRegistersRegular ==
    ASSUME Good(queue), Regular(queue), NEW g \in Groups, NEW j \in Jobs,
           RunnerRegisters(g, j)
    PROVE  Regular(queue') /\ Admitted(queue, queue')
<1> DEFINE r == Runner(g, j)
           s == [r EXCEPT !.phase = "up", !.busy = TRUE]
           p == [queue EXCEPT !.runner[g][j] = s]
<1>1. r \in RunnerType /\ queue.runner[g][j] = r /\ r.phase = "starting"
  BY RunnerTyped DEF Runner, RunnerRegisters
<1>2. NoDouble(queue) /\ Sound(queue, g) /\ Fits(queue)
  BY DEF Regular, Fine
<1>3. queue' = [p EXCEPT !.job[g] = j, !.container_name[g] = j]
  BY DEF RunnerRegisters, RegisterProcess, Runner
<1> HIDE DEF r
<1>4. s \in RunnerType /\ s.phase = "up" /\ s.busy
  BY <1>1 DEF RunnerType
<1> HIDE DEF s
<1>5. /\ Good(p) /\ Around(queue, p, g) /\ SameCore(queue, p, g)
      /\ p.idle_handle = queue.idle_handle
      /\ \A k \in Jobs : p.runner[g][k] = IF k = j THEN s ELSE queue.runner[g][k]
  BY <1>2, <1>4, SetRunnerEffect
<1> HIDE DEF p
<1>6. /\ Books(queue') = Books(p) /\ queue'.processing = p.processing
      /\ queue'.job = [p.job EXCEPT ![g] = j]
      /\ queue'.idle_handle = p.idle_handle /\ queue'.adopted = p.adopted
      /\ queue'.awaiting_approval = p.awaiting_approval
      /\ queue'.is_task_container = p.is_task_container /\ queue'.warm = p.warm
      /\ queue'.sweep = p.sweep /\ queue'.runner = p.runner
      /\ p.job \in [Groups -> Jobs \cup {NoJob}]
  BY <1>3, <1>5 DEF Good, QueueType, Books
<1>7. queue'.job[g] = j /\ \A h \in Groups \ {g} : queue'.job[h] = p.job[h]
  BY <1>6
<1>8. Live(queue') = Live(p) /\ Holding(queue') = Holding(p) /\ Busy(queue') = Busy(p)
  BY <1>6 DEF Books, Live, Holding, Busy
<1>9. /\ NoDouble(queue') <=> NoDouble(p)
      /\ \A h : InPool(queue', h) <=> InPool(p, h)
  BY <1>6, SamePool
<1>10. Around(p, queue', g)
  BY <1>5, <1>6, <1>7, <1>8, <1>9 DEF Around, Alike
<1>11. Around(queue, queue', g)
  BY <1>5, <1>10, AroundTwice
<1>12. /\ g \in Live(queue) /\ g \in Busy(queue) /\ queue.idle_handle[g] = "off"
       /\ \A k \in Jobs \ {j} : queue.runner[g][k].phase = "none"
  BY <1>1, <1>2, OnlyRunner
<1>13. g \in Holding(queue) /\ ~InPool(queue, g) /\ queue.adopted[g] = FALSE
  BY <1>2, <1>12 DEF Sound
<1>14. /\ Live(queue') = Live(queue) /\ Holding(queue') = Holding(queue)
       /\ Busy(queue') = Busy(queue) /\ ~InPool(queue', g)
       /\ queue'.adopted[g] = FALSE /\ queue'.idle_handle[g] = "off"
  BY <1>5, <1>6, <1>8, <1>9, <1>12, <1>13 DEF SameCore
<1>15. \A k \in Jobs : queue'.runner[g][k].phase = IF k = j THEN "up" ELSE "none"
  BY <1>4, <1>5, <1>6, <1>12
<1>16. \A k \in Jobs : RunnerSound(queue', g, k)
  BY <1>7, <1>12, <1>14, <1>15 DEF RunnerSound
<1>17. Sound(queue', g)
  BY <1>12, <1>13, <1>14, <1>16 DEF Sound
<1>18. Manned(queue', g)
  BY <1>15 DEF Manned
<1>19. Reapable(queue', g)
  <2>1. queue'.runner[g][j].busy
    BY <1>4, <1>5, <1>6
  <2> QED BY <1>15, <2>1 DEF Reapable, OnTheMove
<1>20. Fits(queue')
  BY <1>2, <1>14 DEF Fits
<1>21. Regular(queue')
  BY <1>11, <1>17, <1>18, <1>19, <1>20, AroundRegular DEF Fine
<1> QED BY <1>14, <1>21 DEF Admitted

\* Replies arm a timer; so does a close timer that was not armed.
LEMMA RepliesRegular ==
    ASSUME Good(queue), Regular(queue), NEW g \in Groups, NEW j \in Jobs,
           HandleReply(g, j) \/ TaskCloseFires(g, j)
    PROVE  Regular(queue') /\ Admitted(queue, queue')
<1> DEFINE r == Runner(g, j)
<1>1. r \in RunnerType /\ queue.runner[g][j] = r
  BY RunnerTyped DEF Runner
<1>2. NoDouble(queue) /\ Fine(queue, g) /\ Fits(queue)
  BY DEF Regular
<1>3. ASSUME NEW c \in {"unarmed", "armed", "fired"}
      PROVE  LET p == [queue EXCEPT !.runner[g][j] = [r EXCEPT !.close = c]] IN
             Good(p) /\ Regular(p) /\ Admitted(queue, p)
  <2> DEFINE s == [r EXCEPT !.close = c]
             p == [queue EXCEPT !.runner[g][j] = s]
  <2> HIDE DEF r
  <2>1. /\ s \in RunnerType /\ s.phase = r.phase /\ s.task = r.task
        /\ s.busy = r.busy /\ s.input = r.input /\ s.finals = r.finals
        /\ s.stop = r.stop
    BY <1>1, <1>3 DEF RunnerType
  <2> HIDE DEF s
  <2>2. Requests = {} => OnTheMove(s, queue.idle_handle[g])
    BY <1>1, <1>2, <2>1 DEF Fine, Reapable, OnTheMove
  <2>3. Regular(p) /\ Admitted(queue, p)
    BY <1>1, <2>1, <2>2, RunnerRegular
  <2>4. Good(p)
    BY <2>1, SetRunnerGood
  <2> QED BY <2>3, <2>4 DEF s
<1>4. CASE TaskCloseFires(g, j)
  <2> DEFINE p == [queue EXCEPT !.runner[g][j] = [r EXCEPT !.close = "fired"]]
  <2>1. queue' = RequestShutdown(p, g)
    BY <1>4 DEF TaskCloseFires, Runner
  <2>2. Good(p) /\ Regular(p) /\ Admitted(queue, p)
    BY <1>3
  <2>3. Live(p) = Live(queue) /\ Holding(p) = Holding(queue)
    BY DEF Good, QueueType, Live, Holding
  <2> HIDE DEF p
  <2>4. Regular(queue') /\ Admitted(p, queue')
    BY <2>1, <2>2, RequestShutdownStops, StopsKeep DEF Good
  <2> QED BY <2>3, <2>4, AdmittedSame
<1>5. CASE HandleReply(g, j) /\ r.task # NoTask
  <2>1. queue' = [queue EXCEPT !.runner[g][j] = [r EXCEPT !.close = "armed"]]
    BY <1>5 DEF HandleReply, Runner
  <2> QED BY <1>3, <2>1
<1>6. CASE HandleReply(g, j) /\ r.task = NoTask
  <2>1. /\ queue' = ArmIdleTimer(queue, g)
        /\ r.phase \in {"up", "dead"} /\ (r.busy \/ r.finals > 0)
    BY <1>6 DEF HandleReply
  <2>2. /\ queue'.runner = queue.runner
        /\ Around(queue, queue', g) /\ SameCore(queue, queue', g)
        /\ queue'.idle_handle[g] # "off" <=> /\ queue.awaiting_approval[g] = {}
                                             /\ g \notin Busy(queue)
        /\ queue'.awaiting_approval = queue.awaiting_approval
        /\ queue'.idle_handle[g] # "reap_adopted"
    BY <1>2, <2>1, ArmIdleTimerEffect DEF Good, Fine, Sound
  <2> HIDE DEF r
  <2>3. Sound(queue', g) /\ Manned(queue', g)
    BY <1>2, <2>2, CoreSound DEF Fine, TimerSound
  <2>4. \A k \in Jobs \ {j} : queue.runner[g][k].phase = "none"
    BY <1>1, <1>2, <2>1, OnlyRunner DEF Fine
  <2>5. Reapable(queue', g)
    BY <1>1, <2>1, <2>2, <2>4 DEF Reapable, OnTheMove
  <2>6. Live(queue') = Live(queue) /\ Holding(queue') = Holding(queue)
    BY <2>2 DEF SameCore
  <2>7. Fits(queue')
    BY <1>2, <2>6 DEF Fits
  <2>8. Regular(queue')
    BY <2>2, <2>3, <2>5, <2>7, AroundRegular DEF Fine
  <2> QED BY <2>6, <2>8 DEF Admitted
<1> QED BY <1>4, <1>5, <1>6

\* The end of a turn: the container rests and its timer is armed, or it is asked
\* to stop for a queued task; the room goes to others.
LEMMA HandleFinalRegular ==
    ASSUME Good(queue), Regular(queue), NEW g \in Groups, NEW j \in Jobs,
           HandleFinal(g, j)
    PROVE  Regular(queue') /\ Admitted(queue, queue')
<1> DEFINE r == Runner(g, j)
           i == r.finals - 1
           c == IF r.task # NoTask /\ r.close = "unarmed" THEN "armed" ELSE r.close
           s == [r EXCEPT !.finals = i, !.close = c]
           p == [queue EXCEPT !.runner[g][j] = s]
<1>1. /\ r \in RunnerType /\ queue.runner[g][j] = r
      /\ r.phase \in {"up", "dead"} /\ r.finals > 0
  BY RunnerTyped DEF Runner, HandleFinal
<1>2. NoDouble(queue) /\ Fine(queue, g) /\ Fits(queue)
  BY DEF Regular
<1>3. queue' \in NotifyIdle(p, g)
  BY DEF HandleFinal, Runner
<1> HIDE DEF r
<1>4. i \in Nat /\ c \in {"unarmed", "armed", "fired"}
  BY <1>1 DEF RunnerType
<1> HIDE DEF i, c
<1>5. s \in RunnerType /\ s.phase = r.phase
  BY <1>1, <1>4 DEF RunnerType
<1> HIDE DEF s
<1>6. /\ Good(p) /\ Around(queue, p, g) /\ SameCore(queue, p, g)
      /\ p.idle_handle = queue.idle_handle
      /\ p.awaiting_approval = queue.awaiting_approval
      /\ \A k \in Jobs : p.runner[g][k] = IF k = j THEN s ELSE queue.runner[g][k]
  BY <1>2, <1>5, SetRunnerEffect
<1>7. CASE queue' = p /\ p.awaiting_approval[g] # {}
  <2>1. Requests # {}
    BY <1>6, <1>7 DEF Good, QueueType
  <2> QED BY <1>1, <1>5, <1>7, <2>1, RunnerRegular
<1> HIDE DEF p
<1>8. NoDouble(p) /\ Live(p) = Live(queue) /\ Holding(p) = Holding(queue)
      /\ Busy(p) = Busy(queue)
  BY <1>6 DEF Around, SameCore
<1>9. \A k \in Jobs : p.runner[g][k].phase = queue.runner[g][k].phase
  BY <1>1, <1>5, <1>6
<1>10. Sound(p, g) /\ Manned(p, g)
  <2>1. TimerSound(queue, p, g)
    BY <1>2, <1>6 DEF TimerSound, Fine, Sound
  <2> QED BY <1>2, <1>6, <1>9, <2>1, CoreSound DEF Fine
<1>11. /\ g \in Live(p) /\ p.job[g] = j
       /\ \A k \in Jobs \ {j} : p.runner[g][k].phase = "none"
       /\ p.runner[g][j].phase \in {"up", "dead"}
  <2>1. p.runner[g][j].phase \in {"up", "dead"}
    BY <1>1, <1>9
  <2> QED BY <1>10, <2>1, OnlyRunner
<1>12. CASE ~(queue' = p /\ p.awaiting_approval[g] # {})
  <2>1. PICK n :
          /\ Good(n) /\ Around(p, n, g) /\ n.runner = p.runner
          /\ Live(n) = Live(p) /\ Holding(n) = Holding(p) \ {g}
          /\ Busy(n) = Busy(p) \ {g}
          /\ InPool(n, g) <=> \/ InPool(p, g)
                              \/ g \in Live(p) /\ p.is_task_container[g] = FALSE
          /\ n.job[g] = p.job[g] /\ n.adopted[g] = p.adopted[g]
          /\ n.is_task_container[g] = p.is_task_container[g]
          /\ n.awaiting_approval[g] = {}
          /\ n.idle_handle[g] = p.idle_handle[g]
          /\ \/ Grants(RequestShutdown(n, g), queue')
             \/ Grants(ArmIdleTimer(n, g), queue')
    BY <1>3, <1>6, <1>8, <1>12, NotifyIdleEffect
  <2>2. \A k \in Jobs : RunnerSound(n, g, k)
    BY <1>11, <2>1 DEF RunnerSound
  <2>3. Sound(n, g)
    BY <1>10, <2>1, <2>2 DEF Sound
  <2>4. Manned(n, g)
    BY <1>10, <2>1 DEF Manned
  <2>5. Around(queue, n, g)
    BY <1>6, <2>1, AroundTwice
  <2>6. Fits(n)
    <3>1. /\ Holding(n) \subseteq Holding(queue) /\ Live(n) \subseteq Live(queue)
          /\ Holding(queue) \subseteq Groups /\ Live(queue) \subseteq Groups
      BY <1>8, <2>1 DEF Holding, Live
    <3> QED BY <1>2, <3>1, FewerFit DEF Fits
  <2>7. ASSUME Grants(RequestShutdown(n, g), queue')
        PROVE  Regular(queue') /\ Admitted(queue, queue')
    <3> DEFINE m == RequestShutdown(n, g)
    <3>1. /\ m \in QueueType /\ Books(m) = Books(n) /\ SameButStop(n, m)
          /\ \A k \in Jobs : n.active[g] /\ n.job[g] = k /\ n.runner[g][k].phase = "up"
                               => m.runner[g][k].stop
      BY <2>1, RequestShutdownQuiet, RequestShutdownStops DEF Good
    <3> HIDE DEF m
    <3>2. Good(m) /\ Live(m) = Live(n) /\ Holding(m) = Holding(n)
      BY <2>1, <3>1, SameBooks
    <3>3. n.active[g]
      BY <1>11, <2>1 DEF Live
    <3>4. Reapable(m, g)
      <4> SUFFICES ASSUME NEW k \in Jobs, m.runner[g][k].phase = "up"
                   PROVE  OnTheMove(m.runner[g][k], m.idle_handle[g])
        BY DEF Reapable, OnTheMove
      <4>1. n.runner[g][k].phase = "up"
        BY <3>1 DEF SameButStop
      <4>2. n.job[g] = k
        BY <1>11, <2>1, <4>1
      <4>3. m.runner[g][k].stop
        BY <3>1, <3>3, <4>1, <4>2
      <4> QED BY <4>3 DEF OnTheMove
    <3>5. Regular(m)
      BY <2>3, <2>4, <2>5, <2>6, <3>1, <3>4, StopsAround
    <3>6. Grants(m, queue')
      BY <2>7 DEF m
    <3>7. Regular(queue')
      BY <3>2, <3>5, <3>6, GrantsKeep
    <3>8. Admitted(queue, queue')
      BY <1>8, <2>1, <3>2, <3>6, AdmittedAfter
    <3> QED BY <3>7, <3>8
  <2>8. ASSUME Grants(ArmIdleTimer(n, g), queue')
        PROVE  Regular(queue') /\ Admitted(queue, queue')
    <3> DEFINE m == ArmIdleTimer(n, g)
    <3>1. NoDouble(n) /\ n \in QueueType /\ g \notin Busy(n) /\ n.adopted[g] = FALSE
      BY <2>1, <2>3 DEF Around, Good, Sound
    <3>2. /\ m \in QueueType /\ Books(m) = Books(n) /\ m.runner = n.runner
          /\ Around(n, m, g) /\ SameCore(n, m, g)
          /\ m.awaiting_approval = n.awaiting_approval
          /\ m.idle_handle[g] # "off" /\ m.idle_handle[g] # "reap_adopted"
      BY <2>1, <3>1, ArmIdleTimerEffect
    <3> HIDE DEF m
    <3>3. Good(m) /\ Live(m) = Live(n) /\ Holding(m) = Holding(n)
      BY <2>1, <3>2, SameBooks
    <3>4. Sound(m, g) /\ Manned(m, g)
      BY <2>1, <2>3, <2>4, <3>1, <3>2, CoreSound DEF TimerSound
    <3>5. Reapable(m, g)
      BY <3>2 DEF Reapable, OnTheMove
    <3>6. Around(queue, m, g)
      BY <2>5, <3>2, AroundTwice
    <3>7. Fits(m)
      BY <2>6, <3>3 DEF Fits
    <3>8. Regular(m)
      BY <3>4, <3>5, <3>6, <3>7, AroundRegular DEF Fine
    <3>9. Grants(m, queue')
      BY <2>8 DEF m
    <3>10. Regular(queue')
      BY <3>3, <3>8, <3>9, GrantsKeep
    <3>11. Admitted(queue, queue')
      BY <1>8, <2>1, <3>3, <3>9, AdmittedAfter
    <3> QED BY <3>10, <3>11
  <2> QED BY <2>1, <2>7, <2>8
<1> QED BY <1>7, <1>12

\* The end of a coroutine leaves the group without a runner; its slot and its
\* container are passed on.
LEMMA RunnerEndsRegular ==
    ASSUME Good(queue), Regular(queue), NEW g \in Groups, NEW j \in Jobs,
           NEW success \in BOOLEAN, NEW raised \in BOOLEAN,
           RunnerEnds(g, j, success, raised)
    PROVE  Regular(queue') /\ Admitted(queue, queue')
<1> DEFINE gone == [queue EXCEPT !.runner[g][j] = NoRunner]
           quiet == CancelIdleTimer(gone, g)
<1>1. \E q \in {gone, quiet} : \/ queue' \in RunForGroupEnds(q, g, success)
                               \/ queue' \in RunTaskEnds(q, g)
  BY DEF RunnerEnds
<1>2. NoDouble(queue) /\ Fine(queue, g) /\ Fits(queue)
  BY DEF Regular
<1>3. /\ g \in Live(queue)
      /\ \A k \in Jobs \ {j} : queue.runner[g][k].phase = "none"
  <2>1. queue.runner[g][j].phase # "none"
    BY DEF RunnerEnds, Runner
  <2> QED BY <1>2, <2>1, OnlyRunner DEF Fine
<1>4. NoRunner \in RunnerType /\ NoRunner.phase = "none"
  BY DEF NoRunner, RunnerType
<1>5. /\ Good(gone) /\ Around(queue, gone, g) /\ SameCore(queue, gone, g)
      /\ gone.idle_handle = queue.idle_handle
      /\ \A k \in Jobs : gone.runner[g][k] = IF k = j THEN NoRunner
                                             ELSE queue.runner[g][k]
  BY <1>2, <1>4, SetRunnerEffect
<1> HIDE DEF gone
<1>6. NoDouble(gone) /\ gone \in QueueType
  BY <1>5 DEF Around, Good
<1>7. /\ quiet \in QueueType /\ Books(quiet) = Books(gone)
      /\ quiet.runner = gone.runner
      /\ Around(gone, quiet, g) /\ SameCore(gone, quiet, g)
      /\ quiet.idle_handle[g] = "off"
  BY <1>6, CancelIdleTimerEffect
<1> HIDE DEF quiet
<1>8. PICK q \in {gone, quiet} : \/ queue' \in RunForGroupEnds(q, g, success)
                                 \/ queue' \in RunTaskEnds(q, g)
  BY <1>1
<1>9. /\ Good(q) /\ Around(queue, q, g) /\ SameCore(queue, q, g)
      /\ q.runner = gone.runner
      /\ q.idle_handle[g] # "reap_adopted" /\ q.adopted[g] = FALSE
  <2>1. queue.idle_handle[g] # "reap_adopted" /\ queue.adopted[g] = FALSE
    BY <1>2 DEF Fine, Sound
  <2>2. CASE q = gone
    BY <1>5, <2>1, <2>2 DEF SameCore
  <2>3. CASE q = quiet
    <3>1. Good(quiet)
      BY <1>5, <1>7, SameBooks
    <3>2. Around(queue, quiet, g)
      BY <1>5, <1>7, AroundTwice
    <3>3. SameCore(queue, quiet, g)
      BY <1>5, <1>7 DEF SameCore
    <3> QED BY <1>7, <2>1, <2>3, <3>1, <3>2, <3>3 DEF SameCore
  <2> QED BY <2>2, <2>3
<1>10. NoDouble(q)
  BY <1>9 DEF Around
<1>11. PICK m : Left(q, m, g) /\ Grants(m, queue')
  BY <1>8, <1>9, <1>10, EndsEffect
<1>12. /\ Good(m) /\ Live(m) = Live(queue) \ {g} /\ Holding(m) = Holding(queue) \ {g}
       /\ Busy(m) = Busy(queue) \ {g}
       /\ ~InPool(m, g) /\ m.job[g] = NoJob
       /\ m.idle_handle[g] # "reap_adopted" /\ m.adopted[g] = FALSE
       /\ m.runner = gone.runner
  BY <1>9, <1>11 DEF Left, SameCore
<1>13. Around(queue, m, g)
  BY <1>9, <1>11, AroundTwice DEF Left
<1>14. \A k \in Jobs : m.runner[g][k].phase = "none"
  BY <1>3, <1>4, <1>5, <1>12
<1>15. Sound(m, g)
  BY <1>12, <1>14 DEF Sound, RunnerSound
<1>16. Manned(m, g) /\ Reapable(m, g)
  BY <1>12, <1>14 DEF Manned, Reapable, OnTheMove
<1>17. Fits(m)
  <2>1. /\ Holding(m) \subseteq Holding(queue) /\ Live(m) \subseteq Live(queue)
        /\ Holding(queue) \subseteq Groups /\ Live(queue) \subseteq Groups
    BY <1>12 DEF Holding, Live
  <2> QED BY <1>2, <2>1, FewerFit DEF Fits
<1>18. Regular(m)
  BY <1>13, <1>15, <1>16, <1>17, AroundRegular DEF Fine
<1>19. Regular(queue')
  BY <1>11, <1>12, <1>18, GrantsKeep
<1>20. Admitted(queue, queue')
  BY <1>3, <1>11, <1>12, AdmittedAfter
<1> QED BY <1>19, <1>20

-----------------------------------------------------------------------------
(* The invariant, while the reaper does not run and nothing is adopted.    *)

\* Without a budget for it the sweep never starts, and without orphans nothing
\* is adopted; every other step keeps the queue regular.
LEMMA NextRegular ==
    ASSUME MaxReaps = 0, reaps \in Nat, lost \in Nat,
           Good(queue), Regular(queue), orphans = {}, Next
    PROVE  Regular(queue') /\ Admitted(queue, queue') /\ orphans' = {}
<1>1. orphans' = {}
  <2>1. Lockstep(queue)
    BY DEF Regular, Fine, Sound, Lockstep, Holding, Busy
  <2> QED BY <2>1, NextInStep
<1>2. queue.sweep.phase = "idle" /\ queue.sweep.todo = {}
  BY DEF Regular, NoSweep
<1>3. ~SweepLists /\ ~SweepFails /\ ~SweepResumes /\ \A g \in Groups : ~SweepVisits(g)
  BY <1>2 DEF SweepLists, SweepFails, SweepResumes, SweepVisits
<1>4. ASSUME NEW g \in Groups, NEW j \in Jobs, RunnerStep(g, j)
      PROVE  Regular(queue') /\ Admitted(queue, queue')
  <2>1. ASSUME NEW success \in BOOLEAN, NEW raised \in BOOLEAN,
               RunnerEnds(g, j, success, raised)
        PROVE  Regular(queue') /\ Admitted(queue, queue')
    BY <2>1, RunnerEndsRegular
  <2> QED BY <1>4, <2>1, RunnerStartsRegular, RunnerRegistersRegular, RepliesRegular,
             HandleFinalRegular, ContainersRegular DEF RunnerStep
<1>5. ASSUME NEW g \in Groups, GroupStep(g)
      PROVE  Regular(queue') /\ Admitted(queue, queue')
  <2>1. \A r \in Requests, alive \in BOOLEAN : ~Adopt(g, r, alive)
    BY DEF Adopt
  <2>2. ASSUME NEW r \in Requests, ApprovalRequested(g, r) \/ ApprovalResolved(g, r)
        PROVE  Regular(queue') /\ Admitted(queue, queue')
    BY <2>2, ApprovalsRegular
  <2>3. CASE RetryFires(g) \/ IdleTimerFires(g)
    BY <2>3, TimersRegular
  <2> QED BY <1>4, <1>5, <2>1, <2>2, <2>3 DEF GroupStep
<1>6. CASE Shutdown
  <2>1. \E x : queue' = [queue EXCEPT !.shutting_down = x]
    BY <1>6 DEF Shutdown
  <2>2. SameButStop(queue, queue')
    BY <2>1, WorkOnly DEF Good
  <2> QED BY <1>1, <2>2, StopsKeep
<1>7. ASSUME NEW g \in Groups, Arrival(g)
      PROVE  Regular(queue') /\ Admitted(queue, queue')
  BY <1>7, ArrivalRegular
<1> QED BY <1>1, <1>3, <1>5, <1>6, <1>7 DEF Next

LEMMA InitRegular ==
    ASSUME Orphans = {}, Init
    PROVE  Regular(queue) /\ orphans = {}
<1>1. Holding(queue) = {} /\ Live(queue) = {} /\ Busy(queue) = {}
  BY DEF Init, Holding, Live, Busy
<1>2. /\ queue.warm = <<>> /\ queue.sweep = NoSweep /\ orphans = {}
  BY DEF Init, NoSweep
<1>3. NoDouble(queue) /\ \A h : ~InPool(queue, h)
  BY <1>2 DEF NoDouble, InPool
<1>4. /\ \A t : OfTenant({}, t) = {}
      /\ \A c : OfCoworker({}, c) = {}
  BY DEF OfTenant, OfCoworker
<1>5. Fits(queue)
  BY <1>1, <1>4, FS_EmptySet, QueueAssumptions DEF Fits, InLimits
<1>6. ASSUME NEW h \in Groups
      PROVE  Fine(queue, h)
  <2>1. /\ queue.adopted[h] = FALSE /\ queue.idle_handle[h] = "off"
        /\ queue.job[h] = NoJob
        /\ \A j \in Jobs : queue.runner[h][j].phase = "none"
    BY DEF Init, NoRunner
  <2>2. \A j \in Jobs : RunnerSound(queue, h, j)
    BY <2>1 DEF RunnerSound
  <2>3. Sound(queue, h)
    BY <1>1, <1>3, <2>1, <2>2 DEF Sound
  <2>4. Manned(queue, h)
    BY <1>1 DEF Manned
  <2>5. Reapable(queue, h)
    BY <2>1 DEF Reapable, OnTheMove
  <2> QED BY <2>3, <2>4, <2>5 DEF Fine
<1> QED BY <1>2, <1>3, <1>5, <1>6 DEF Regular

\* The inductive invariant of this module.
QueueRegular == QueueInv /\ Regular(queue) /\ orphans = {}

LEMMA StepRegular ==
    ASSUME MaxReaps = 0, QueueInv, Regular(queue), orphans = {}, [Next]_vars
    PROVE  Regular(queue') /\ Admitted(queue, queue') /\ orphans' = {}
<1>1. Good(queue) /\ reaps \in Nat /\ lost \in Nat
  BY DEF QueueInv, TypeOK, Good
<1>2. CASE UNCHANGED vars
  <2>1. queue' = queue /\ orphans' = orphans
    BY <1>2 DEF vars
  <2> QED BY <2>1 DEF Admitted
<1> QED BY <1>1, <1>2, NextRegular

\* Where the containers of no earlier process are adopted and the reaper does
\* not run, what the queue records of a group always agrees: slot and turn,
\* pool and rest, job and runner, timer and turn; and its limits are kept.
THEOREM RegularInvariant ==
    ASSUME Orphans = {}, MaxReaps = 0
    PROVE  Spec => []QueueRegular
<1> DEFINE Inv == Regular(queue) /\ orphans = {}
<1>1. Init => Inv
  BY InitRegular
<1>2. QueueInv /\ Inv /\ [Next]_vars => Inv'
  <2> SUFFICES ASSUME QueueInv, Inv, [Next]_vars
               PROVE  Inv'
    OBVIOUS
  <2>1. Regular(queue') /\ orphans' = {}
    BY StepRegular
  <2> QED BY <2>1 DEF Regular, NoDouble, Fits, InLimits, OfTenant, OfCoworker, Holding,
                     Live, Busy, InPool, Fine, Sound, RunnerSound, Manned, Reapable,
                     OnTheMove, NoSweep
<1>3. QueueInv /\ Inv => QueueRegular
  BY DEF QueueRegular
<1> QED BY <1>1, <1>2, <1>3, QueueInvariant, PTL DEF Spec

-----------------------------------------------------------------------------
(* What follows for the properties of GroupQueue.                          *)

\* Three-level admission holds at every moment, for any groups, tenants,
\* coworkers and limits: checks made at enqueue, warm resume, drain and retry
\* never add up to more turns than _can_start_turn allows.
THEOREM TurnsStayWithinLimits ==
    ASSUME Orphans = {}, MaxReaps = 0
    PROVE  Spec => []TurnsWithinLimits
<1>1. QueueRegular => TurnsWithinLimits
  BY DEF QueueRegular, Regular, Fits, InLimits, TurnsWithinLimits
<1> QED BY <1>1, RegularInvariant, PTL

\* The memory ceiling of can_spawn_container: warm and processing containers
\* together never exceed the global limit.
THEOREM ContainersStayWithinLimit ==
    ASSUME Orphans = {}, MaxReaps = 0
    PROVE  Spec => []LiveWithinLimit
<1>1. QueueRegular => LiveWithinLimit
  BY DEF QueueRegular, Regular, Fits, InLimits, LiveWithinLimit
<1> QED BY <1>1, RegularInvariant, PTL

\* arm_idle_timer leaves a timer only on a container that rests without a
\* pending approval, whatever starts, resumes or suspends it afterwards.
THEOREM TimersOnlyAtRest ==
    ASSUME Orphans = {}, MaxReaps = 0
    PROVE  Spec => []IdleTimerOnlyAtRest
<1>1. QueueRegular => IdleTimerOnlyAtRest
  <2> SUFFICES ASSUME QueueRegular, NEW g \in Groups,
                      queue.idle_handle[g] # "off", queue.job[g] # NoJob
               PROVE  ~queue.processing[g] /\ queue.awaiting_approval[g] = {}
    BY DEF IdleTimerOnlyAtRest
  <2>1. Sound(queue, g)
    BY DEF QueueRegular, Regular, Fine
  <2> QED BY <2>1 DEF Sound, Busy
<1> QED BY <1>1, RegularInvariant, PTL

\* A sequence without repetition is as long as its set of elements.
LEMMA PoolLength ==
    ASSUME NEW w \in Seq(Groups), \A i, k \in DOMAIN w : w[i] = w[k] => i = k
    PROVE  Len(w) = Cardinality(ToSet(w))
<1>1. Len(w) \in Nat /\ DOMAIN w = 1..Len(w)
  OBVIOUS
<1>2. w \in Bijection(1..Len(w), ToSet(w))
  BY <1>1 DEF ToSet, Bijection, Injection, Surjection, IsInjective
<1>3. ExistsBijection(1..Len(w), ToSet(w))
  BY <1>2 DEF ExistsBijection
<1>4. IsFiniteSet(1..Len(w)) /\ Cardinality(1..Len(w)) = Len(w)
  BY <1>1, FS_Interval
<1> QED BY <1>3, <1>4, FS_Bijection

\* The warm pool that eviction picks its victim from is the resting message
\* containers, each once: no path that starts, resumes, rests or ends one
\* forgets it there or puts it in twice.
THEOREM WarmPoolStaysExact ==
    ASSUME Orphans = {}, MaxReaps = 0
    PROVE  Spec => []WarmPoolIsExact
<1>1. QueueRegular => WarmPoolIsExact
  <2> SUFFICES ASSUME QueueRegular
               PROVE  WarmPoolIsExact
    OBVIOUS
  <2>1. queue \in QueueType
    BY DEF QueueRegular, QueueInv, TypeOK
  <2>2. queue.warm \in Seq(Groups)
    BY <2>1 DEF QueueType
  <2>3. \A g \in Groups : queue.is_task_container[g] \in BOOLEAN
    BY <2>1 DEF QueueType
  <2>4. Len(queue.warm) = Cardinality(ToSet(queue.warm))
    BY <2>2, PoolLength DEF QueueRegular, Regular, NoDouble
  <2>5. ASSUME NEW g \in Groups
        PROVE  InPool(queue, g) <=> /\ queue.active[g] /\ ~queue.processing[g]
                                    /\ ~queue.is_task_container[g]
    <3>1. Sound(queue, g)
      BY DEF QueueRegular, Regular, Fine
    <3> QED BY <2>3, <3>1 DEF Sound, Live, Busy
  <2>6. \A g : g \in ToSet(queue.warm) <=> g \in Groups /\ InPool(queue, g)
    BY <2>2 DEF ToSet, InPool
  <2> QED BY <2>4, <2>5, <2>6 DEF WarmPoolIsExact
<1> QED BY <1>1, RegularInvariant, PTL

\* No coroutine dies without its finally block: then enqueue, drain, retry and
\* the two finally blocks never give a group a second container, and a group is
\* active exactly while it has one.
THEOREM RunnersAreSingle ==
    ASSUME Orphans = {}, MaxReaps = 0, MaxLost = 0, Jobs # {}
    PROVE  Spec => []OneRunnerPerGroup
<1>1. QueueRegular => OneRunnerPerGroup
  <2> SUFFICES ASSUME QueueRegular, NEW g \in Groups
               PROVE  Cardinality({j \in Jobs : Runner(g, j).phase # "none"})
                        = IF queue.active[g] THEN 1 ELSE 0
    BY DEF OneRunnerPerGroup
  <2> DEFINE R == {j \in Jobs : Runner(g, j).phase # "none"}
  <2>1. Sound(queue, g) /\ Manned(queue, g)
    BY DEF QueueRegular, Regular, Fine
  <2>2. CASE queue.active[g]
    <3>1. PICK j \in Jobs : queue.runner[g][j].phase # "none"
      BY <2>1, <2>2 DEF Manned, Live
    <3>2. R = {j}
      BY <2>1, <3>1, OnlyRunner DEF Runner
    <3> QED BY <2>2, <3>2, FS_Singleton
  <2>3. CASE ~queue.active[g]
    <3>1. R = {}
      BY <2>1, <2>3, OnlyRunner DEF Runner, Live
    <3> QED BY <2>3, <3>1, FS_EmptySet
  <2> QED BY <2>2, <2>3
<1> QED BY <1>1, RegularInvariant, PTL

\* Without approvals a message container that rests with nothing on its way is
\* on its way out: every path that lets it rest arms its idle timer or has
\* asked it to stop.
THEOREM RestingIsReapable ==
    ASSUME Orphans = {}, MaxReaps = 0, Requests = {}
    PROVE  Spec => []RestingContainerIsReapable
<1>1. QueueRegular => RestingContainerIsReapable
  <2> SUFFICES ASSUME QueueRegular, NEW g \in Groups, NEW j \in Jobs,
                      Runner(g, j).phase = "up", Runner(g, j).task = NoTask,
                      ~Runner(g, j).busy, ~Runner(g, j).input, Runner(g, j).finals = 0
               PROVE  queue.idle_handle[g] # "off" \/ Runner(g, j).stop
    BY DEF RestingContainerIsReapable
  <2>1. OnTheMove(Runner(g, j), queue.idle_handle[g])
    BY DEF QueueRegular, Regular, Fine, Reapable, Runner
  <2> QED BY <2>1 DEF OnTheMove
<1> QED BY <1>1, RegularInvariant, PTL

-----------------------------------------------------------------------------
(* The queue implements TurnAdmission.                                     *)

\* The limits of the two specifications are the same.
LEMMA SameLimits ==
    ASSUME NEW T, NEW L, InLimits(T, L)
    PROVE  Admission!WithinLimits(T, L)
<1>1. \A S : Admission!Cardinality(S) = Cardinality(S)
  BY Zenon DEF Cardinality, Admission!Cardinality
<1> QED BY <1>1 DEF InLimits, OfTenant, OfCoworker, Admission!WithinLimits

\* Every step of the queue is a step of TurnAdmission, or stutters.
LEMMA AdmittedStep ==
    ASSUME Admitted(queue, queue'), Fits(queue')
    PROVE  [Admission!Next]_<<Holding(queue), Live(queue)>>
<1> DEFINE T == Holding(queue)
           L == Live(queue)
<1>1. Admission!WithinLimits(Holding(queue'), Live(queue'))
  BY SameLimits DEF Fits
<1>2. Holding(queue)' = Holding(queue') /\ Live(queue)' = Live(queue')
  BY DEF Holding, Live
<1>3. ASSUME NEW g \in Groups, g \in L \ T,
             Holding(queue') = T \cup {g}, Live(queue') = L
      PROVE  Admission!Next
  <2>1. Admission!Resume(g)
    BY <1>1, <1>2, <1>3 DEF Admission!Resume
  <2> QED BY <2>1 DEF Admission!Next
<1>4. ASSUME NEW A, NEW B, StartedFrom(A, B, queue')
      PROVE  \E S \in SUBSET Groups : Admission!Start(A, B, S)
  BY <1>1, <1>2, <1>4 DEF StartedFrom, Admission!Start
<1>5. ASSUME NEW g \in Groups, StartedFrom(T \ {g}, L, queue')
      PROVE  Admission!Next
  <2>1. Admission!TurnEnds(g)
    BY <1>4, <1>5 DEF Admission!TurnEnds
  <2> QED BY <2>1 DEF Admission!Next
<1>6. ASSUME NEW g \in Groups, g \in L, StartedFrom(T \ {g}, L \ {g}, queue')
      PROVE  Admission!Next
  <2>1. Admission!ContainerExits(g)
    BY <1>4, <1>6 DEF Admission!ContainerExits
  <2> QED BY <2>1 DEF Admission!Next
<1>7. CASE Holding(queue') = T /\ Live(queue') = L
  BY <1>2, <1>7
<1> QED BY <1>3, <1>5, <1>6, <1>7 DEF Admitted

\* Every handler of the queue, with all the groups that its drain starts, is
\* one step of the abstract scheduler: one group starts, resumes, ends its turn
\* or exits, no other group loses anything, and no limit is passed.
THEOREM ImplementsTurnAdmission ==
    ASSUME Orphans = {}, MaxReaps = 0
    PROVE  Spec => RefinesTurnAdmission
<1>1. Init => Admission!Init
  BY DEF Init, Admission!Init, Holding, Live
<1>2. QueueRegular /\ [Next]_vars => [Admission!Next]_<<Holding(queue), Live(queue)>>
  <2> SUFFICES ASSUME QueueRegular, [Next]_vars
               PROVE  [Admission!Next]_<<Holding(queue), Live(queue)>>
    OBVIOUS
  <2>1. Regular(queue') /\ Admitted(queue, queue')
    BY StepRegular DEF QueueRegular
  <2> QED BY <2>1, AdmittedStep DEF Regular
<1> QED BY <1>1, <1>2, RegularInvariant, PTL DEF Spec, RefinesTurnAdmission, Admission!Spec

=============================================================================
