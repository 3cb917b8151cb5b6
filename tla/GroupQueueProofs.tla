-------------------------- MODULE GroupQueueProofs --------------------------
(***************************************************************************)
(* Proofs about GroupQueue, for any set of groups, jobs, tasks, approval   *)
(* requests, limits and bounds, with the reaper and restart adoption on:   *)
(* every attribute keeps its type, the counters of OrchestratorState count *)
(* the flags of the groups, and a turn slot is only held by a group with a *)
(* live container.                                                         *)
(*                                                                         *)
(* The first part shows that each operator of GroupQueueOps preserves Good *)
(* (types and balanced books).  Operators that leave the books alone are   *)
(* shown to return the same Books.  The second part has one lemma per      *)
(* group of actions, and the theorems.                                     *)
(***************************************************************************)
EXTENDS GroupQueue, FiniteSetTheorems, WellFoundedInduction, TLAPS

\* What the counters are about, and the counters.
Books(q) == <<q.active, q.slot_held, q.global_active, q.tenant_active,
              q.coworker_active, q.live_containers>>

Balanced(q) ==
    /\ q.global_active = Cardinality(Holding(q))
    /\ \A t \in Tenants :
         q.tenant_active[t] = Cardinality(OfTenant(Holding(q), t))
    /\ \A c \in Coworkers :
         q.coworker_active[c] = Cardinality(OfCoworker(Holding(q), c))
    /\ q.live_containers = Cardinality(Live(q))
    /\ Holding(q) \subseteq Live(q)

Good(q) == q \in QueueType /\ Balanced(q)

\* Sets of groups are finite, so that their cardinality is a number.
LEMMA GroupSets ==
    ASSUME NEW S, S \subseteq Groups
    PROVE  IsFiniteSet(S) /\ Cardinality(S) \in Nat
BY FS_Subset, FS_CardinalityType, QueueAssumptions

\* A non-empty set of positions has a first one.
LEMMA Least ==
    ASSUME NEW T, T \subseteq Nat, T # {}
    PROVE  \E i \in T : \A k \in T : i <= k
<1> DEFINE R == OpToRel(<, Nat)
<1>1. IsWellFoundedOn(R, Nat)
  BY NatLessThanWellFounded
<1>2. \A i, k \in Nat : i < k => <<i, k>> \in R
  BY DEF OpToRel
<1> HIDE DEF R
<1>3. \E i \in T : \A k \in T : ~(<<k, i>> \in R)
  BY <1>1, WFMin
<1>4. \E i \in T : \A k \in T : ~(k < i)
  BY <1>2, <1>3
<1> QED BY <1>4

\* A queue with the same books is as good, if it is well typed.
LEMMA SameBooks ==
    ASSUME NEW q, Good(q), NEW p \in QueueType, Books(p) = Books(q)
    PROVE  Good(p) /\ Live(p) = Live(q) /\ Holding(p) = Holding(q)
BY DEF Good, Balanced, Books, Live, Holding

-----------------------------------------------------------------------------
(* Slots.                                                                  *)

\* Groups that are added to a set are counted once (acquire), for the whole
\* set and for the part that a predicate selects.
LEMMA CountUnion ==
    ASSUME NEW A, NEW B, A \subseteq Groups, B \subseteq Groups
    PROVE  Cardinality(A \cup (B \ A)) = Cardinality(A) + Cardinality(B \ A)
<1>1. IsFiniteSet(A) /\ IsFiniteSet(B \ A) /\ A \cap (B \ A) = {}
  BY GroupSets
<1>2. Cardinality(A) \in Nat /\ Cardinality(B \ A) \in Nat
  BY GroupSets
<1>3. Cardinality(A \cup (B \ A)) =
        Cardinality(A) + Cardinality(B \ A) - Cardinality(A \cap (B \ A))
  BY <1>1, FS_Union
<1>4. Cardinality(A \cap (B \ A)) = 0
  BY <1>1, FS_EmptySet
<1> QED BY <1>2, <1>3, <1>4

\* A group that leaves a set is counted off once (release).
LEMMA CountRemove ==
    ASSUME NEW A, NEW g, A \subseteq Groups
    PROVE  /\ g \in A => /\ Cardinality(A \ {g}) = Cardinality(A) - 1
                         /\ AtLeastZero(Cardinality(A) - 1) = Cardinality(A) - 1
           /\ g \notin A => A \ {g} = A
<1>1. CASE g \in A
  <2>1. Cardinality(A \ {g}) = Cardinality(A) - 1
    BY <1>1, GroupSets, FS_RemoveElement
  <2>2. Cardinality(A) \in Nat /\ Cardinality(A \ {g}) \in Nat
    BY GroupSets
  <2> QED BY <1>1, <2>1, <2>2 DEF AtLeastZero
<1> QED BY <1>1

LEMMA AcquireTurnsType ==
    ASSUME NEW q \in QueueType, NEW S \in SUBSET Groups
    PROVE  /\ AcquireTurns(q, S) \in QueueType
           /\ Live(AcquireTurns(q, S)) = Live(q)
           /\ AcquireTurns(q, S).live_containers = q.live_containers
           /\ Holding(AcquireTurns(q, S)) = Holding(q) \cup (S \ Holding(q))
           /\ AcquireTurns(q, S).global_active =
                q.global_active + Cardinality(S \ Holding(q))
           /\ \A t \in Tenants : AcquireTurns(q, S).tenant_active[t] =
                q.tenant_active[t] + Cardinality(OfTenant(S \ Holding(q), t))
           /\ \A c \in Coworkers : AcquireTurns(q, S).coworker_active[c] =
                q.coworker_active[c] + Cardinality(OfCoworker(S \ Holding(q), c))
<1> DEFINE new == S \ Holding(q)
           held == [g \in Groups |-> q.slot_held[g] \/ g \in new]
           n == q.global_active + Cardinality(new)
           tenants == [t \in Tenants |->
                         q.tenant_active[t] + Cardinality(OfTenant(new, t))]
           coworkers == [c \in Coworkers |->
                           q.coworker_active[c] + Cardinality(OfCoworker(new, c))]
<1>1. new \subseteq Groups
  OBVIOUS
<1>2. \A t : OfTenant(new, t) \subseteq Groups /\ OfCoworker(new, t) \subseteq Groups
  BY <1>1 DEF OfTenant, OfCoworker
<1>3. AcquireTurns(q, S) =
        [q EXCEPT !.slot_held = held, !.global_active = n,
                  !.tenant_active = tenants, !.coworker_active = coworkers]
  BY DEF AcquireTurns
<1>4. \A g \in Groups : held[g] <=> q.slot_held[g] \/ g \in new
  OBVIOUS
<1> HIDE DEF new
<1>5. /\ Cardinality(new) \in Nat
      /\ \A t : Cardinality(OfTenant(new, t)) \in Nat
      /\ \A t : Cardinality(OfCoworker(new, t)) \in Nat
  BY <1>1, <1>2, GroupSets
<1>6. /\ q.slot_held \in [Groups -> BOOLEAN] /\ q.global_active \in Nat
      /\ q.tenant_active \in [Tenants -> Nat]
      /\ q.coworker_active \in [Coworkers -> Nat]
  BY DEF QueueType
<1>7. held \in [Groups -> BOOLEAN] /\ n \in Nat
  BY <1>5, <1>6
<1>8. tenants \in [Tenants -> Nat] /\ coworkers \in [Coworkers -> Nat]
  BY <1>5, <1>6
<1> DEFINE p == AcquireTurns(q, S)
<1>9. p = [q EXCEPT !.slot_held = held, !.global_active = n,
                    !.tenant_active = tenants, !.coworker_active = coworkers]
  BY <1>3
<1> HIDE DEF held, n, tenants, coworkers, p
<1>10. p \in QueueType
  BY <1>7, <1>8, <1>9 DEF QueueType
<1>11. p.active = q.active /\ p.live_containers = q.live_containers
  BY <1>9 DEF QueueType
<1>12. p.slot_held = held /\ p.global_active = n
  BY <1>9 DEF QueueType
<1>13. p.tenant_active = tenants /\ p.coworker_active = coworkers
  BY <1>9 DEF QueueType
<1>14. Live(p) = Live(q)
  BY <1>11 DEF Live
<1>15. Holding(p) = Holding(q) \cup new
  BY <1>1, <1>4, <1>12 DEF Holding
<1> QED BY <1>10, <1>11, <1>12, <1>13, <1>14, <1>15
        DEF p, new, n, tenants, coworkers

\* _acquire_turn for groups that have a container.
LEMMA AcquireTurnsGood ==
    ASSUME NEW q, Good(q), NEW S \in SUBSET Live(q)
    PROVE  /\ Good(AcquireTurns(q, S))
           /\ Live(AcquireTurns(q, S)) = Live(q)
           /\ Holding(AcquireTurns(q, S)) = Holding(q) \cup S
<1> DEFINE p == AcquireTurns(q, S)
           new == S \ Holding(q)
           H == Holding(q)
<1>1. q \in QueueType /\ S \in SUBSET Groups /\ H \subseteq Groups
  BY DEF Good, Live, Holding
<1>2. p \in QueueType /\ Live(p) = Live(q) /\ p.live_containers = q.live_containers
  BY <1>1, AcquireTurnsType
<1>3. Holding(p) = H \cup new /\ p.global_active = q.global_active + Cardinality(new)
  BY <1>1, AcquireTurnsType
<1>4. /\ \A t \in Tenants : p.tenant_active[t] =
            q.tenant_active[t] + Cardinality(OfTenant(new, t))
      /\ \A c \in Coworkers : p.coworker_active[c] =
            q.coworker_active[c] + Cardinality(OfCoworker(new, c))
  BY <1>1, AcquireTurnsType
<1> HIDE DEF p
<1>6. p.global_active = Cardinality(Holding(p))
  BY <1>1, <1>3, CountUnion DEF Good, Balanced
<1>7. ASSUME NEW t \in Tenants
      PROVE  p.tenant_active[t] = Cardinality(OfTenant(Holding(p), t))
  <2>1. /\ OfTenant(H \cup new, t) =
             OfTenant(H, t) \cup (OfTenant(S, t) \ OfTenant(H, t))
        /\ OfTenant(new, t) = OfTenant(S, t) \ OfTenant(H, t)
        /\ OfTenant(H, t) \subseteq Groups /\ OfTenant(S, t) \subseteq Groups
    BY <1>1 DEF OfTenant
  <2>2. q.tenant_active[t] = Cardinality(OfTenant(H, t))
    BY DEF Good, Balanced
  <2>3. Cardinality(OfTenant(H \cup new, t)) =
          Cardinality(OfTenant(H, t)) + Cardinality(OfTenant(new, t))
    BY <2>1, CountUnion
  <2> QED BY <1>3, <1>4, <2>2, <2>3
<1>8. ASSUME NEW c \in Coworkers
      PROVE  p.coworker_active[c] = Cardinality(OfCoworker(Holding(p), c))
  <2>1. /\ OfCoworker(H \cup new, c) =
             OfCoworker(H, c) \cup (OfCoworker(S, c) \ OfCoworker(H, c))
        /\ OfCoworker(new, c) = OfCoworker(S, c) \ OfCoworker(H, c)
        /\ OfCoworker(H, c) \subseteq Groups /\ OfCoworker(S, c) \subseteq Groups
    BY <1>1 DEF OfCoworker
  <2>2. q.coworker_active[c] = Cardinality(OfCoworker(H, c))
    BY DEF Good, Balanced
  <2>3. Cardinality(OfCoworker(H \cup new, c)) =
          Cardinality(OfCoworker(H, c)) + Cardinality(OfCoworker(new, c))
    BY <2>1, CountUnion
  <2> QED BY <1>3, <1>4, <2>2, <2>3
<1>9. Holding(p) \subseteq Live(p) /\ p.live_containers = Cardinality(Live(p))
  BY <1>2, <1>3 DEF Good, Balanced
<1>10. Good(p)
  BY <1>2, <1>6, <1>7, <1>8, <1>9 DEF Good, Balanced
<1> QED BY <1>2, <1>3, <1>10 DEF p

\* _release_turn.
LEMMA ReleaseTurnGood ==
    ASSUME NEW q, Good(q), NEW g \in Groups
    PROVE  /\ Good(ReleaseTurn(q, g))
           /\ Live(ReleaseTurn(q, g)) = Live(q)
           /\ Holding(ReleaseTurn(q, g)) = Holding(q) \ {g}
<1> DEFINE H == Holding(q)
<1>1. q \in QueueType /\ H \subseteq Groups
  BY DEF Good, Holding
<1>2. CASE ~q.slot_held[g]
  <2>1. g \notin H /\ H \ {g} = H
    BY <1>2 DEF Holding
  <2>2. ReleaseTurn(q, g) = q
    BY <1>2 DEF ReleaseTurn
  <2> QED BY <2>1, <2>2
<1>3. CASE q.slot_held[g]
  <2> DEFINE p == ReleaseTurn(q, g)
             held == [q.slot_held EXCEPT ![g] = FALSE]
             n == AtLeastZero(q.global_active - 1)
             tenants == [q.tenant_active EXCEPT ![TenantOf[g]] = AtLeastZero(@ - 1)]
             coworkers ==
                 [q.coworker_active EXCEPT ![CoworkerOf[g]] = AtLeastZero(@ - 1)]
  <2>1. p = [q EXCEPT !.slot_held = held, !.global_active = n,
                      !.tenant_active = tenants, !.coworker_active = coworkers]
    BY <1>1, <1>3 DEF ReleaseTurn, DecrementActive, QueueType
  <2>2. /\ q.slot_held \in [Groups -> BOOLEAN] /\ q.global_active \in Nat
        /\ q.tenant_active \in [Tenants -> Nat]
        /\ q.coworker_active \in [Coworkers -> Nat]
    BY <1>1 DEF QueueType
  <2>3. /\ held \in [Groups -> BOOLEAN] /\ n \in Nat
        /\ tenants \in [Tenants -> Nat] /\ coworkers \in [Coworkers -> Nat]
    BY <2>2, QueueAssumptions DEF AtLeastZero
  <2>4. TenantOf[g] \in Tenants /\ CoworkerOf[g] \in Coworkers
    BY QueueAssumptions
  <2>5. {h \in Groups : held[h]} = H \ {g}
    BY <2>2 DEF Holding
  <2>6. g \in H
    BY <1>3 DEF Holding
  <2> HIDE DEF p, held, n, tenants, coworkers
  <2>7. p \in QueueType
    BY <1>1, <2>1, <2>3 DEF QueueType
  <2>8. p.active = q.active /\ p.live_containers = q.live_containers
    BY <1>1, <2>1 DEF QueueType
  <2>9. p.slot_held = held /\ p.global_active = n
    BY <1>1, <2>1 DEF QueueType
  <2>10. p.tenant_active = tenants /\ p.coworker_active = coworkers
    BY <1>1, <2>1 DEF QueueType
  <2>11. Live(p) = Live(q)
    BY <2>8 DEF Live
  <2>12. Holding(p) = H \ {g}
    BY <2>5, <2>9 DEF Holding
  <2>13. p.global_active = Cardinality(Holding(p))
    BY <1>1, <2>6, <2>9, <2>12, CountRemove DEF n, Good, Balanced
  <2>14. ASSUME NEW t \in Tenants
         PROVE  p.tenant_active[t] = Cardinality(OfTenant(Holding(p), t))
    <3>1. q.tenant_active[t] = Cardinality(OfTenant(H, t))
      BY DEF Good, Balanced
    <3>2. OfTenant(H, t) \subseteq Groups
      BY <1>1 DEF OfTenant
    <3>3. CASE t = TenantOf[g]
      <4>1. OfTenant(H \ {g}, t) = OfTenant(H, t) \ {g} /\ g \in OfTenant(H, t)
        BY <2>6, <3>3 DEF OfTenant
      <4>2. tenants[t] = AtLeastZero(q.tenant_active[t] - 1)
        BY <2>2, <3>3 DEF tenants
      <4>3. Cardinality(OfTenant(H, t) \ {g}) = AtLeastZero(Cardinality(OfTenant(H, t)) - 1)
        BY <3>2, <4>1, CountRemove
      <4> QED BY <2>10, <2>12, <3>1, <4>1, <4>2, <4>3
    <3>4. CASE t # TenantOf[g]
      <4>1. OfTenant(H \ {g}, t) = OfTenant(H, t)
        BY <3>4 DEF OfTenant
      <4>2. tenants[t] = q.tenant_active[t]
        BY <2>2, <3>4 DEF tenants
      <4> QED BY <2>10, <2>12, <3>1, <4>1, <4>2
    <3> QED BY <3>3, <3>4
  <2>15. ASSUME NEW c \in Coworkers
         PROVE  p.coworker_active[c] = Cardinality(OfCoworker(Holding(p), c))
    <3>1. q.coworker_active[c] = Cardinality(OfCoworker(H, c))
      BY DEF Good, Balanced
    <3>2. OfCoworker(H, c) \subseteq Groups
      BY <1>1 DEF OfCoworker
    <3>3. CASE c = CoworkerOf[g]
      <4>1. OfCoworker(H \ {g}, c) = OfCoworker(H, c) \ {g} /\ g \in OfCoworker(H, c)
        BY <2>6, <3>3 DEF OfCoworker
      <4>2. coworkers[c] = AtLeastZero(q.coworker_active[c] - 1)
        BY <2>2, <3>3 DEF coworkers
      <4>3. Cardinality(OfCoworker(H, c) \ {g}) = AtLeastZero(Cardinality(OfCoworker(H, c)) - 1)
        BY <3>2, <4>1, CountRemove
      <4> QED BY <2>10, <2>12, <3>1, <4>1, <4>2, <4>3
    <3>4. CASE c # CoworkerOf[g]
      <4>1. OfCoworker(H \ {g}, c) = OfCoworker(H, c)
        BY <3>4 DEF OfCoworker
      <4>2. coworkers[c] = q.coworker_active[c]
        BY <2>2, <3>4 DEF coworkers
      <4> QED BY <2>10, <2>12, <3>1, <4>1, <4>2
    <3> QED BY <3>3, <3>4
  <2>16. Holding(p) \subseteq Live(p) /\ p.live_containers = Cardinality(Live(p))
    BY <2>8, <2>11, <2>12 DEF Good, Balanced
  <2>17. Good(p)
    BY <2>7, <2>13, <2>14, <2>15, <2>16 DEF Good, Balanced
  <2> QED BY <2>11, <2>12, <2>17 DEF p
<1> QED BY <1>2, <1>3

\* _acquire_container, for each group of S.
LEMMA AcquireContainersGood ==
    ASSUME NEW q, Good(q), NEW S \in SUBSET Groups
    PROVE  /\ Good(AcquireContainers(q, S))
           /\ Live(AcquireContainers(q, S)) = Live(q) \cup S
           /\ Holding(AcquireContainers(q, S)) = Holding(q)
<1> DEFINE new == S \ Live(q)
           act == [g \in Groups |-> q.active[g] \/ g \in new]
           n == q.live_containers + Cardinality(new)
           p == AcquireContainers(q, S)
<1>1. q \in QueueType /\ Live(q) \subseteq Groups /\ new \subseteq Groups
  BY DEF Good, Live
<1>2. p = [q EXCEPT !.active = act, !.live_containers = n]
  BY DEF AcquireContainers
<1>3. q.active \in [Groups -> BOOLEAN] /\ q.live_containers \in Nat
  BY <1>1 DEF QueueType
<1>4. {g \in Groups : act[g]} = Live(q) \cup new
  BY <1>1, <1>3 DEF Live
<1>5. Cardinality(new) \in Nat
  BY <1>1, GroupSets
<1>6. act \in [Groups -> BOOLEAN] /\ n \in Nat
  BY <1>3, <1>5
<1> HIDE DEF act, n, p
<1>7. p \in QueueType
  BY <1>1, <1>2, <1>6 DEF QueueType
<1>8. p.active = act /\ p.live_containers = n /\ p.slot_held = q.slot_held
  BY <1>1, <1>2 DEF QueueType
<1>9. /\ p.global_active = q.global_active /\ p.tenant_active = q.tenant_active
      /\ p.coworker_active = q.coworker_active
  BY <1>1, <1>2 DEF QueueType
<1>10. Live(p) = Live(q) \cup new /\ Holding(p) = Holding(q)
  BY <1>4, <1>8 DEF Live, Holding
<1>11. p.live_containers = Cardinality(Live(p))
  BY <1>1, <1>8, <1>10, CountUnion DEF n, Good, Balanced
<1>12. Good(p)
  BY <1>7, <1>9, <1>10, <1>11 DEF Good, Balanced
<1> QED BY <1>10, <1>12 DEF p

\* _release_container, once the turn slot is given back.
LEMMA ReleaseContainerGood ==
    ASSUME NEW q, Good(q), NEW g \in Groups, g \notin Holding(q)
    PROVE  /\ Good(ReleaseContainer(q, g))
           /\ Live(ReleaseContainer(q, g)) = Live(q) \ {g}
           /\ Holding(ReleaseContainer(q, g)) = Holding(q)
<1>1. q \in QueueType /\ Live(q) \subseteq Groups
  BY DEF Good, Live
<1>2. CASE ~q.active[g]
  <2>1. Live(q) \ {g} = Live(q) /\ ReleaseContainer(q, g) = q
    BY <1>2 DEF ReleaseContainer, Live
  <2> QED BY <2>1
<1>3. CASE q.active[g]
  <2> DEFINE p == ReleaseContainer(q, g)
             act == [q.active EXCEPT ![g] = FALSE]
             n == AtLeastZero(q.live_containers - 1)
  <2>1. p = [q EXCEPT !.active = act, !.live_containers = n]
    BY <1>3 DEF ReleaseContainer
  <2>2. q.active \in [Groups -> BOOLEAN] /\ q.live_containers \in Nat
    BY <1>1 DEF QueueType
  <2>3. act \in [Groups -> BOOLEAN] /\ n \in Nat
    BY <2>2 DEF AtLeastZero
  <2>4. {h \in Groups : act[h]} = Live(q) \ {g} /\ g \in Live(q)
    BY <1>3, <2>2 DEF Live
  <2> HIDE DEF act, n, p
  <2>5. p \in QueueType
    BY <1>1, <2>1, <2>3 DEF QueueType
  <2>6. p.active = act /\ p.live_containers = n /\ p.slot_held = q.slot_held
    BY <1>1, <2>1 DEF QueueType
  <2>7. /\ p.global_active = q.global_active /\ p.tenant_active = q.tenant_active
        /\ p.coworker_active = q.coworker_active
    BY <1>1, <2>1 DEF QueueType
  <2>8. Live(p) = Live(q) \ {g} /\ Holding(p) = Holding(q)
    BY <2>4, <2>6 DEF Live, Holding
  <2>9. p.live_containers = Cardinality(Live(p))
    BY <1>1, <2>4, <2>6, <2>8, CountRemove DEF n, Good, Balanced
  <2>10. Good(p)
    BY <2>5, <2>7, <2>8, <2>9 DEF Good, Balanced
  <2> QED BY <2>8, <2>10 DEF p
<1> QED BY <1>2, <1>3

\* _reserve_slot, for each group of S.
LEMMA ReserveSlotsGood ==
    ASSUME NEW q, Good(q), NEW S \in SUBSET Groups
    PROVE  /\ Good(ReserveSlots(q, S))
           /\ Live(ReserveSlots(q, S)) = Live(q) \cup S
           /\ Holding(ReserveSlots(q, S)) = Holding(q) \cup S
<1> DEFINE r == AcquireContainers(q, S)
           busy == [g \in Groups |-> q.processing[g] \/ g \in S]
           p == [r EXCEPT !.processing = busy]
<1>1. Good(r) /\ Live(r) = Live(q) \cup S /\ Holding(r) = Holding(q)
  BY AcquireContainersGood
<1>2. busy \in [Groups -> BOOLEAN]
  OBVIOUS
<1>3. ReserveSlots(q, S) = AcquireTurns(p, S)
  BY DEF ReserveSlots
<1> HIDE DEF r, busy
<1>4. p \in QueueType /\ Books(p) = Books(r)
  BY <1>1, <1>2 DEF Good, QueueType, Books
<1>5. Good(p) /\ Live(p) = Live(q) \cup S /\ Holding(p) = Holding(q)
  BY <1>1, <1>4, SameBooks
<1> HIDE DEF p
<1> QED BY <1>3, <1>5, AcquireTurnsGood

-----------------------------------------------------------------------------
(* Operators that do not touch the books.                                  *)

LEMMA SetRunner ==
    ASSUME NEW q \in QueueType, NEW g \in Groups, NEW j \in Jobs,
           NEW r \in RunnerType
    PROVE  /\ [q EXCEPT !.runner[g][j] = r] \in QueueType
           /\ Books([q EXCEPT !.runner[g][j] = r]) = Books(q)
BY DEF QueueType, Books

LEMMA SpawnQuiet ==
    ASSUME NEW q \in QueueType, NEW g \in Groups, NEW t \in Tasks \cup {NoTask}
    PROVE  Spawn(q, g, t) \in QueueType /\ Books(Spawn(q, g, t)) = Books(q)
<1>1. NewRunner(t) \in RunnerType
  BY DEF NewRunner, NoRunner, RunnerType
<1> DEFINE runners == [q.runner EXCEPT ![g][FreeJob(q, g)] = NewRunner(t)]
<1>2. runners \in [Groups -> [Jobs -> RunnerType]]
  BY <1>1 DEF QueueType
<1> DEFINE p == Spawn(q, g, t)
<1>3. p = [q EXCEPT !.runner = runners]
  BY DEF Spawn
<1> HIDE DEF runners, p
<1>4. p \in QueueType /\ Books(p) = Books(q)
  BY <1>2, <1>3 DEF QueueType, Books
<1> QED BY <1>4 DEF p

LEMMA AppendWaitingQuiet ==
    ASSUME NEW q \in QueueType, NEW g \in Groups
    PROVE  AppendWaiting(q, g) \in QueueType /\ Books(AppendWaiting(q, g)) = Books(q)
<1> DEFINE list == Append(q.waiting, g)
           p == [q EXCEPT !.waiting = list]
<1>1. list \in Seq(Groups)
  BY DEF QueueType
<1>2. AppendWaiting(q, g) = q \/ AppendWaiting(q, g) = p
  BY DEF AppendWaiting
<1> HIDE DEF list
<1>3. p \in QueueType /\ Books(p) = Books(q)
  BY <1>1 DEF QueueType, Books
<1> QED BY <1>2, <1>3

LEMMA WarmPopQuiet ==
    ASSUME NEW q \in QueueType, NEW g \in Groups
    PROVE  WarmPop(q, g) \in QueueType /\ Books(WarmPop(q, g)) = Books(q)
<1> DEFINE i == CHOOSE i \in DOMAIN q.warm : q.warm[i] = g
           rest == RemoveAt(q.warm, i)
<1>1. CASE \E k \in DOMAIN q.warm : q.warm[k] = g
  <2>1. i \in DOMAIN q.warm
    BY <1>1
  <2>2. q.warm \in Seq(Groups)
    BY DEF QueueType
  <2> HIDE DEF i
  <2>3. rest \in Seq(Groups)
    BY <2>1, <2>2 DEF RemoveAt
  <2>4. WarmPop(q, g) = [q EXCEPT !.warm = rest]
    BY <1>1 DEF WarmPop, i
  <2> HIDE DEF rest
  <2> QED BY <2>3, <2>4 DEF QueueType, Books
<1>2. CASE ~\E k \in DOMAIN q.warm : q.warm[k] = g
  BY <1>2 DEF WarmPop
<1> QED BY <1>1, <1>2

LEMMA WarmPushQuiet ==
    ASSUME NEW q \in QueueType, NEW g \in Groups
    PROVE  WarmPush(q, g) \in QueueType /\ Books(WarmPush(q, g)) = Books(q)
<1> DEFINE p == WarmPop(q, g)
<1>1. p \in QueueType /\ Books(p) = Books(q)
  BY WarmPopQuiet
<1> DEFINE list == Append(p.warm, g)
           r == WarmPush(q, g)
<1>2. r = [p EXCEPT !.warm = list]
  BY DEF WarmPush
<1> HIDE DEF p, r
<1>3. list \in Seq(Groups)
  BY <1>1 DEF QueueType
<1> HIDE DEF list
<1>4. r \in QueueType /\ Books(r) = Books(p)
  BY <1>1, <1>2, <1>3 DEF QueueType, Books
<1> QED BY <1>1, <1>4 DEF r

LEMMA RequestShutdownQuiet ==
    ASSUME NEW q \in QueueType, NEW g \in Groups
    PROVE  /\ RequestShutdown(q, g) \in QueueType
           /\ Books(RequestShutdown(q, g)) = Books(q)
<1>1. CASE q.active[g] /\ q.job[g] # NoJob
  <2> DEFINE j == q.job[g]
             r == q.runner[g][j]
             stop == r.phase \in {"up", "orphan"}
  <2>1. stop \in BOOLEAN
    OBVIOUS
  <2>2. j \in Jobs
    BY <1>1 DEF QueueType
  <2>3. r \in RunnerType
    BY <2>2 DEF QueueType
  <2>4. RequestShutdown(q, g) = [q EXCEPT !.runner[g][j].stop = stop]
    BY <1>1 DEF RequestShutdown
  <2> HIDE DEF stop, j
  <2>5. [q EXCEPT !.runner[g][j].stop = stop] =
            [q EXCEPT !.runner[g][j] = [r EXCEPT !.stop = stop]]
    OBVIOUS
  <2> HIDE DEF r
  <2>6. [r EXCEPT !.stop = stop] \in RunnerType
    BY <2>1, <2>3 DEF RunnerType
  <2> QED BY <2>2, <2>4, <2>5, <2>6, SetRunner
<1> QED BY <1>1 DEF RequestShutdown

LEMMA EvictQuiet ==
    ASSUME NEW q \in QueueType, NEW g \in Groups
    PROVE  /\ EvictIfLiveBound(q, g) \in QueueType
           /\ Books(EvictIfLiveBound(q, g)) = Books(q)
<1> DEFINE first == CHOOSE i \in Evictable(q) : \A k \in Evictable(q) : i <= k
<1>1. EvictLruWarm(q) \in QueueType /\ Books(EvictLruWarm(q)) = Books(q)
  <2>1. CASE Evictable(q) = {}
    BY <2>1 DEF EvictLruWarm
  <2>2. CASE Evictable(q) # {}
    <3>1. q.warm \in Seq(Groups) /\ Evictable(q) \subseteq DOMAIN q.warm
      BY DEF Evictable, QueueType
    <3>2. Evictable(q) \subseteq Nat
      BY <3>1
    <3>3. first \in Evictable(q)
      BY <2>2, <3>2, Least
    <3> HIDE DEF first
    <3>4. q.warm[first] \in Groups
      BY <3>1, <3>3
    <3> QED BY <2>2, <3>4, RequestShutdownQuiet DEF EvictLruWarm, first
  <2> QED BY <2>1, <2>2
<1> QED BY <1>1 DEF EvictIfLiveBound

LEMMA CancelIdleTimerQuiet ==
    ASSUME NEW q \in QueueType, NEW g \in Groups
    PROVE  /\ CancelIdleTimer(q, g) \in QueueType
           /\ Books(CancelIdleTimer(q, g)) = Books(q)
BY DEF CancelIdleTimer, QueueType, Books

LEMMA ArmIdleTimerQuiet ==
    ASSUME NEW q \in QueueType, NEW g \in Groups
    PROVE  ArmIdleTimer(q, g) \in QueueType /\ Books(ArmIdleTimer(q, g)) = Books(q)
<1> DEFINE h == IF q.awaiting_approval[g] # {} \/ q.processing[g] THEN "off"
                ELSE IF q.adopted[g] THEN "reap_adopted"
                ELSE "request_shutdown"
<1>1. h \in {"off", "request_shutdown", "reap_adopted"}
  OBVIOUS
<1> DEFINE p == ArmIdleTimer(q, g)
<1>2. p = [q EXCEPT !.idle_handle[g] = h]
  BY DEF ArmIdleTimer
<1> HIDE DEF h, p
<1>3. p \in QueueType /\ Books(p) = Books(q)
  BY <1>1, <1>2 DEF QueueType, Books
<1> QED BY <1>3 DEF p

LEMMA SuspendQuiet ==
    ASSUME NEW q \in QueueType, NEW g \in Groups, NEW r \in Requests
    PROVE  /\ SuspendForApproval(q, g, r) \in QueueType
           /\ Books(SuspendForApproval(q, g, r)) = Books(q)
<1> DEFINE p == CancelIdleTimer(q, g)
<1>1. p \in QueueType /\ Books(p) = Books(q)
  BY CancelIdleTimerQuiet
<1> DEFINE pending == [p.awaiting_approval EXCEPT ![g] = @ \cup {r}]
           s == SuspendForApproval(q, g, r)
<1>2. s = [p EXCEPT !.idle_waiting[g] = FALSE, !.awaiting_approval = pending]
  BY DEF SuspendForApproval
<1> HIDE DEF p, s
<1>3. pending \in [Groups -> SUBSET Requests]
  BY <1>1 DEF QueueType
<1> HIDE DEF pending
<1>4. s \in QueueType /\ Books(s) = Books(p)
  BY <1>1, <1>2, <1>3 DEF QueueType, Books
<1> QED BY <1>1, <1>4 DEF s

LEMMA ResumeQuiet ==
    ASSUME NEW q \in QueueType, NEW g \in Groups, NEW r \in Requests
    PROVE  /\ ResumeFromApproval(q, g, r) \in QueueType
           /\ Books(ResumeFromApproval(q, g, r)) = Books(q)
<1> DEFINE p == [q EXCEPT !.awaiting_approval[g] = @ \ {r}]
<1>1. p \in QueueType /\ Books(p) = Books(q)
  BY DEF QueueType, Books
<1>2. ResumeFromApproval(q, g, r) \in {q, p, ArmIdleTimer(p, g)}
  BY DEF ResumeFromApproval
<1> HIDE DEF p
<1> QED BY <1>1, <1>2, ArmIdleTimerQuiet

LEMMA ScheduleRetryQuiet ==
    ASSUME NEW q \in QueueType, NEW g \in Groups
    PROVE  ScheduleRetry(q, g) \in QueueType /\ Books(ScheduleRetry(q, g)) = Books(q)
<1>1. [q EXCEPT !.retry_count[g] = 0] \in QueueType
      /\ Books([q EXCEPT !.retry_count[g] = 0]) = Books(q)
  BY DEF QueueType, Books
<1>2. q.retry_count[g] \in Nat /\ q.retry_timers[g] \in Nat
  BY DEF QueueType
<1> DEFINE n == q.retry_count[g] + 1
           m == q.retry_timers[g] + 1
<1>3. n \in Nat /\ m \in Nat
  BY <1>2
<1> HIDE DEF n, m
<1>4. [q EXCEPT !.retry_count[g] = n, !.retry_timers[g] = m] \in QueueType
      /\ Books([q EXCEPT !.retry_count[g] = n, !.retry_timers[g] = m]) = Books(q)
  BY <1>3 DEF QueueType, Books
<1> QED BY <1>1, <1>4 DEF ScheduleRetry, n, m

-----------------------------------------------------------------------------
(* Starting work and draining.                                             *)

LEMMA StartPendingGood ==
    ASSUME NEW q, Good(q), NEW S \in SUBSET Groups
    PROVE  Good(StartPending(q, S))
<1> DEFINE r == ReserveSlots(q, S)
           next(g) == IF q.pending_tasks[g] # <<>> THEN Head(q.pending_tasks[g])
                                                   ELSE NoTask
           tasks == [g \in Groups |->
              IF g \in S /\ q.pending_tasks[g] # <<>>
              THEN Tail(q.pending_tasks[g]) ELSE q.pending_tasks[g]]
           runners == [g \in Groups |->
              IF g \in S
              THEN [q.runner[g] EXCEPT ![FreeJob(q, g)] = NewRunner(next(g))]
              ELSE q.runner[g]]
           p == StartPending(q, S)
<1>1. Good(r)
  BY ReserveSlotsGood
<1>2. /\ q.pending_tasks \in [Groups -> Seq(Tasks)]
      /\ q.runner \in [Groups -> [Jobs -> RunnerType]]
  BY DEF Good, QueueType
<1>3. tasks \in [Groups -> Seq(Tasks)]
  BY <1>2
<1>4. \A g \in Groups : next(g) \in Tasks \cup {NoTask}
  BY <1>2
<1>5. p = [r EXCEPT !.pending_tasks = tasks, !.runner = runners]
  BY DEF StartPending
<1> HIDE DEF next, r, tasks, p
<1>6. \A g \in Groups : NewRunner(next(g)) \in RunnerType
  BY <1>4 DEF NewRunner, NoRunner, RunnerType
<1>7. runners \in [Groups -> [Jobs -> RunnerType]]
  BY <1>2, <1>6
<1> HIDE DEF runners
<1>8. p \in QueueType /\ Books(p) = Books(r)
  BY <1>1, <1>3, <1>5, <1>7 DEF Good, QueueType, Books
<1>9. Good(p)
  BY <1>1, <1>8, SameBooks
<1> QED BY <1>9 DEF p

LEMMA DrainWaitingGood ==
    ASSUME NEW q, Good(q), NEW p \in DrainWaiting(q)
    PROVE  Good(p)
<1>0. PICK A \in SUBSET Waiting(q) : \E w \in InOrder(q, Remaining(q, A)) :
         p = [StartPending(q, A) EXCEPT !.waiting = w]
  BY DEF DrainWaiting
<1>1. PICK w \in InOrder(q, Remaining(q, A)) :
         p = [StartPending(q, A) EXCEPT !.waiting = w]
  BY <1>0
<1> DEFINE r == StartPending(q, A)
           R == Remaining(q, A)
<1>2. A \in SUBSET Groups /\ R \subseteq Groups
  BY DEF Waiting, Remaining
<1>3. Good(r)
  BY <1>2, StartPendingGood
<1>4. Cardinality(R) \in Nat
  BY <1>2, GroupSets
<1>5. w \in [1..Cardinality(R) -> R]
  BY DEF InOrder, SetToSeqs
<1>6. w \in Seq(Groups)
  BY <1>2, <1>4, <1>5
<1>7. p = [r EXCEPT !.waiting = w]
  BY <1>1
<1> HIDE DEF r
<1>8. p \in QueueType /\ Books(p) = Books(r)
  BY <1>3, <1>6, <1>7 DEF Good, QueueType, Books
<1> QED BY <1>3, <1>8, SameBooks

LEMMA DrainGroupGood ==
    ASSUME NEW q, Good(q), NEW g \in Groups, NEW p \in DrainGroup(q, g)
    PROVE  Good(p)
<1>1. Good(StartPending(q, {g}))
  BY StartPendingGood
<1>2. Good(AppendWaiting(q, g))
  BY AppendWaitingQuiet, SameBooks DEF Good
<1>3. \/ p = q
      \/ p = StartPending(q, {g})
      \/ p \in DrainWaiting(AppendWaiting(q, g))
      \/ p \in DrainWaiting(q)
  BY DEF DrainGroup
<1> QED BY <1>1, <1>2, <1>3, DrainWaitingGood

LEMMA ColdStartGood ==
    ASSUME NEW q, Good(q), NEW g \in Groups, NEW t \in Tasks \cup {NoTask}
    PROVE  Good(Spawn(ReserveSlots(q, {g}), g, t))
<1>1. Good(ReserveSlots(q, {g}))
  BY ReserveSlotsGood
<1> QED BY <1>1, SpawnQuiet, SameBooks DEF Good

LEMMA QueueUpGood ==
    ASSUME NEW q, Good(q), NEW g \in Groups
    PROVE  Good(EvictIfLiveBound(AppendWaiting(q, g), g))
<1>1. Good(AppendWaiting(q, g))
  BY AppendWaitingQuiet, SameBooks DEF Good
<1> QED BY <1>1, EvictQuiet, SameBooks DEF Good

LEMMA EnqueueMessageCheckGood ==
    ASSUME NEW q, Good(q), NEW g \in Groups
    PROVE  Good(EnqueueMessageCheck(q, g))
<1> DEFINE p == [q EXCEPT !.pending_messages[g] = TRUE]
<1>1. p \in QueueType /\ Books(p) = Books(q)
  BY DEF Good, QueueType, Books
<1>2. Good(p)
  BY <1>1, SameBooks
<1>3. \/ EnqueueMessageCheck(q, g) = q
      \/ EnqueueMessageCheck(q, g) = p
      \/ EnqueueMessageCheck(q, g) = EvictIfLiveBound(AppendWaiting(p, g), g)
      \/ EnqueueMessageCheck(q, g) = Spawn(ReserveSlots(q, {g}), g, NoTask)
  BY DEF EnqueueMessageCheck
<1> HIDE DEF p
<1> QED BY <1>2, <1>3, QueueUpGood, ColdStartGood

LEMMA EnqueueTaskGood ==
    ASSUME NEW q, Good(q), NEW g \in Groups, NEW t \in Tasks
    PROVE  Good(EnqueueTask(q, g, t))
<1> DEFINE list == [q.pending_tasks EXCEPT ![g] = Append(@, t)]
           p == [q EXCEPT !.pending_tasks = list]
<1>1. list \in [Groups -> Seq(Tasks)]
  BY DEF Good, QueueType
<1>2. \/ EnqueueTask(q, g, t) = q
      \/ EnqueueTask(q, g, t) = p
      \/ EnqueueTask(q, g, t) = RequestShutdown(p, g)
      \/ EnqueueTask(q, g, t) = EvictIfLiveBound(AppendWaiting(p, g), g)
      \/ EnqueueTask(q, g, t) = Spawn(ReserveSlots(q, {g}), g, t)
  BY DEF EnqueueTask
<1> HIDE DEF list
<1>3. p \in QueueType /\ Books(p) = Books(q)
  BY <1>1 DEF Good, QueueType, Books
<1> HIDE DEF p
<1>4. Good(p)
  BY <1>3, SameBooks
<1>5. Good(RequestShutdown(p, g))
  BY <1>4, RequestShutdownQuiet, SameBooks DEF Good
<1> QED BY <1>2, <1>4, <1>5, QueueUpGood, ColdStartGood

-----------------------------------------------------------------------------
(* The end of a turn, a resumed turn, and the coroutines.                  *)

LEMMA NotifyIdleGood ==
    ASSUME NEW q, Good(q), NEW g \in Groups, NEW p \in NotifyIdle(q, g)
    PROVE  Good(p)
<1> DEFINE free == ReleaseTurn(q, g)
           rested == [free EXCEPT !.processing[g] = FALSE, !.idle_waiting[g] = TRUE]
           pooled == IF q.active[g] /\ ~q.is_task_container[g]
                     THEN WarmPush(rested, g) ELSE rested
           ended == IF q.pending_tasks[g] # <<>>
                    THEN RequestShutdown(pooled, g) ELSE ArmIdleTimer(pooled, g)
<1>1. Good(free)
  BY ReleaseTurnGood
<1>2. p = q \/ p \in DrainWaiting(ended)
  BY DEF NotifyIdle
<1> HIDE DEF free
<1>3. rested \in QueueType /\ Books(rested) = Books(free)
  BY <1>1 DEF Good, QueueType, Books
<1>4. Good(rested)
  BY <1>1, <1>3, SameBooks
<1> HIDE DEF rested
<1>5. Good(pooled)
  BY <1>4, WarmPushQuiet, SameBooks DEF Good
<1> HIDE DEF pooled
<1>6. Good(ended)
  BY <1>5, RequestShutdownQuiet, ArmIdleTimerQuiet, SameBooks DEF Good
<1> HIDE DEF ended
<1> QED BY <1>2, <1>6, DrainWaitingGood

LEMMA SendMessageGood ==
    ASSUME NEW q, Good(q), NEW g \in Groups, Deliverable(q, g)
    PROVE  Good(SendMessage(q, g))
<1> DEFINE warm == WarmPop(CancelIdleTimer(q, g), g)
           turn == AcquireTurns(warm, {g})
           resumed == IF q.processing[g] THEN q
                      ELSE [turn EXCEPT !.processing[g] = TRUE]
           j == q.job[g]
           p == [resumed EXCEPT !.idle_waiting[g] = FALSE]
           r == p.runner[g][j]
           input == r.input \/ q.runner[g][j].phase \in {"up", "orphan"}
<1>1. q \in QueueType /\ q.active[g] /\ j \in Jobs
  BY DEF Good, Deliverable, QueueType
<1>2. CancelIdleTimer(q, g) \in QueueType
      /\ Books(CancelIdleTimer(q, g)) = Books(q)
  BY <1>1, CancelIdleTimerQuiet
<1>3. warm \in QueueType /\ Books(warm) = Books(q)
  BY <1>2, WarmPopQuiet
<1>4. Good(warm) /\ Live(warm) = Live(q)
  BY <1>3, SameBooks
<1> HIDE DEF warm
<1>5. {g} \in SUBSET Live(warm)
  BY <1>1, <1>4 DEF Live
<1>6. Good(turn)
  BY <1>4, <1>5, AcquireTurnsGood
<1> HIDE DEF turn
<1>7. [turn EXCEPT !.processing[g] = TRUE] \in QueueType
      /\ Books([turn EXCEPT !.processing[g] = TRUE]) = Books(turn)
  BY <1>6 DEF Good, QueueType, Books
<1>8. Good(resumed)
  BY <1>6, <1>7, SameBooks
<1>9. SendMessage(q, g) = [p EXCEPT !.runner[g][j].input = input]
  BY DEF SendMessage, warm, turn
<1> HIDE DEF resumed, j
<1>10. p \in QueueType /\ Books(p) = Books(resumed)
  BY <1>8 DEF Good, QueueType, Books
<1> HIDE DEF p
<1>11. r \in RunnerType
  BY <1>1, <1>10 DEF QueueType
<1>12. input \in BOOLEAN
  BY <1>11 DEF RunnerType
<1> HIDE DEF input
<1>13. SendMessage(q, g) = [p EXCEPT !.runner[g][j] = [r EXCEPT !.input = input]]
  BY <1>9
<1> HIDE DEF r
<1>14. [r EXCEPT !.input = input] \in RunnerType
  BY <1>11, <1>12 DEF RunnerType
<1>15. Good(p)
  BY <1>8, <1>10, SameBooks
<1>16. SendMessage(q, g) \in QueueType /\ Books(SendMessage(q, g)) = Books(p)
  BY <1>1, <1>10, <1>13, <1>14, SetRunner
<1> QED BY <1>15, <1>16, SameBooks

LEMMA RunnerStartsGood ==
    ASSUME NEW q, Good(q), NEW g \in Groups, NEW t \in Tasks
    PROVE  Good(RunForGroupStarts(q, g)) /\ Good(RunTaskStarts(q, g, t))
<1> DEFINE p == CancelIdleTimer(q, g)
           m == [p EXCEPT !.idle_waiting[g] = FALSE, !.is_task_container[g] = FALSE,
                          !.pending_messages[g] = FALSE]
           k == [p EXCEPT !.idle_waiting[g] = FALSE, !.is_task_container[g] = TRUE,
                          !.running_task_id[g] = t]
<1>1. /\ RunForGroupStarts(q, g) = ReserveSlots(m, {g})
      /\ RunTaskStarts(q, g, t) = ReserveSlots(k, {g})
  BY DEF RunForGroupStarts, RunTaskStarts
<1>2. p \in QueueType /\ Books(p) = Books(q)
  BY CancelIdleTimerQuiet DEF Good
<1> HIDE DEF p
<1>3. m \in QueueType /\ Books(m) = Books(p)
  BY <1>2 DEF QueueType, Books
<1>4. k \in QueueType /\ Books(k) = Books(p)
  BY <1>2 DEF QueueType, Books
<1> HIDE DEF m, k
<1>5. Good(m) /\ Good(k)
  BY <1>2, <1>3, <1>4, SameBooks
<1> QED BY <1>1, <1>5, ReserveSlotsGood

\* Every teardown gives back the turn slot before the container slot.
LEMMA ReleaseAllGood ==
    ASSUME NEW q, Good(q), NEW g \in Groups
    PROVE  Good(ReleaseAll(q, g))
<1> DEFINE free == ReleaseTurn(q, g)
           gone == ReleaseContainer(free, g)
           pop == WarmPop(gone, g)
           p == ReleaseAll(q, g)
<1>1. Good(free) /\ g \notin Holding(free)
  BY ReleaseTurnGood
<1> HIDE DEF free
<1>2. Good(gone)
  BY <1>1, ReleaseContainerGood
<1>3. p = [pop EXCEPT !.processing[g] = FALSE, !.container_name[g] = NoJob,
                      !.job[g] = NoJob]
  BY DEF ReleaseAll, free
<1> HIDE DEF gone
<1>4. Good(pop)
  BY <1>2, WarmPopQuiet, SameBooks DEF Good
<1> HIDE DEF pop, p
<1>5. p \in QueueType /\ Books(p) = Books(pop)
  BY <1>3, <1>4 DEF Good, QueueType, Books
<1>6. Good(p)
  BY <1>4, <1>5, SameBooks
<1> QED BY <1>6 DEF p

LEMMA RunForGroupEndsGood ==
    ASSUME NEW q, Good(q), NEW g \in Groups, NEW success \in BOOLEAN,
           NEW p \in RunForGroupEnds(q, g, success)
    PROVE  Good(p)
<1> DEFINE done == [q EXCEPT !.retry_count[g] = 0]
<1>1. done \in QueueType /\ Books(done) = Books(q)
  BY DEF Good, QueueType, Books
<1>2. \/ p \in DrainGroup(ReleaseAll(done, g), g)
      \/ p \in DrainGroup(ReleaseAll(ScheduleRetry(q, g), g), g)
  BY DEF RunForGroupEnds
<1> HIDE DEF done
<1>3. Good(done) /\ Good(ScheduleRetry(q, g))
  BY <1>1, ScheduleRetryQuiet, SameBooks DEF Good
<1>4. Good(ReleaseAll(done, g)) /\ Good(ReleaseAll(ScheduleRetry(q, g), g))
  BY <1>3, ReleaseAllGood
<1> QED BY <1>2, <1>4, DrainGroupGood

LEMMA RunTaskEndsGood ==
    ASSUME NEW q, Good(q), NEW g \in Groups, NEW p \in RunTaskEnds(q, g)
    PROVE  Good(p)
<1> DEFINE r == ReleaseAll(q, g)
           s == [r EXCEPT !.is_task_container[g] = FALSE, !.running_task_id[g] = NoTask]
<1>1. Good(r)
  BY ReleaseAllGood
<1>2. p \in DrainGroup(s, g)
  BY DEF RunTaskEnds
<1> HIDE DEF r
<1>3. s \in QueueType /\ Books(s) = Books(r)
  BY <1>1 DEF Good, QueueType, Books
<1>4. Good(s)
  BY <1>1, <1>3, SameBooks
<1> QED BY <1>2, <1>4, DrainGroupGood

-----------------------------------------------------------------------------
(* Adoption and the reaper.                                                *)

LEMMA AdoptGood ==
    ASSUME NEW q, Good(q), NEW g \in Groups, NEW j \in Jobs
    PROVE  Good(AdoptOrphanContainer(q, g, j))
<1> DEFINE r == AcquireContainers(q, {g})
           p == AdoptOrphanContainer(q, g, j)
<1>1. Good(r)
  BY AcquireContainersGood
<1>2. p = [r EXCEPT !.processing[g] = FALSE, !.is_task_container[g] = FALSE,
                    !.adopted[g] = TRUE, !.job[g] = j]
  BY DEF AdoptOrphanContainer
<1> HIDE DEF r, p
<1>3. p \in QueueType /\ Books(p) = Books(r)
  BY <1>1, <1>2 DEF Good, QueueType, Books
<1>4. Good(p)
  BY <1>1, <1>3, SameBooks
<1> QED BY <1>4 DEF p

LEMMA ReapAdoptedGood ==
    ASSUME NEW q, Good(q), NEW g \in Groups, NEW p \in ReapAdopted(q, g)
    PROVE  Good(p)
<1> DEFINE asked == RequestShutdown(q, g)
           r == ReleaseAll(asked, g)
           s == [r EXCEPT !.adopted[g] = FALSE, !.idle_handle[g] = "off"]
<1>1. p \in DrainGroup(s, g)
  BY DEF ReapAdopted
<1>2. Good(asked)
  BY RequestShutdownQuiet, SameBooks DEF Good
<1> HIDE DEF asked
<1>3. Good(r)
  BY <1>2, ReleaseAllGood
<1> HIDE DEF r
<1>4. s \in QueueType /\ Books(s) = Books(r)
  BY <1>3 DEF Good, QueueType, Books
<1>5. Good(s)
  BY <1>3, <1>4, SameBooks
<1> QED BY <1>1, <1>5, DrainGroupGood

LEMMA ReapGhostGood ==
    ASSUME NEW q, Good(q), NEW g \in Groups, NEW p \in ReapGhost(q, g)
    PROVE  Good(p)
<1> DEFINE all == ReleaseAll(q, g)
           r == CancelIdleTimer(all, g)
           s == [r EXCEPT !.is_task_container[g] = FALSE,
                          !.running_task_id[g] = NoTask, !.missing_sweeps[g] = 0]
<1>1. p \in DrainGroup(s, g)
  BY DEF ReapGhost
<1>2. Good(all)
  BY ReleaseAllGood
<1> HIDE DEF all
<1>3. Good(r)
  BY <1>2, CancelIdleTimerQuiet, SameBooks DEF Good
<1> HIDE DEF r
<1>4. s \in QueueType /\ Books(s) = Books(r)
  BY <1>3 DEF Good, QueueType, Books
<1>5. Good(s)
  BY <1>3, <1>4, SameBooks
<1> QED BY <1>1, <1>5, DrainGroupGood

LEMMA ReconcileGroupGood ==
    ASSUME NEW q, Good(q), NEW g \in Groups, NEW p \in ReconcileGroup(q, g)
    PROVE  Good(p)
<1> DEFINE n == q.missing_sweeps[g] + 1
           a == [q EXCEPT !.missing_sweeps[g] = 0]
           b == [q EXCEPT !.missing_sweeps[g] = n]
<1>1. p = q \/ p = a \/ p = b \/ p \in ReapGhost(q, g)
  BY DEF ReconcileGroup
<1>2. n \in Nat
  BY DEF Good, QueueType
<1> HIDE DEF n
<1>3. a \in QueueType /\ Books(a) = Books(q)
  BY DEF Good, QueueType, Books
<1>4. b \in QueueType /\ Books(b) = Books(q)
  BY <1>2 DEF Good, QueueType, Books
<1> HIDE DEF a, b
<1> QED BY <1>1, <1>3, <1>4, ReapGhostGood, SameBooks

-----------------------------------------------------------------------------
(* Actions.                                                                *)

LEMMA SetRunnerGood ==
    ASSUME NEW q, Good(q), NEW g \in Groups, NEW j \in Jobs, NEW r \in RunnerType
    PROVE  Good([q EXCEPT !.runner[g][j] = r])
BY SetRunner, SameBooks DEF Good

LEMMA RunnerTyped ==
    ASSUME Good(queue), NEW g \in Groups, NEW j \in Jobs
    PROVE  Runner(g, j) \in RunnerType
BY DEF Good, QueueType, Runner

LEMMA ArrivalGood ==
    ASSUME Good(queue), NEW g \in Groups, Arrival(g)
    PROVE  Good(queue')
<1>1. CASE IncomingMessage(g)
  BY <1>1, EnqueueMessageCheckGood DEF IncomingMessage
<1>2. CASE MessageLoopDelivers(g)
  BY <1>2, EnqueueMessageCheckGood, SendMessageGood DEF MessageLoopDelivers
<1>3. ASSUME NEW t \in Tasks, ScheduleTask(g, t)
      PROVE  Good(queue')
  BY <1>3, EnqueueTaskGood DEF ScheduleTask
<1> QED BY <1>1, <1>2, <1>3 DEF Arrival

LEMMA TimersGood ==
    ASSUME Good(queue), NEW g \in Groups, RetryFires(g) \/ IdleTimerFires(g)
    PROVE  Good(queue')
<1>1. CASE RetryFires(g)
  <2> DEFINE n == queue.retry_timers[g] - 1
             p == [queue EXCEPT !.retry_timers[g] = n]
  <2>1. n \in Nat
    BY <1>1 DEF RetryFires, Good, QueueType
  <2>2. queue' = EnqueueMessageCheck(p, g)
    BY <1>1 DEF RetryFires
  <2> HIDE DEF n
  <2>3. p \in QueueType /\ Books(p) = Books(queue)
    BY <2>1 DEF Good, QueueType, Books
  <2> HIDE DEF p
  <2> QED BY <2>2, <2>3, SameBooks, EnqueueMessageCheckGood
<1>2. CASE IdleTimerFires(g)
  <2> DEFINE p == CancelIdleTimer(queue, g)
  <2>1. Good(p)
    BY CancelIdleTimerQuiet, SameBooks DEF Good
  <2>2. queue' \in ReapAdopted(p, g) \/ queue' = RequestShutdown(p, g)
    BY <1>2 DEF IdleTimerFires
  <2> HIDE DEF p
  <2>3. Good(RequestShutdown(p, g))
    BY <2>1, RequestShutdownQuiet, SameBooks DEF Good
  <2> QED BY <2>1, <2>2, <2>3, ReapAdoptedGood
<1> QED BY <1>1, <1>2

LEMMA ApprovalsGood ==
    ASSUME Good(queue), NEW g \in Groups, NEW r \in Requests,
           ApprovalRequested(g, r) \/ ApprovalResolved(g, r)
    PROVE  Good(queue')
BY SuspendQuiet, ResumeQuiet, SameBooks
   DEF ApprovalRequested, ApprovalResolved, Good

LEMMA AdoptionGood ==
    ASSUME Good(queue), NEW g \in Groups, NEW r \in Requests, NEW alive \in BOOLEAN,
           Adopt(g, r, alive)
    PROVE  Good(queue')
<1> DEFINE j == FreeJob(queue, g)
           phase == IF alive THEN "orphan" ELSE "none"
           run == [NoRunner EXCEPT !.phase = phase, !.busy = alive]
           p == [queue EXCEPT !.runner[g][j] = run]
           s == AdoptOrphanContainer(p, g, j)
<1>1. queue' = SuspendForApproval(s, g, r)
  BY DEF Adopt
<1>2. j \in Jobs
  BY DEF Adopt, FreeJob, FreeJobs
<1>3. run \in RunnerType
  BY DEF NoRunner, RunnerType
<1> HIDE DEF j, run
<1>4. Good(p)
  BY <1>2, <1>3, SetRunnerGood
<1> HIDE DEF p
<1>5. Good(s)
  BY <1>2, <1>4, AdoptGood
<1> HIDE DEF s
<1> QED BY <1>1, <1>5, SuspendQuiet, SameBooks DEF Good

LEMMA RunnerCoroutinesGood ==
    ASSUME Good(queue), NEW g \in Groups, NEW j \in Jobs,
           \/ RunnerStarts(g, j) \/ RunnerRegisters(g, j) \/ TaskCloseFires(g, j)
           \/ HandleReply(g, j) \/ HandleFinal(g, j)
    PROVE  Good(queue')
<1> DEFINE r == Runner(g, j)
<1>0. r \in RunnerType /\ queue.runner[g][j] = r
  BY RunnerTyped DEF Runner
<1>1. CASE RunnerStarts(g, j)
  <2> DEFINE s == [r EXCEPT !.phase = "starting"]
             p == [queue EXCEPT !.runner[g][j] = s]
  <2>1. p = [queue EXCEPT !.runner[g][j].phase = "starting"]
    BY <1>0
  <2>2. \/ queue' = RunForGroupStarts(p, g)
        \/ r.task # NoTask /\ queue' = RunTaskStarts(p, g, r.task)
    BY <1>1, <2>1 DEF RunnerStarts
  <2> HIDE DEF r
  <2>3. s \in RunnerType /\ r.task \in Tasks \cup {NoTask}
    BY <1>0 DEF RunnerType
  <2> HIDE DEF s
  <2>4. Good(p)
    BY <2>3, SetRunnerGood
  <2> HIDE DEF p
  <2>5. CASE r.task \in Tasks
    BY <2>2, <2>4, <2>5, RunnerStartsGood
  <2>6. CASE queue' = RunForGroupStarts(p, g) /\ r.task = NoTask
    <3> DEFINE q == CancelIdleTimer(p, g)
               m == [q EXCEPT !.idle_waiting[g] = FALSE,
                              !.is_task_container[g] = FALSE,
                              !.pending_messages[g] = FALSE]
    <3>1. Good(q)
      BY <2>4, CancelIdleTimerQuiet, SameBooks DEF Good
    <3>2. queue' = ReserveSlots(m, {g})
      BY <2>6 DEF RunForGroupStarts
    <3> HIDE DEF q
    <3>3. m \in QueueType /\ Books(m) = Books(q)
      BY <3>1 DEF Good, QueueType, Books
    <3> HIDE DEF m
    <3> QED BY <3>1, <3>2, <3>3, SameBooks, ReserveSlotsGood
  <2> QED BY <2>2, <2>3, <2>5, <2>6
<1>2. CASE RunnerRegisters(g, j)
  <2> DEFINE s == [r EXCEPT !.phase = "up", !.busy = TRUE]
             p == [queue EXCEPT !.runner[g][j] = s]
  <2>1. queue' = [p EXCEPT !.job[g] = j, !.container_name[g] = j]
    BY <1>2 DEF RunnerRegisters, RegisterProcess, Runner
  <2> HIDE DEF r
  <2>2. s \in RunnerType
    BY <1>0 DEF RunnerType
  <2> HIDE DEF s
  <2>3. Good(p)
    BY <2>2, SetRunnerGood
  <2> HIDE DEF p
  <2>4. queue' \in QueueType /\ Books(queue') = Books(p)
    BY <2>1, <2>3 DEF Good, QueueType, Books
  <2> QED BY <2>3, <2>4, SameBooks
<1>3. CASE TaskCloseFires(g, j)
  <2> DEFINE s == [r EXCEPT !.close = "fired"]
             p == [queue EXCEPT !.runner[g][j] = s]
  <2>1. queue' = RequestShutdown(p, g)
    BY <1>3 DEF TaskCloseFires, Runner
  <2> HIDE DEF r
  <2>2. s \in RunnerType
    BY <1>0 DEF RunnerType
  <2> HIDE DEF s
  <2>3. Good(p)
    BY <2>2, SetRunnerGood
  <2> HIDE DEF p
  <2> QED BY <2>1, <2>3, RequestShutdownQuiet, SameBooks DEF Good
<1>4. CASE HandleReply(g, j)
  <2> DEFINE s == [r EXCEPT !.close = "armed"]
             p == [queue EXCEPT !.runner[g][j] = s]
  <2>1. queue' = ArmIdleTimer(queue, g) \/ queue' = p
    BY <1>4 DEF HandleReply, Runner
  <2> HIDE DEF r
  <2>2. s \in RunnerType
    BY <1>0 DEF RunnerType
  <2> HIDE DEF s
  <2>3. Good(p)
    BY <2>2, SetRunnerGood
  <2> HIDE DEF p
  <2> QED BY <2>1, <2>3, ArmIdleTimerQuiet, SameBooks DEF Good
<1>5. CASE HandleFinal(g, j)
  <2> DEFINE n == r.finals - 1
             c == IF r.task # NoTask /\ r.close = "unarmed" THEN "armed" ELSE r.close
             s == [r EXCEPT !.finals = n, !.close = c]
             p == [queue EXCEPT !.runner[g][j] = s]
  <2>1. queue' \in NotifyIdle(p, g)
    BY <1>5 DEF HandleFinal, Runner
  <2>2. r.finals > 0
    BY <1>5 DEF HandleFinal
  <2> HIDE DEF r
  <2>3. n \in Nat /\ c \in {"unarmed", "armed", "fired"}
    BY <1>0, <2>2 DEF RunnerType
  <2> HIDE DEF n, c
  <2>4. s \in RunnerType
    BY <1>0, <2>3 DEF RunnerType
  <2> HIDE DEF s
  <2>5. Good(p)
    BY <2>4, SetRunnerGood
  <2> HIDE DEF p
  <2> QED BY <2>1, <2>5, NotifyIdleGood
<1> QED BY <1>1, <1>2, <1>3, <1>4, <1>5

LEMMA RunnerEndsGood ==
    ASSUME Good(queue), NEW g \in Groups, NEW j \in Jobs,
           NEW success \in BOOLEAN, NEW raised \in BOOLEAN,
           RunnerEnds(g, j, success, raised)
    PROVE  Good(queue')
<1> DEFINE gone == [queue EXCEPT !.runner[g][j] = NoRunner]
           quiet == CancelIdleTimer(gone, g)
<1>1. \/ queue' \in RunForGroupEnds(gone, g, success)
      \/ queue' \in RunForGroupEnds(quiet, g, success)
      \/ queue' \in RunTaskEnds(gone, g)
  BY DEF RunnerEnds
<1>2. NoRunner \in RunnerType
  BY DEF NoRunner, RunnerType
<1>3. Good(gone)
  BY <1>2, SetRunnerGood
<1> HIDE DEF gone
<1>4. Good(quiet)
  BY <1>3, CancelIdleTimerQuiet, SameBooks DEF Good
<1> HIDE DEF quiet
<1> QED BY <1>1, <1>3, <1>4, RunForGroupEndsGood, RunTaskEndsGood

LEMMA ContainersGood ==
    ASSUME Good(queue), NEW g \in Groups, NEW j \in Jobs,
           \/ AgentFinishesTurn(g, j) \/ AgentTakesInput(g, j)
           \/ ContainerDies(g, j) \/ RunnerLost(g, j)
    PROVE  Good(queue')
<1> DEFINE r == Runner(g, j)
<1>0. r \in RunnerType
  BY RunnerTyped
<1>1. \E s \in RunnerType : queue' = [queue EXCEPT !.runner[g][j] = s]
  <2>1. CASE AgentFinishesTurn(g, j)
    <3> DEFINE n == r.finals + 1
               s == [r EXCEPT !.busy = FALSE, !.finals = n]
    <3>1. queue' = [queue EXCEPT !.runner[g][j] = s]
      BY <2>1 DEF AgentFinishesTurn, Runner
    <3> HIDE DEF r
    <3>2. n \in Nat
      BY <1>0 DEF RunnerType
    <3> HIDE DEF n
    <3>3. s \in RunnerType
      BY <1>0, <3>2 DEF RunnerType
    <3> QED BY <3>1, <3>3
  <2>2. CASE AgentTakesInput(g, j)
    <3> DEFINE s == [r EXCEPT !.input = FALSE, !.busy = TRUE]
    <3>1. queue' = [queue EXCEPT !.runner[g][j] = s]
      BY <2>2 DEF AgentTakesInput, Runner
    <3> HIDE DEF r
    <3>2. s \in RunnerType
      BY <1>0 DEF RunnerType
    <3> QED BY <3>1, <3>2
  <2>3. CASE ContainerDies(g, j)
    <3> DEFINE d == [r EXCEPT !.phase = "dead", !.busy = FALSE,
                              !.input = FALSE, !.stop = FALSE]
               s == IF r.phase = "orphan" THEN NoRunner ELSE d
    <3>1. queue' = [queue EXCEPT !.runner[g][j] = s]
      BY <2>3 DEF ContainerDies, Runner
    <3> HIDE DEF r
    <3>2. d \in RunnerType /\ NoRunner \in RunnerType
      BY <1>0 DEF RunnerType, NoRunner
    <3> HIDE DEF d
    <3> QED BY <3>1, <3>2
  <2>4. CASE RunnerLost(g, j)
    <3>1. NoRunner \in RunnerType
      BY DEF RunnerType, NoRunner
    <3> QED BY <2>4, <3>1 DEF RunnerLost
  <2> QED BY <2>1, <2>2, <2>3, <2>4
<1> QED BY <1>1, SetRunnerGood

LEMMA SweepGood ==
    ASSUME Good(queue),
           \/ Shutdown \/ SweepLists \/ SweepFails \/ SweepResumes
           \/ \E g \in Groups : SweepVisits(g)
    PROVE  Good(queue')
<1>1. CASE Shutdown
  <2>1. queue' \in QueueType /\ Books(queue') = Books(queue)
    BY <1>1 DEF Shutdown, Good, QueueType, Books
  <2> QED BY <2>1, SameBooks
<1>2. ASSUME NEW q, Good(q), NEW s, NEW p,
             s \in [phase : {"idle", "listed", "visiting"},
                    live  : SUBSET (Groups \X Jobs), todo  : SUBSET Groups],
             p = [q EXCEPT !.sweep = s]
      PROVE  Good(p)
  <2>1. p \in QueueType /\ Books(p) = Books(q)
    BY <1>2 DEF Good, QueueType, Books
  <2> QED BY <1>2, <2>1, SameBooks
<1> DEFINE SweepType == [phase : {"idle", "listed", "visiting"},
                         live  : SUBSET (Groups \X Jobs), todo  : SUBSET Groups]
           idle == [phase |-> "idle", live |-> {}, todo |-> {}]
<1>3. idle \in SweepType
  OBVIOUS
<1>4. queue.sweep \in SweepType
  BY DEF Good, QueueType
<1>5. CASE SweepLists
  <2> DEFINE up == {p \in Groups \X Jobs :
                       queue.runner[p[1]][p[2]].phase \in {"up", "orphan"}}
             s == [queue.sweep EXCEPT !.phase = "listed", !.live = up]
  <2>1. queue' = [queue EXCEPT !.sweep.phase = "listed", !.sweep.live = up]
    BY <1>5 DEF SweepLists
  <2>2. up \in SUBSET (Groups \X Jobs)
    OBVIOUS
  <2> HIDE DEF up
  <2>3. s \in SweepType
    BY <1>4, <2>2
  <2>4. queue' = [queue EXCEPT !.sweep = s]
    BY <2>1, <1>4 DEF Good, QueueType
  <2> QED BY <1>2, <2>3, <2>4
<1>6. CASE SweepFails
  BY <1>2, <1>3, <1>6 DEF SweepFails
<1>7. CASE SweepResumes
  <2> DEFINE s == [queue.sweep EXCEPT !.phase = "visiting", !.todo = Groups]
  <2>1. s \in SweepType
    BY <1>4
  <2>2. queue' = [queue EXCEPT !.sweep = s]
    BY <1>4, <1>7 DEF SweepResumes, Good, QueueType
  <2> QED BY <1>2, <2>1, <2>2
<1>8. ASSUME NEW g \in Groups, SweepVisits(g)
      PROVE  Good(queue')
  <2>1. PICK q \in ReconcileGroup(queue, g) :
           \/ queue' = [q EXCEPT !.sweep = idle]
           \/ queue' = [q EXCEPT !.sweep.todo = @ \ {g}]
    BY <1>8 DEF SweepVisits
  <2>2. Good(q)
    BY ReconcileGroupGood
  <2>3. q.sweep \in SweepType
    BY <2>2 DEF Good, QueueType
  <2> DEFINE s == [q.sweep EXCEPT !.todo = @ \ {g}]
  <2>4. s \in SweepType
    BY <2>3
  <2>5. [q EXCEPT !.sweep.todo = @ \ {g}] = [q EXCEPT !.sweep = s]
    OBVIOUS
  <2> QED BY <1>2, <1>3, <2>1, <2>2, <2>4, <2>5
<1> QED BY <1>1, <1>5, <1>6, <1>7, <1>8

-----------------------------------------------------------------------------
(* The theorems.                                                           *)

QueueInv == TypeOK /\ Balanced(queue)

LEMMA InitInv == Init => QueueInv
<1> SUFFICES ASSUME Init
             PROVE  QueueInv
  OBVIOUS
<1>1. NoRunner \in RunnerType
  BY DEF NoRunner, RunnerType
<1>2. queue \in QueueType
  BY <1>1 DEF Init, QueueType
<1>3. TypeOK
  BY <1>2, BoundsAssumption DEF TypeOK, Init
<1>4. Holding(queue) = {} /\ Live(queue) = {}
  BY DEF Init, Holding, Live
<1>5. \A t : OfTenant({}, t) = {} /\ OfCoworker({}, t) = {}
  BY DEF OfTenant, OfCoworker
<1>6. /\ queue.global_active = 0 /\ queue.live_containers = 0
      /\ \A t \in Tenants : queue.tenant_active[t] = 0
      /\ \A c \in Coworkers : queue.coworker_active[c] = 0
  BY DEF Init
<1>7. Balanced(queue)
  BY <1>4, <1>5, <1>6, FS_EmptySet DEF Balanced
<1> QED BY <1>3, <1>7 DEF QueueInv

LEMMA NextGood ==
    ASSUME Good(queue), Next
    PROVE  Good(queue')
<1>1. ASSUME NEW g \in Groups, GroupStep(g)
      PROVE  Good(queue')
  <2>1. ASSUME NEW j \in Jobs, RunnerStep(g, j)
        PROVE  Good(queue')
    BY <2>1, RunnerCoroutinesGood, RunnerEndsGood, ContainersGood DEF RunnerStep
  <2> QED BY <1>1, <2>1, TimersGood, ApprovalsGood, AdoptionGood DEF GroupStep
<1>2. \/ \E g \in Groups : Arrival(g) \/ GroupStep(g)
      \/ Shutdown \/ SweepLists \/ SweepFails \/ SweepResumes
      \/ \E g \in Groups : SweepVisits(g)
  BY DEF Next
<1> QED BY <1>1, <1>2, ArrivalGood, SweepGood

\* The bookkeeping variables of the environment keep their types.
LEMMA NextEnv ==
    ASSUME TypeOK, Next
    PROVE  orphans' \in SUBSET Groups /\ reaps' \in Nat /\ lost' \in Nat
<1> USE DEF TypeOK, env
<1>1. ASSUME NEW g \in Groups, Arrival(g)
      PROVE  orphans' \in SUBSET Groups /\ reaps' \in Nat /\ lost' \in Nat
  BY <1>1 DEF Arrival, IncomingMessage, MessageLoopDelivers, ScheduleTask
<1>2. ASSUME NEW g \in Groups, NEW j \in Jobs, RunnerStep(g, j)
      PROVE  orphans' \in SUBSET Groups /\ reaps' \in Nat /\ lost' \in Nat
  BY <1>2 DEF RunnerStep, RunnerStarts, RunnerRegisters, HandleReply, HandleFinal,
              RunnerEnds, TaskCloseFires, AgentFinishesTurn, AgentTakesInput,
              ContainerDies, RunnerLost
<1>3. ASSUME NEW g \in Groups, GroupStep(g)
      PROVE  orphans' \in SUBSET Groups /\ reaps' \in Nat /\ lost' \in Nat
  BY <1>2, <1>3 DEF GroupStep, RetryFires, IdleTimerFires, ApprovalRequested,
                    ApprovalResolved, Adopt
<1>4. CASE Shutdown \/ SweepLists \/ SweepFails \/ SweepResumes
  BY <1>4 DEF Shutdown, SweepLists, SweepFails, SweepResumes
<1>5. ASSUME NEW g \in Groups, SweepVisits(g)
      PROVE  orphans' \in SUBSET Groups /\ reaps' \in Nat /\ lost' \in Nat
  BY <1>5 DEF SweepVisits
<1> QED BY <1>1, <1>3, <1>4, <1>5 DEF Next

\* Types and books are inductive.
THEOREM QueueInvariant == Spec => []QueueInv
<1>1. QueueInv /\ [Next]_vars => QueueInv'
  <2> SUFFICES ASSUME QueueInv, [Next]_vars
               PROVE  QueueInv'
    OBVIOUS
  <2>1. CASE Next
    <3>1. Good(queue)
      BY DEF QueueInv, TypeOK, Good
    <3>2. Good(queue')
      BY <2>1, <3>1, NextGood
    <3>3. orphans' \in SUBSET Groups /\ reaps' \in Nat /\ lost' \in Nat
      BY <2>1, NextEnv DEF QueueInv
    <3>4. Balanced(queue)'
      BY <3>2 DEF Good, Balanced, Holding, Live, OfTenant, OfCoworker
    <3> QED BY <3>2, <3>3, <3>4 DEF QueueInv, TypeOK, Good, QueueType, RunnerType
  <2>2. CASE UNCHANGED vars
    <3>1. /\ queue' = queue /\ orphans' = orphans
          /\ reaps' = reaps /\ lost' = lost
      BY <2>2 DEF vars
    <3>2. TypeOK'
      BY <3>1 DEF QueueInv, TypeOK
    <3>3. Balanced(queue)'
      BY <3>1 DEF QueueInv, Balanced, Holding, Live, OfTenant, OfCoworker
    <3> QED BY <3>2, <3>3 DEF QueueInv
  <2> QED BY <2>1, <2>2
<1> QED BY InitInv, <1>1, PTL DEF Spec

\* Every attribute keeps its type, for any groups, limits and bounds.
THEOREM TypeCorrect == Spec => []TypeOK
<1>1. QueueInv => TypeOK
  BY DEF QueueInv
<1> QED BY <1>1, QueueInvariant, PTL

\* No interleaving of callbacks, coroutines, container deaths, reaping and
\* adoption takes or gives back a slot twice: the counters of
\* OrchestratorState always equal the number of groups whose flag is set.
THEOREM CountersAreExact == Spec => []CountersMatchFlags
<1>1. QueueInv => CountersMatchFlags
  BY DEF QueueInv, Balanced, CountersMatchFlags
<1> QED BY <1>1, QueueInvariant, PTL

\* A turn slot is only ever held by a group with a live container, so that
\* live_containers >= global_active, as the comment on the counter says.
THEOREM TurnsHaveContainers == Spec => []TurnNeedsContainer
<1>1. QueueInv => TurnNeedsContainer
  BY DEF QueueInv, Balanced, TurnNeedsContainer
<1> QED BY <1>1, QueueInvariant, PTL

=============================================================================
