---------------------------- MODULE TurnAdmission ----------------------------
(***************************************************************************)
(* What the scheduler promises, without saying how: which groups hold a    *)
(* turn slot and which have a live container.  A step is about one group:  *)
(* it starts cold, it resumes, its turn ends, or its container exits; the  *)
(* room that the last two make may be given to groups without a container. *)
(* No step takes a turn or a container away from any other group, and no   *)
(* step takes a limit beyond what it allows.                               *)
(***************************************************************************)
EXTENDS Integers, FiniteSets

CONSTANTS Groups, Tenants, Coworkers, TenantOf, CoworkerOf,
          GlobalLimit, TenantLimit, CoworkerLimit

VARIABLES turns, live

WithinLimits(T, L) ==
    /\ Cardinality(L) <= GlobalLimit
    /\ Cardinality(T) <= GlobalLimit
    /\ \A t \in Tenants : Cardinality({g \in T : TenantOf[g] = t}) <= TenantLimit[t]
    /\ \A c \in Coworkers :
         Cardinality({g \in T : CoworkerOf[g] = c}) <= CoworkerLimit[c]

Init == turns = {} /\ live = {}

\* The groups of S, all without a container, are started.
Start(T, L, S) ==
    /\ S \cap L = {}
    /\ turns' = T \cup S
    /\ live' = L \cup S
    /\ S # {} => WithinLimits(turns', live')

ColdStart(g) == Start(turns, live, {g})

Resume(g) ==
    /\ g \in live \ turns
    /\ turns' = turns \cup {g}
    /\ live' = live
    /\ WithinLimits(turns', live')

TurnEnds(g) == \E S \in SUBSET Groups : Start(turns \ {g}, live, S)

ContainerExits(g) ==
    /\ g \in live
    /\ \E S \in SUBSET Groups : Start(turns \ {g}, live \ {g}, S)

Next == \E g \in Groups :
            ColdStart(g) \/ Resume(g) \/ TurnEnds(g) \/ ContainerExits(g)

Spec == Init /\ [][Next]_<<turns, live>>

=============================================================================
