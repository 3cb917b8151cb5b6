---------------------------- MODULE MCGroupQueue ----------------------------
(***************************************************************************)
(* Instances of GroupQueue for TLC: which tenant and coworker each group   *)
(* belongs to, and the limits.                                             *)
(***************************************************************************)
EXTENDS GroupQueue

CONSTANTS a, b, c, acme, zeta, desk, lab

\* a and b are conversations of one coworker; c is another tenant's.
MCTenantOf   == [g \in Groups |-> IF g = c THEN zeta ELSE acme]
MCCoworkerOf == [g \in Groups |-> IF g = c THEN lab ELSE desk]

\* A tenant limit that binds before the global one, and one that does not.
TwoPerTenant   == [t \in Tenants |-> 2]
OnePerTenant   == [t \in Tenants |-> 1]
TwoPerCoworker == [w \in Coworkers |-> 2]
OnePerCoworker == [w \in Coworkers |-> 1]

=============================================================================
