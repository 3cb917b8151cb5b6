---------------------------- MODULE MCDelegation ----------------------------
(***************************************************************************)
(* Delegation for TLC: the requests are interchangeable.                   *)
(***************************************************************************)
EXTENDS Delegation, TLC

Symmetry == Permutations(Requests)

=============================================================================
