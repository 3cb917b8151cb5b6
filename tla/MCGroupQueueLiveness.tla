------------------------ MODULE MCGroupQueueLiveness ------------------------
(***************************************************************************)
(* GroupQueueLiveness with the tenants, coworkers and limits of            *)
(* MCGroupQueue.                                                           *)
(***************************************************************************)
EXTENDS MCGroupQueue, GroupQueueLiveness

=============================================================================
