-------------------------- MODULE ApprovalContract --------------------------
(***************************************************************************)
(* What human approval of tool calls promises, without saying how: every   *)
(* request gets at most one verdict, a verdict is never changed, and the   *)
(* tool call behind the request runs only after the verdict "approved".    *)
(***************************************************************************)
CONSTANTS Requests, Verdicts

VARIABLES verdict, ran

Init ==
    /\ verdict = [r \in Requests |-> "none"]
    /\ ran = {}

Open(r) ==
    /\ verdict[r] = "none"
    /\ verdict' = [verdict EXCEPT ![r] = "pending"]
    /\ UNCHANGED ran

Settle(r, v) ==
    /\ verdict[r] = "pending"
    /\ verdict' = [verdict EXCEPT ![r] = v]
    /\ UNCHANGED ran

Run(r) ==
    /\ verdict[r] = "approved"
    /\ r \notin ran
    /\ ran' = ran \cup {r}
    /\ UNCHANGED verdict

Next == \E r \in Requests : \/ Open(r)
                            \/ \E v \in Verdicts : Settle(r, v)
                            \/ Run(r)

Spec == Init /\ [][Next]_<<verdict, ran>>

=============================================================================
