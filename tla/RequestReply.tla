---------------------------- MODULE RequestReply ----------------------------
(***************************************************************************)
(* What the SMI promises its user about on-request services: a request     *)
(* that was made is answered, and it is answered once.                     *)
(***************************************************************************)
CONSTANT Reqs

VARIABLE status     \* status of each request

Init == status = [r \in Reqs |-> "unused"]

Ask(r) ==
    /\ status[r] = "unused"
    /\ status' = [status EXCEPT ![r] = "asked"]

Answer(r) ==
    /\ status[r] = "asked"
    /\ status' = [status EXCEPT ![r] = "answered"]

Next == \E r \in Reqs : Ask(r) \/ Answer(r)

Safety == Init /\ [][Next]_status

Spec == Safety /\ \A r \in Reqs : WF_status(Answer(r))
=============================================================================
