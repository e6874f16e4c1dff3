----------------------------- MODULE SendService -----------------------------
(***************************************************************************)
(* What transport/ZW_SendDataAppl.h promises its callers, with no queues,  *)
(* sessions or chip: a frame is accepted or rejected at once, and an       *)
(* accepted one completes later, once, with a status.  A restart of the    *)
(* transport drops the accepted frames without a callback.                 *)
(***************************************************************************)
EXTENDS Naturals

CONSTANT Request

VARIABLE result   \* of each request, as its caller sees it

Status == {"OK", "FAIL", "ERROR"}
Result == {"idle", "rejected", "pending", "dropped"} \cup Status

Init == result = [r \in Request |-> "idle"]

\* ZW_SendDataAppl returned a handle.
Accept(r) == /\ result[r] = "idle"
             /\ result' = [result EXCEPT ![r] = "pending"]

\* ZW_SendDataAppl returned 0.
Reject(r) == /\ result[r] = "idle"
             /\ result' = [result EXCEPT ![r] = "rejected"]

\* The callback was called with a status.
Complete(r, status) == /\ result[r] = "pending"
                       /\ result' = [result EXCEPT ![r] = status]

\* ZW_SendDataAppl_init.
Drop == result' = [r \in Request |-> IF result[r] = "pending" THEN "dropped"
                                                              ELSE result[r]]

Next == \/ \E r \in Request : Accept(r) \/ Reject(r)
        \/ \E r \in Request, status \in Status : Complete(r, status)
        \/ Drop

Spec == Init /\ [][Next]_result

\* The service does not keep a frame for ever.
FairSpec == Spec /\ \A r \in Request :
                      WF_result(\E status \in Status : Complete(r, status))
=============================================================================
