------------------------------ MODULE MCLiveness ------------------------------
(* What must come to an end: the requests for an analysis, and the captures   *)
(* that wait in the outbox.  Each behaviour is one of one part, chosen by its *)
(* initial state; the other part rests in one initial state, in which none of *)
(* its fair steps is enabled.                                                 *)
EXTENDS MCAnalysisService, MCOutbox

VARIABLE part

LivenessInit ==
    /\ part \in {"service", "outbox"}
    /\ ServiceInit
    /\ (part = "service" \/ \A r \in Requests : request[r] = NewRequest(op1, 1, FALSE))
    /\ OutboxInit

LivenessNext ==
    /\ UNCHANGED part
    /\ \/ part = "service" /\ ServiceNext /\ UNCHANGED outboxVars
       \/ part = "outbox" /\ OutboxNext /\ UNCHANGED serviceVars

LivenessSpec ==
    /\ LivenessInit /\ [][LivenessNext]_<<part, serviceVars, outboxVars>>
    /\ \A r \in Requests : WF_serviceVars(Work(r))
    /\ Fairness
=============================================================================
