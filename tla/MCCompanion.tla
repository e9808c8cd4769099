------------------------------ MODULE MCCompanion ------------------------------
(* Two kinds of requests of the companion that share no table: analyses, and   *)
(* syncs of vacancies from HH.  Each behaviour is one of one of them, chosen   *)
(* by its initial state.                                                       *)
EXTENDS MCAnalysisService, HHSync

CONSTANTS v1

VARIABLE part

Served(v, content) == [vacancy |-> v, content |-> content]
MCPages == {<<>>, <<Served(v1, 1)>>, <<Served(v1, 2), Malformed>>}

\* Beside the syncs the requests are the same ones in every behaviour.
CompanionInit ==
    /\ part \in {"service", "sync"} /\ ServiceInit /\ SyncInit
    /\ part = "sync" => \A r \in Requests : request[r] = CHOOSE q \in NewRequests : TRUE

\* Syncs may come to rest; the service may not, except where all are answered.
CompanionNext ==
    \/ part = "service" /\ ServiceNext /\ UNCHANGED <<part, syncVars>>
    \/ part = "sync" /\ SyncNext /\ UNCHANGED <<part, serviceVars>>
    \/ part = "sync" /\ UNCHANGED <<part, serviceVars, syncVars>>

CompanionSpec == CompanionInit /\ [][CompanionNext]_<<part, serviceVars, syncVars>>
=============================================================================
