------------------------------ MODULE MCService ------------------------------
(* The processes of a deployment (Service) and the lock its workers share  *)
(* (SyncLock), each alone.  A behaviour is one of the two modules, chosen  *)
(* in its initial state, with the fairness of that module.                 *)
EXTENDS SyncLock, Service

VARIABLE part

MCVars == <<part, syncVars, serviceVars>>

MCInit ==
    /\ part \in {"lock", "service"}
    /\ SyncInit
    /\ ServiceInit
    \* with one initial state of the part that does not move
    /\ part = "lock" => configured

Lock(A) == part = "lock" /\ A /\ UNCHANGED <<part, serviceVars>>
Deployment(A) == part = "service" /\ A /\ UNCHANGED <<part, syncVars>>

MCNext == Lock(SyncNext) \/ Deployment(ServiceNext)

MCFair ==
    /\ \A r \in Requests : WF_MCVars(Lock(Handle(r)))
    /\ WF_MCVars(Deployment(StartStep)) /\ WF_MCVars(Deployment(MonitorStep))
    /\ WF_MCVars(Deployment(LicenseStep)) /\ WF_MCVars(Deployment(ExitStep))
    /\ WF_MCVars(Deployment(StopStep))

MCSpec == MCInit /\ [][MCNext]_MCVars /\ MCFair
=============================================================================
