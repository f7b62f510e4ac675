------------------------------- MODULE MCLive -------------------------------
(* What must eventually happen, part by part: a collection ends, a job that  *)
(* is due is attempted, a datastore under maintenance is closed, an access   *)
(* to the cache is answered and a call that changes the configuration ends.  *)
EXTENDS DatastoreGC, JobState, Maintenance, LruCache, ConfigFiles

VARIABLE part

MCHandleProc(h) == "p1"

liveVars == <<part, vars, jobVars, maintVars, lruVars, confVars>>

LiveInit ==
    /\ part \in {"gc", "jobs", "maintenance", "lru", "config"}
    /\ Init /\ JobInit /\ LruInit /\ MaintInit /\ ConfInit

Collect == part = "gc" /\ Next /\ UNCHANGED <<part, jobVars, maintVars, lruVars, confVars>>
Jobs == part = "jobs" /\ JobNext /\ UNCHANGED <<part, vars, maintVars, lruVars, confVars>>
Maintain == part = "maintenance" /\ MaintNext /\ UNCHANGED <<part, vars, jobVars, lruVars, confVars>>
Lru == part = "lru" /\ LruNext /\ UNCHANGED <<part, vars, jobVars, maintVars, confVars>>
Config == part = "config" /\ ConfNext /\ UNCHANGED <<part, vars, jobVars, maintVars, lruVars>>

LiveNext == Collect \/ Jobs \/ Maintain \/ Lru \/ Config

(* The fairness of the parts' own specifications, for the part that runs. *)
LiveSpec ==
    /\ LiveInit /\ [][LiveNext]_liveVars
    /\ WF_vars(part = "gc" /\ GcStep)
    /\ \A p \in JobProc : WF_jobVars(part = "jobs" /\ JobFair(p))
    /\ \A i \in Inode : WF_jobVars(part = "jobs" /\ JobFinish(i))
    /\ \A h \in Handle :
        /\ SF_maintVars(part = "maintenance" /\ HandleStep(h))
        /\ WF_maintVars(part = "maintenance" /\ DropCount(h))
    /\ \A p \in Proc : SF_maintVars(part = "maintenance" /\ CommandStep(p))
    /\ \A t \in Job : WF_maintVars(part = "maintenance" /\ CallbackEnds(t))
    /\ \A k \in Key : WF_lruVars(part = "lru" /\ FetchProgress(k))
    /\ \A a \in Access : WF_lruVars(part = "lru" /\ AccessReturns(a))
    /\ \A p \in Client : WF_confVars(part = "config" /\ ConfStep(p))

(* A job that is due is attempted, a datastore under maintenance is closed, *)
(* an access to the cache is answered, a call that changes the              *)
(* configuration ends.                                                      *)
ServicesProgress == JobAttempted /\ Evicted /\ AccessAnswered /\ CallsEnd
=============================================================================
