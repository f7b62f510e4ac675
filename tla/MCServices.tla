------------------------------ MODULE MCServices ------------------------------
(* The services of the daemons that share no state with each other, in one   *)
(* instance: part is the one whose steps are explored.                        *)
EXTENDS JobState, LockFile, Maintenance, LruCache, ConfigFiles, TLC

VARIABLE part

MCHandleProc(h) == "p1"
MCSymmetry == Permutations(Client)

serviceVars == <<jobVars, lockVars, maintVars, lruVars, confVars>>

Init ==
    /\ part \in {"jobs", "locks", "maintenance", "lru", "config"}
    /\ JobInit /\ LockInit /\ LruInit
    /\ ConfInit /\ (part # "config" => area = "access")
    /\ MaintInit /\ (part # "maintenance" => kind = "s3")

Jobs ==
    /\ part = "jobs" /\ JobNext
    /\ UNCHANGED <<part, lockVars, maintVars, lruVars, confVars>>
Locks ==
    /\ part = "locks" /\ LockNext
    /\ UNCHANGED <<part, jobVars, maintVars, lruVars, confVars>>
Maintain ==
    /\ part = "maintenance" /\ MaintNext
    /\ UNCHANGED <<part, jobVars, lockVars, lruVars, confVars>>
Lru ==
    /\ part = "lru" /\ LruNext
    /\ UNCHANGED <<part, jobVars, lockVars, maintVars, confVars>>
Config ==
    /\ part = "config" /\ ConfNext
    /\ UNCHANGED <<part, jobVars, lockVars, maintVars, lruVars>>

Next == Jobs \/ Locks \/ Maintain \/ Lru \/ Config

Spec == Init /\ [][Next]_<<part, serviceVars>>
=============================================================================
