------------------------------ MODULE JobState ------------------------------
(***************************************************************************)
(* One scheduled job: its entry in the configuration, its state file, its  *)
(* lock file, the scheduler of the proxy, and the API calls that create,   *)
(* change, delete and run it.  Job::new opens the lock file and waits for  *)
(* the lock; the guard moves into the task that runs the job.  The lock    *)
(* belongs to the inode, so remove_state_file can leave a waiting caller   *)
(* with the lock of a file that is no longer at the path.                  *)
(*                                                                         *)
(* Of a task identifier there is the lock that its task holds and the time *)
(* at which it was started.  State files that cannot be parsed are left    *)
(* out.                                                                    *)
(***************************************************************************)
EXTENDS Integers

CONSTANTS
    Caller,          \* API calls that go on at the same time
    Scheduler,       \* run_task_scheduler
    Period,          \* the schedule: an event at every multiple of it
    FallbackOffset,  \* SCHEDULE_FALLBACK_OFFSET
    JobMaxTime,      \* bound on the clock
    Inodes,          \* bound on the inodes in use at the same time
    JobNone

ASSUME PeriodAssumption == Period \in Nat \ {0} /\ FallbackOffset \in Nat /\ JobMaxTime \in Nat /\ Inodes \in Nat
ASSUME JobNameAssumption == Scheduler \notin Caller /\ JobNone \notin Caller \cup {Scheduler} \cup 1 .. Inodes

VARIABLES
    jobTime,     \* the system clock
    configured,  \* the job has a section in its configuration file
    configLock,  \* holder of the lock of that file
    stateFile,   \* contents of the state file
    lockFile,    \* inode at the path of the lock file, or JobNone
    flock,       \* holder of the lock of each inode
    call,        \* what the callers are doing
    task,        \* start time of the task that holds an inode's lock, or Never
    detached     \* history: a lock was taken on a file that is not at the path

jobVars == <<jobTime, configured, configLock, stateFile, lockFile, flock, call, task, detached>>

-----------------------------------------------------------------------------

Never == -1
JobTimes == 0 .. JobMaxTime
JobProc == Caller \cup {Scheduler}

(* An inode number is used again once nothing refers to it. *)
Inode == 1 .. Inodes

Call ==
    [op    : {"none", "run", "create", "update", "delete"},
     step  : {"idle", "open", "wait", "locked", "unlink"},
     inode : Inode \cup {JobNone}]

(* "absent" stands for no file; last is the time that decides about the    *)
(* next run: of creation, of the start of the task, or of the update.      *)
State ==
    [kind : {"absent", "created", "started", "finished"}, task : Inode \cup {JobNone},
     last : JobTimes]

NoCall == [op |-> "none", step |-> "idle", inode |-> JobNone]
NoState == [kind |-> "absent", task |-> JobNone, last |-> 0]
JobCreated(t) == [kind |-> "created", task |-> JobNone, last |-> t]

JobInit ==
    /\ jobTime = 0
    /\ configured = FALSE /\ configLock = JobNone
    /\ stateFile = NoState
    /\ lockFile = JobNone
    /\ flock = [i \in Inode |-> JobNone]
    /\ call = [p \in JobProc |-> NoCall]
    /\ task = [i \in Inode |-> Never]
    /\ detached = FALSE

-----------------------------------------------------------------------------
(* Reading the state file, without its lock *)

(* JobState::load: a started task that is not active has finished. *)
Load ==
    IF stateFile.kind = "started" /\ task[stateFile.task] # stateFile.last
    THEN [stateFile EXCEPT !.kind = "finished"] ELSE stateFile

(* last_run_time *)
LastRunTime == IF Load.kind = "absent" THEN jobTime - FallbackOffset ELSE Load.last

(* CalendarEvent::compute_next_event *)
NextEvent(last) == (last \div Period + 1) * Period

(* check_schedule *)
Due == NextEvent(LastRunTime) <= jobTime

-----------------------------------------------------------------------------
(* The lock file *)

Begin(p, op) == call' = [call EXCEPT ![p] = [NoCall EXCEPT !.op = op, !.step = "open"]]

Unused(i) == i # lockFile /\ flock[i] = JobNone /\ \A p \in JobProc : call[p].inode # i

(* get_lock: the file is opened, or created ... *)
JobOpen(p) ==
    /\ call[p].step = "open"
    /\ \E i \in Inode :
        /\ IF lockFile = JobNone THEN Unused(i) /\ \A j \in 1 .. i - 1 : ~Unused(j) ELSE i = lockFile
        /\ lockFile' = i
        /\ call' = [call EXCEPT ![p] = [@ EXCEPT !.step = "wait", !.inode = i]]
    /\ UNCHANGED <<jobTime, configured, configLock, stateFile, flock, task, detached>>

(* ... and its lock is awaited; nobody looks at the path again. *)
JobLock(p) ==
    LET i == call[p].inode IN
    /\ call[p].step = "wait"
    /\ flock[i] = JobNone
    /\ flock' = [flock EXCEPT ![i] = p]
    /\ call' = [call EXCEPT ![p].step = "locked"]
    /\ detached' = (detached \/ i # lockFile)
    /\ UNCHANGED <<jobTime, configured, configLock, stateFile, lockFile, task>>

(* The end of a call, with the locks it holds. *)
Return(p) ==
    /\ call' = [call EXCEPT ![p] = NoCall]
    /\ configLock' = IF configLock = p THEN JobNone ELSE configLock

(* Ten seconds have passed: the call fails, what it has saved stays. *)
JobLockTimeout(p) ==
    /\ call[p].step = "wait"
    /\ flock[call[p].inode] # JobNone
    /\ Return(p)
    /\ UNCHANGED <<jobTime, configured, stateFile, lockFile, flock, task, detached>>

Holds(p, op) == call[p].op = op /\ call[p].step = "locked"

Unlock(i) == flock' = [flock EXCEPT ![i] = JobNone]

-----------------------------------------------------------------------------
(* Running the job *)

(* The scheduler decides by the state file before it asks for the lock. *)
CheckSchedule ==
    /\ call[Scheduler] = NoCall
    /\ configured /\ Due
    /\ Begin(Scheduler, "run")
    /\ UNCHANGED <<jobTime, configured, configLock, stateFile, lockFile, flock, task, detached>>

RunManually(p) ==
    /\ p \in Caller /\ call[p] = NoCall
    /\ configured
    /\ Begin(p, "run")
    /\ UNCHANGED <<jobTime, configured, configLock, stateFile, lockFile, flock, task, detached>>

(* The task is created, takes over the guard and calls Job::start. *)
JobStart(p) ==
    LET i == call[p].inode IN
    /\ Holds(p, "run")
    /\ task' = [task EXCEPT ![i] = jobTime]
    /\ stateFile' = [kind |-> "started", task |-> i, last |-> jobTime]
    /\ call' = [call EXCEPT ![p] = NoCall]
    /\ UNCHANGED <<jobTime, configured, configLock, lockFile, flock, detached>>

(* The lookup of the datastore or the creation of the task fails. *)
JobStartFails(p) ==
    /\ Holds(p, "run")
    /\ Unlock(call[p].inode)
    /\ Return(p)
    /\ UNCHANGED <<jobTime, configured, stateFile, lockFile, task, detached>>

(* Job::finish and the end of the task. *)
JobFinish(i) ==
    /\ task[i] # Never
    /\ stateFile' = [kind |-> "finished", task |-> i, last |-> task[i]]
    /\ task' = [task EXCEPT ![i] = Never]
    /\ Unlock(i)
    /\ UNCHANGED <<jobTime, configured, configLock, lockFile, call, detached>>

-----------------------------------------------------------------------------
(* Changing the configuration *)

LockConfig(p) ==
    /\ p \in Caller /\ call[p] = NoCall
    /\ configLock = JobNone
    /\ configLock' = p

(* do_create_prune_job and its like: saved, then create_state_file *)
CreateJob(p) ==
    /\ LockConfig(p) /\ ~configured
    /\ configured' = TRUE
    /\ Begin(p, "create")
    /\ UNCHANGED <<jobTime, stateFile, lockFile, flock, task, detached>>

CreateStateFile(p) ==
    /\ Holds(p, "create")
    /\ stateFile' = JobCreated(jobTime)
    /\ Unlock(call[p].inode)
    /\ Return(p)
    /\ UNCHANGED <<jobTime, configured, lockFile, task, detached>>

(* update_prune_job and its like, when the schedule changes *)
UpdateJob(p) ==
    /\ LockConfig(p) /\ configured
    /\ Begin(p, "update")
    /\ UNCHANGED <<jobTime, configured, stateFile, lockFile, flock, task, detached>>

(* Mutated form: a lock that cannot be taken is ignored. *)
UpdateLastRunTimeAnyway(p) ==
    /\ call[p].op = "update" /\ call[p].step \in {"wait", "locked"}
    /\ stateFile' = CASE Load.kind \in {"absent", "created"} -> JobCreated(jobTime)
                      [] OTHER -> [stateFile EXCEPT !.kind = "finished", !.last = jobTime]
    /\ IF call[p].step = "locked" THEN Unlock(call[p].inode) ELSE UNCHANGED flock
    /\ Return(p)
    /\ UNCHANGED <<jobTime, configured, lockFile, task, detached>>

(* update_job_last_run_time *)
UpdateLastRunTime(p) ==
    /\ Holds(p, "update")
    /\ stateFile' = CASE Load.kind \in {"absent", "created"} -> JobCreated(jobTime)
                      [] Load.kind = "started" -> stateFile
                      [] Load.kind = "finished" -> [Load EXCEPT !.last = jobTime]
    /\ Unlock(call[p].inode)
    /\ Return(p)
    /\ UNCHANGED <<jobTime, configured, lockFile, task, detached>>

(* delete_prune_job and its like: saved, then remove_state_file *)
DeleteJob(p) ==
    /\ LockConfig(p) /\ configured
    /\ configured' = FALSE
    /\ Begin(p, "delete")
    /\ UNCHANGED <<jobTime, stateFile, lockFile, flock, task, detached>>

RemoveStateFile(p) ==
    /\ Holds(p, "delete")
    /\ stateFile' = NoState
    /\ call' = [call EXCEPT ![p].step = "unlink"]
    /\ UNCHANGED <<jobTime, configured, configLock, lockFile, flock, task, detached>>

RemoveLockFile(p) ==
    LET i == call[p].inode IN
    /\ call[p].step = "unlink"
    /\ lockFile' = JobNone
    /\ flock' = [flock EXCEPT ![i] = IF @ = p THEN JobNone ELSE @]
    /\ Return(p)
    /\ UNCHANGED <<jobTime, configured, stateFile, task, detached>>

-----------------------------------------------------------------------------
(* Environment *)

JobTick ==
    /\ jobTime < JobMaxTime
    /\ jobTime' = jobTime + 1
    /\ UNCHANGED <<configured, configLock, stateFile, lockFile, flock, call, task, detached>>

(* The daemons die and start again. *)
JobCrash ==
    /\ configLock' = JobNone
    /\ flock' = [i \in Inode |-> JobNone]
    /\ call' = [p \in JobProc |-> NoCall]
    /\ task' = [i \in Inode |-> Never]
    /\ UNCHANGED <<jobTime, configured, stateFile, lockFile, detached>>

JobProgress(p) ==
    \/ JobOpen(p) \/ JobLock(p) \/ JobLockTimeout(p) \/ JobStart(p)
    \/ CreateStateFile(p) \/ UpdateLastRunTime(p) \/ RemoveStateFile(p) \/ RemoveLockFile(p)

JobNext ==
    \/ CheckSchedule
    \/ \E p \in JobProc : JobProgress(p) \/ JobStartFails(p)
    \/ \E p \in Caller : RunManually(p) \/ CreateJob(p) \/ UpdateJob(p) \/ DeleteJob(p)
    \/ \E i \in Inode : JobFinish(i)
    \/ JobTick \/ JobCrash

(* The scheduler runs every minute, calls and tasks go on; the clock, the  *)
(* users and crashes promise nothing.                                      *)
JobFair(p) == JobProgress(p) \/ (p = Scheduler /\ CheckSchedule)

JobSpec == JobInit /\ [][JobNext]_jobVars
JobFairSpec ==
    /\ JobSpec
    /\ \A p \in JobProc : WF_jobVars(JobFair(p))
    /\ \A i \in Inode : WF_jobVars(JobFinish(i))

-----------------------------------------------------------------------------
(* Properties *)

JobTypeOK ==
    /\ jobTime \in JobTimes /\ configured \in BOOLEAN /\ detached \in BOOLEAN
    /\ configLock \in Caller \cup {JobNone}
    /\ stateFile \in State
    /\ lockFile \in Inode \cup {JobNone}
    /\ flock \in [Inode -> JobProc \cup {JobNone}]
    /\ call \in [JobProc -> Call]
    /\ task \in [Inode -> JobTimes \cup {Never}]

(* "job holds the lock, we can start it" (the example in jobstate.rs): as  *)
(* long as no lock was taken on a removed file, at most one task runs.     *)
JobExclusive ==
    ~detached => \A i, j \in Inode : task[i] # Never /\ task[j] # Never => i = j

(* The state file names the task that runs, whatever the schedulers, users *)
(* and administrators write meanwhile: last_run_time reads it unlocked.    *)
JobRecorded ==
    ~detached => \A i \in Inode :
        task[i] # Never => stateFile = [kind |-> "started", task |-> i, last |-> task[i]]

JobSafe == JobTypeOK /\ JobExclusive /\ JobRecorded

(* Unless the daemons keep crashing, a job that is due is tried: its lock  *)
(* is taken to start it, or it is no longer due, or it is deleted.         *)
JobAttempted ==
    \/ []<><<JobCrash>>_jobVars
    \/ configured /\ Due ~> ~configured \/ ~Due \/ \E p \in JobProc : Holds(p, "run")
=============================================================================
