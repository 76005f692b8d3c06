------------------------------ MODULE ScanJobs ------------------------------
(***************************************************************************)
(* Scan jobs of the ScanManager and the discovery store they save into.    *)
(*                                                                         *)
(* StartScan registers a job and starts a goroutine that marks it running, *)
(* scans, marks it ended and then saves what it found; CancelJob and       *)
(* CleanupOldJobs run beside it.  jobsMutex is held for one action at a    *)
(* time and is not modelled; the RWMutex of InMemoryDiscoveryStore is,     *)
(* because Save asks for it a second time while it holds it.               *)
(***************************************************************************)
EXTENDS Naturals, FiniteSets

CONSTANTS
    MaxJobs,    \* bound: jobs started
    Servers,    \* the servers a scan may find, one fingerprint each
    Nobody      \* "nobody holds the store's mutex"

ASSUME MaxJobsAssumption == MaxJobs \in Nat \ {0}

Jobs == 1..MaxJobs
ASSUME NobodyAssumption == Nobody \notin Jobs \cup Servers

VARIABLES
    nextJobID,  \* ScanManager.nextJobID
    known,      \* IDs in ScanManager.jobs
    status,     \* ScanJob.Status
    results,    \* ScanJob.Results
    phase,      \* where the goroutine of each job is
    todo,       \* what it has still to save
    writer,     \* who holds InMemoryDiscoveryStore.mutex for writing
    stored      \* InMemoryDiscoveryStore.servers

jobVars == <<nextJobID, known, status, results, phase, todo, writer, stored>>

Ended == {"completed", "failed"}

JobsTypeOK ==
    /\ nextJobID \in 1..(MaxJobs + 1)
    /\ known \in SUBSET Jobs
    /\ status \in [Jobs -> {"none", "pending", "running", "cancelled"} \cup Ended]
    /\ results \in [Jobs -> SUBSET Servers]
    /\ phase \in [Jobs -> {"none", "queued", "scanning", "save", "find", "done"}]
    /\ todo \in [Jobs -> SUBSET Servers]
    /\ writer \in Jobs \cup {Nobody}
    /\ stored \in SUBSET Servers

JobsInit ==
    /\ nextJobID = 1
    /\ known = {}
    /\ status = [j \in Jobs |-> "none"]
    /\ results = [j \in Jobs |-> {}]
    /\ phase = [j \in Jobs |-> "none"]
    /\ todo = [j \in Jobs |-> {}]
    /\ writer = Nobody
    /\ stored = {}

-----------------------------------------------------------------------------
(* The operations of the API.                                              *)

\* The ID is taken under jobIDMutex and the job entered under jobsMutex; in
\* between nobody knows the ID.
StartScan ==
    /\ nextJobID <= MaxJobs
    /\ nextJobID' = nextJobID + 1
    /\ known' = known \cup {nextJobID}
    /\ status' = [status EXCEPT ![nextJobID] = "pending"]
    /\ phase' = [phase EXCEPT ![nextJobID] = "queued"]
    /\ UNCHANGED <<results, todo, writer, stored>>

\* Only the status changes: nothing tells the scanner.
CancelJob(j) ==
    /\ j \in known
    /\ status[j] = "running"
    /\ status' = [status EXCEPT ![j] = "cancelled"]
    /\ UNCHANGED <<nextJobID, known, results, phase, todo, writer, stored>>

\* Variant: cancelled jobs count as ended.
CleanupCancelled(old) ==
    /\ known' = known \ {j \in old : status[j] \in Ended \cup {"cancelled"}}
    /\ UNCHANGED <<nextJobID, status, results, phase, todo, writer, stored>>

\* The ended jobs that are old enough leave the map.
CleanupOldJobs(old) ==
    /\ known' = known \ {j \in old : status[j] \in Ended}
    /\ UNCHANGED <<nextJobID, status, results, phase, todo, writer, stored>>

-----------------------------------------------------------------------------
(* runScan.                                                                *)

BeginScan(j) ==
    /\ phase[j] = "queued"
    /\ phase' = [phase EXCEPT ![j] = "scanning"]
    /\ status' = [status EXCEPT ![j] = "running"]
    /\ UNCHANGED <<nextJobID, known, results, todo, writer, stored>>

\* Variant: the job is only marked as ended with the store locked.
EndScanLocked(j, found, errors) ==
    /\ phase[j] = "scanning" /\ writer = Nobody
    /\ phase' = [phase EXCEPT ![j] = "save"]
    /\ status' = [status EXCEPT ![j] =
                    IF errors /\ found = {} THEN "failed" ELSE "completed"]
    /\ results' = [results EXCEPT ![j] = found]
    /\ todo' = [todo EXCEPT ![j] = found]
    /\ UNCHANGED <<nextJobID, known, writer, stored>>

\* tempScanner.Scan has returned; errors count only where nothing was found.
EndScan(j, found, errors) ==
    /\ phase[j] = "scanning"
    /\ phase' = [phase EXCEPT ![j] = "save"]
    /\ status' = [status EXCEPT ![j] =
                    IF errors /\ found = {} THEN "failed" ELSE "completed"]
    /\ results' = [results EXCEPT ![j] = found]
    /\ todo' = [todo EXCEPT ![j] = found]
    /\ UNCHANGED <<nextJobID, known, writer, stored>>

\* The two locks of Save: its own Lock, then the RLock of FindByFingerprint
\* on the same mutex.  Either waits while anybody, the caller included, holds
\* the mutex for writing.  After the second, Save writes the map and returns.
TakeLock(j) ==
    /\ phase[j] \in {"save", "find"} /\ todo[j] # {}
    /\ writer = Nobody
    /\ IF phase[j] = "save"
       THEN /\ writer' = j
            /\ phase' = [phase EXCEPT ![j] = "find"]
            /\ UNCHANGED <<todo, stored>>
       ELSE \E s \in todo[j] :
            /\ writer' = Nobody
            /\ phase' = [phase EXCEPT ![j] = "save"]
            /\ todo' = [todo EXCEPT ![j] = @ \ {s}]
            /\ stored' = stored \cup {s}
    /\ UNCHANGED <<nextJobID, known, status, results>>

\* Everything is saved: the goroutine ends.
EndSave(j) ==
    /\ phase[j] = "save" /\ todo[j] = {}
    /\ phase' = [phase EXCEPT ![j] = "done"]
    /\ UNCHANGED <<nextJobID, known, status, results, todo, writer, stored>>

RunScan(j) ==
    \/ BeginScan(j)
    \/ \E found \in SUBSET Servers, errors \in BOOLEAN : EndScan(j, found, errors)
    \/ TakeLock(j)
    \/ EndSave(j)

JobsNext ==
    \/ StartScan
    \/ \E j \in Jobs : CancelJob(j)
    \/ \E old \in SUBSET Jobs : CleanupOldJobs(old)
    \/ \E j \in Jobs : RunScan(j)

\* The Go scheduler runs every goroutine that can run, and Scan returns.
JobsFairness == \A j \in Jobs : WF_jobVars(RunScan(j))

JobsSpec == JobsInit /\ [][JobsNext]_jobVars /\ JobsFairness

-----------------------------------------------------------------------------
(* Properties.                                                             *)

\* The status a client reads tells where the goroutine is, whatever CancelJob
\* did in between, and an ended job has its results.
StatusTellsScan ==
    \A j \in Jobs :
        /\ status[j] = "pending" <=> phase[j] = "queued"
        /\ status[j] \in {"running", "cancelled"} <=> phase[j] = "scanning"
        /\ status[j] = "failed" => results[j] = {}

\* CleanupOldJobs takes away no job whose scan is still running, a cancelled
\* one included, and leaves every other job where clients find it.
RemovedJobsAreOver ==
    \A j \in Jobs : phase[j] # "none" /\ j \notin known =>
        phase[j] \in {"save", "find", "done"}

\* An ended job is never changed again: a cancellation that comes late has no
\* effect, and results that clients read do not change under them.
EndIsFinal ==
    [][\A j \in Jobs : status[j] \in Ended =>
         status'[j] = status[j] /\ results'[j] = results[j]]_jobVars

\* Every started job ends, cancelled or not and even while other jobs wait for
\* the store; and it has ended for good: no cancellation that comes late undoes it.
JobsEnd == \A j \in Jobs : (status[j] = "pending") ~> [](status[j] \in Ended)
=============================================================================
