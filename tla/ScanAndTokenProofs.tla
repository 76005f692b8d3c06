------------------------- MODULE ScanAndTokenProofs -------------------------
(***************************************************************************)
(* Proofs about what goroutines and requests change with no lock held      *)
(* between their steps: the jobs of ScanJobs and its discovery store, the  *)
(* results of NetworkScan, and AdapterTokens with the credentials that     *)
(* requests share with FileAdapterStore.                                   *)
(***************************************************************************)
EXTENDS ScanJobs, NetworkScan, AdapterTokens, TLAPS, FiniteSetTheorems, SequenceTheorems

-----------------------------------------------------------------------------
(***************************************************************************)
(* Proofs about ScanJobs: for any number of jobs and any servers, what a   *)
(* client reads of a job tells the truth about its goroutine.              *)
(*                                                                         *)
(* CancelJob and CleanupOldJobs look only at the status, runScan only at   *)
(* its own progress.  The inductive invariant JobsInv ties the two         *)
(* together for every job, those without an ID yet included.               *)
(***************************************************************************)
\* The goroutine of a job has left the scan behind.
Over(j) == phase[j] \in {"save", "find", "done"}

\* Jobs that have no ID yet, and ended ones: what StatusTellsScan leaves open.
Progress ==
    \A j \in Jobs :
        /\ j >= nextJobID => phase[j] = "none"
        /\ status[j] = "none" <=> phase[j] = "none"
        /\ status[j] \in Ended <=> Over(j)

JobsInv == JobsTypeOK /\ Progress /\ StatusTellsScan /\ RemovedJobsAreOver

-----------------------------------------------------------------------------
LEMMA InitJobsInv == JobsInit => JobsInv
<1>1. SUFFICES ASSUME JobsInit PROVE JobsInv
  OBVIOUS
<1>2. JobsTypeOK
  <2>1. nextJobID \in 1..(MaxJobs + 1)
    BY <1>1, MaxJobsAssumption DEF JobsInit
  <2> QED
    BY <1>1, <2>1 DEF JobsInit, JobsTypeOK
<1> QED
  BY <1>1, <1>2 DEF JobsInit, JobsInv, Progress, Over, StatusTellsScan, RemovedJobsAreOver, Ended

LEMMA StartScanStep == JobsInv /\ StartScan => JobsInv'
<1>1. SUFFICES ASSUME JobsInv, StartScan PROVE JobsInv'
  OBVIOUS
<1>2. nextJobID \in Jobs /\ nextJobID' = nextJobID + 1 /\ nextJobID' \in 1..(MaxJobs + 1)
  BY <1>1, MaxJobsAssumption DEF JobsInv, JobsTypeOK, StartScan, Jobs
<1>3. JobsTypeOK'
  BY <1>1, <1>2 DEF JobsInv, JobsTypeOK, StartScan
<1>4. phase[nextJobID] = "none"
  BY <1>1, <1>2 DEF JobsInv, Progress, JobsTypeOK, Jobs
<1>5. \A j \in Jobs : j >= nextJobID' => j >= nextJobID /\ j # nextJobID
  BY <1>1, <1>2 DEF JobsInv, JobsTypeOK, Jobs
<1>6. Progress'
  BY <1>1, <1>2, <1>5 DEF JobsInv, JobsTypeOK, Progress, Over, StartScan, Ended
<1>7. StatusTellsScan'
  BY <1>1, <1>2 DEF JobsInv, JobsTypeOK, StatusTellsScan, StartScan
<1>8. RemovedJobsAreOver'
  BY <1>1, <1>2 DEF JobsInv, JobsTypeOK, RemovedJobsAreOver, StartScan
<1> QED
  BY <1>3, <1>6, <1>7, <1>8 DEF JobsInv

LEMMA CancelJobStep == \A j \in Jobs : JobsInv /\ CancelJob(j) => JobsInv'
<1>1. SUFFICES ASSUME NEW j \in Jobs, JobsInv, CancelJob(j) PROVE JobsInv'
  OBVIOUS
<1>2. JobsTypeOK'
  BY <1>1 DEF JobsInv, JobsTypeOK, CancelJob
<1>3. phase[j] = "scanning"
  BY <1>1 DEF JobsInv, CancelJob, StatusTellsScan
<1>4. Progress'
  BY <1>1, <1>3 DEF JobsInv, JobsTypeOK, Progress, Over, CancelJob, Ended
<1>5. StatusTellsScan' /\ RemovedJobsAreOver'
  BY <1>1, <1>3 DEF JobsInv, JobsTypeOK, StatusTellsScan, RemovedJobsAreOver, CancelJob
<1> QED
  BY <1>2, <1>4, <1>5 DEF JobsInv

LEMMA CleanupStep == \A old \in SUBSET Jobs : JobsInv /\ CleanupOldJobs(old) => JobsInv'
<1>1. SUFFICES ASSUME NEW old \in SUBSET Jobs, JobsInv, CleanupOldJobs(old) PROVE JobsInv'
  OBVIOUS
<1>2. JobsTypeOK'
  BY <1>1 DEF JobsInv, JobsTypeOK, CleanupOldJobs
<1>3. Progress' /\ StatusTellsScan'
  BY <1>1 DEF JobsInv, Progress, Over, StatusTellsScan, CleanupOldJobs
<1>4. ASSUME NEW j \in Jobs, phase'[j] # "none", j \notin known' PROVE Over(j)'
  <2>1. CASE j \in known
    BY <1>1, <1>4, <2>1 DEF JobsInv, Progress, Over, CleanupOldJobs
  <2>2. CASE j \notin known
    BY <1>1, <1>4, <2>2 DEF JobsInv, RemovedJobsAreOver, Over, CleanupOldJobs
  <2> QED
    BY <2>1, <2>2
<1> QED
  BY <1>2, <1>3, <1>4 DEF JobsInv, RemovedJobsAreOver, Over

LEMMA BeginScanStep == \A j \in Jobs : JobsInv /\ BeginScan(j) => JobsInv'
<1>1. SUFFICES ASSUME NEW j \in Jobs, JobsInv, BeginScan(j) PROVE JobsInv'
  OBVIOUS
<1>2. JobsTypeOK'
  BY <1>1 DEF JobsInv, JobsTypeOK, BeginScan
<1>3. Progress'
  BY <1>1 DEF JobsInv, JobsTypeOK, Progress, Over, BeginScan, Ended
<1>4. StatusTellsScan' /\ RemovedJobsAreOver'
  BY <1>1 DEF JobsInv, JobsTypeOK, StatusTellsScan, RemovedJobsAreOver, BeginScan
<1> QED
  BY <1>2, <1>3, <1>4 DEF JobsInv

LEMMA EndScanStep ==
    \A j \in Jobs, servers \in SUBSET Servers, errors \in BOOLEAN :
        JobsInv /\ EndScan(j, servers, errors) => JobsInv'
<1>1. SUFFICES ASSUME NEW j \in Jobs, NEW servers \in SUBSET Servers,
                      NEW errors \in BOOLEAN, JobsInv, EndScan(j, servers, errors)
               PROVE  JobsInv'
  OBVIOUS
<1> DEFINE s == IF errors /\ servers = {} THEN "failed" ELSE "completed"
<1>2. /\ s \in Ended
      /\ s = "failed" => servers = {}
  BY DEF Ended
<1>3. /\ phase[j] = "scanning"
      /\ phase' = [phase EXCEPT ![j] = "save"]
      /\ status' = [status EXCEPT ![j] = s]
      /\ results' = [results EXCEPT ![j] = servers]
      /\ todo' = [todo EXCEPT ![j] = servers]
      /\ UNCHANGED <<nextJobID, known, writer, stored>>
  BY <1>1 DEF EndScan
<1> HIDE DEF s
<1>4. JobsTypeOK'
  BY <1>1, <1>2, <1>3 DEF JobsInv, JobsTypeOK, Ended
<1>5. Progress'
  BY <1>1, <1>2, <1>3 DEF JobsInv, JobsTypeOK, Progress, Over, Ended
<1>6. StatusTellsScan' /\ RemovedJobsAreOver'
  BY <1>1, <1>2, <1>3 DEF JobsInv, JobsTypeOK, StatusTellsScan, RemovedJobsAreOver, Ended
<1> QED
  BY <1>4, <1>5, <1>6 DEF JobsInv

LEMMA TakeLockStep == \A j \in Jobs : JobsInv /\ TakeLock(j) => JobsInv'
<1>1. SUFFICES ASSUME NEW j \in Jobs, JobsInv, TakeLock(j) PROVE JobsInv'
  OBVIOUS
<1>2. /\ Over(j)
      /\ phase' \in [Jobs -> {"none", "queued", "scanning", "save", "find", "done"}]
      /\ Over(j)'
      /\ \A k \in Jobs \ {j} : phase'[k] = phase[k]
      /\ UNCHANGED <<nextJobID, known, status, results>>
  BY <1>1 DEF JobsInv, JobsTypeOK, TakeLock, Over
<1>3. JobsTypeOK'
  BY <1>1 DEF JobsInv, JobsTypeOK, TakeLock
<1>4. Progress' /\ StatusTellsScan' /\ RemovedJobsAreOver'
  BY <1>1, <1>2 DEF JobsInv, JobsTypeOK, Progress, Over, StatusTellsScan, RemovedJobsAreOver
<1> QED
  BY <1>3, <1>4 DEF JobsInv

LEMMA EndSaveStep == \A j \in Jobs : JobsInv /\ EndSave(j) => JobsInv'
<1>1. SUFFICES ASSUME NEW j \in Jobs, JobsInv, EndSave(j) PROVE JobsInv'
  OBVIOUS
<1>2. JobsTypeOK'
  BY <1>1 DEF JobsInv, JobsTypeOK, EndSave
<1>3. Progress' /\ StatusTellsScan' /\ RemovedJobsAreOver'
  BY <1>1 DEF JobsInv, JobsTypeOK, Progress, Over, StatusTellsScan, RemovedJobsAreOver, EndSave
<1> QED
  BY <1>2, <1>3 DEF JobsInv

LEMMA JobsStutter == JobsInv /\ UNCHANGED jobVars => JobsInv'
  BY DEF JobsInv, JobsTypeOK, Progress, Over, StatusTellsScan, RemovedJobsAreOver, jobVars

-----------------------------------------------------------------------------
LEMMA JobsInvariance == JobsSpec => []JobsInv
<1>1. JobsInv /\ [JobsNext]_jobVars => JobsInv'
  BY StartScanStep, CancelJobStep, CleanupStep, BeginScanStep, EndScanStep,
     TakeLockStep, EndSaveStep, JobsStutter DEF JobsNext, RunScan
<1> QED
  BY InitJobsInv, <1>1, PTL DEF JobsSpec

\* The state of the ScanManager, its goroutines and its store keeps its type.
THEOREM JobsTyped == JobsSpec => []JobsTypeOK
  BY JobsInvariance, PTL DEF JobsInv

\* Whatever CancelJob and CleanupOldJobs do beside runScan, the status of
\* every job tells where its goroutine is.
THEOREM StatusIsTrue == JobsSpec => []StatusTellsScan
  BY JobsInvariance, PTL DEF JobsInv

\* CleanupOldJobs never takes a job out of the map whose scan is not over.
THEOREM ScansStayKnown == JobsSpec => []RemovedJobsAreOver
  BY JobsInvariance, PTL DEF JobsInv

\* No step, of the job itself or of an API call, changes the status or the
\* results of an ended job.
THEOREM EndsStay == JobsSpec => EndIsFinal
<1> DEFINE Kept(j) == status[j] \in Ended => status'[j] = status[j] /\ results'[j] = results[j]
<1>1. JobsInv /\ [JobsNext]_jobVars => [\A j \in Jobs : Kept(j)]_jobVars
  <2>1. SUFFICES ASSUME JobsInv, JobsNext, NEW j \in Jobs, status[j] \in Ended
                 PROVE  status'[j] = status[j] /\ results'[j] = results[j]
    BY DEF jobVars
  <2>2. /\ phase[j] \notin {"none", "queued", "scanning"}
        /\ status[j] # "running"
    BY <2>1 DEF JobsInv, Progress, Over, Ended
  <2>3. ASSUME StartScan PROVE status'[j] = status[j] /\ results'[j] = results[j]
    <3>1. j # nextJobID
      BY <2>1, <2>2 DEF JobsInv, Progress, JobsTypeOK, Jobs
    <3> QED
      BY <2>1, <2>3, <3>1 DEF JobsInv, JobsTypeOK, StartScan
  <2>4. ASSUME NEW k \in Jobs, CancelJob(k)
        PROVE  status'[j] = status[j] /\ results'[j] = results[j]
    BY <2>1, <2>2, <2>4 DEF JobsInv, JobsTypeOK, CancelJob
  <2>5. ASSUME NEW k \in Jobs, RunScan(k)
        PROVE  status'[j] = status[j] /\ results'[j] = results[j]
    BY <2>1, <2>2, <2>5
    DEF JobsInv, JobsTypeOK, RunScan, BeginScan, EndScan, TakeLock, EndSave
  <2> QED
    BY <2>1, <2>3, <2>4, <2>5 DEF JobsNext, CleanupOldJobs
<1> QED
  BY JobsInvariance, <1>1, PTL DEF JobsSpec, EndIsFinal

-----------------------------------------------------------------------------
(***************************************************************************)
(* Proofs about NetworkScan, for any ranges and ports, any limit on the    *)
(* goroutines that probe at a time and any capacity of the channel.        *)
(*                                                                         *)
(* That all that was found is collected, in the channel or about to be     *)
(* sent is kept by each step because an endpoint is found once: what is in *)
(* `found' is of an endpoint its goroutine is done with (FoundOnce).  That *)
(* nothing but the first is left when Scan returns follows from the order  *)
(* in which it waits (Stages).                                             *)
(***************************************************************************)
Sending == {t \in Tasks : task[t] = "send"}
AllReturned == \A t \in Tasks : task[t] = "end"

\* A goroutine was started for an address the loop is past, and goes through the
\* endpoints one at a time.
Launched ==
    /\ next \in Nat \ {0}
    /\ DOMAIN left = Tasks
    /\ \A t \in Tasks : t \in 1..(next - 1)
    /\ \A t \in Tasks :
        /\ left[t] \in 0..Endpoints
        /\ task[t] \in {"mark", "acquire"} => left[t] = Endpoints
        /\ task[t] = "probe" => left[t] > 0

\* What is found is of an endpoint its goroutine is done with: none is found twice.
FoundOnce ==
    /\ IsFiniteSet(found)
    /\ \A f \in found : f[1] \in Tasks /\ f[2] \in 1..Endpoints /\ f[2] > left[f[1]]

Accounted ==
    /\ \E S : channel \in Seq(S)
    /\ \E S : discovered \in Seq(S)
    /\ Len(discovered) + Len(channel) + Cardinality(Sending) = Cardinality(found)

\* What is over when: who closes the channel has waited for its senders, and who
\* returns for the collector, which has emptied it.
Stages ==
    /\ stage = "ports" => Tasks = {} /\ channel = << >>
    /\ closed => AllReturned /\ stage \in {"collect", "done"}
    /\ stage = "collect" => closed
    /\ collector = "done" => closed /\ channel = << >>
    /\ stage = "done" => AllReturned /\ channel = << >>

NetworkInv == Launched /\ FoundOnce /\ Accounted /\ Stages

-----------------------------------------------------------------------------
LEMMA SendingIsFinite ==
    Launched => IsFiniteSet(Sending) /\ Cardinality(Sending) \in Nat
<1>1. SUFFICES ASSUME Launched PROVE IsFiniteSet(Sending) /\ Cardinality(Sending) \in Nat
  OBVIOUS
<1>2. next - 1 \in Int /\ Sending \in SUBSET (1..(next - 1))
  BY <1>1 DEF Launched, Sending
<1>3. IsFiniteSet(1..(next - 1))
  BY <1>2, FS_Interval
<1>4. IsFiniteSet(Sending)
  BY <1>2, <1>3, FS_Subset
<1> QED
  BY <1>4, FS_CardinalityType

LEMMA InvGivesNothingIsLost == NetworkInv => NothingIsLost
<1>1. SUFFICES ASSUME NetworkInv PROVE NothingIsLost
  OBVIOUS
<1>2. closed => \A t \in Tasks : task[t] # "send"
  BY <1>1 DEF NetworkInv, Stages, AllReturned
<1>3. ASSUME stage = "done" PROVE Len(discovered) = Cardinality(found)
  <2>1. Len(channel) = 0
    BY <1>1, <1>3, EmptySeq DEF NetworkInv, Stages
  <2>2. Sending = {}
    BY <1>1, <1>3 DEF NetworkInv, Stages, AllReturned, Sending
  <2>3. Cardinality(Sending) = 0
    BY <2>2, FS_EmptySet
  <2>4. Len(discovered) \in Nat
    BY <1>1, LenProperties DEF NetworkInv, Accounted
  <2> QED
    BY <1>1, <2>1, <2>3, <2>4 DEF NetworkInv, Accounted
<1> QED
  BY <1>1, <1>2, <1>3 DEF NothingIsLost, NetworkInv, Accounted, Sending

LEMMA InitNetworkInv == ScanInit => NetworkInv
<1>1. SUFFICES ASSUME ScanInit PROVE NetworkInv
  OBVIOUS
<1>2. Tasks = {} /\ DOMAIN left = {} /\ Sending = {}
  BY <1>1 DEF ScanInit, Tasks, Sending
<1>3. Launched
  BY <1>1, <1>2 DEF ScanInit, Launched
<1>4. FoundOnce
  BY <1>1, FS_EmptySet DEF ScanInit, FoundOnce
<1>5. Accounted
  <2>1. channel \in Seq({}) /\ discovered \in Seq({}) /\ Len(channel) = 0 /\ Len(discovered) = 0
    BY <1>1, EmptySeq DEF ScanInit
  <2>2. Cardinality(Sending) = 0 /\ Cardinality(found) = 0
    BY <1>1, <1>2, FS_EmptySet DEF ScanInit
  <2> QED
    BY <2>1, <2>2 DEF Accounted
<1>6. Stages
  BY <1>1, <1>2 DEF ScanInit, Stages
<1> QED
  BY <1>3, <1>4, <1>5, <1>6 DEF NetworkInv

-----------------------------------------------------------------------------
(* Scan. *)
\* A step of Scan that starts no goroutine leaves what was found where it is.
LEMMA LoopStep ==
    ASSUME NetworkInv, Stages',
           UNCHANGED <<next, task, left, channel, discovered, found>>
    PROVE  NetworkInv'
<1>1. Tasks' = Tasks /\ Sending' = Sending
  BY DEF Tasks, Sending
<1>2. Launched' /\ FoundOnce'
  BY <1>1 DEF NetworkInv, Launched, FoundOnce
<1>3. Accounted'
  BY <1>1 DEF NetworkInv, Accounted
<1> QED
  BY <1>2, <1>3 DEF NetworkInv

LEMMA SpawnStep == NetworkInv /\ Spawn => NetworkInv'
<1>1. SUFFICES ASSUME NetworkInv, Spawn PROVE NetworkInv'
  OBVIOUS
<1>2. PICK new : new \in {{}, {next}} /\ Start(new)
  BY <1>1 DEF Spawn
<1>3. /\ Tasks' = Tasks \cup new /\ DOMAIN left' = Tasks \cup new
      /\ next \in Nat \ {0} /\ next' = next + 1 /\ next \notin Tasks
      /\ UNCHANGED <<stage, channel, closed, collector, discovered, found>>
  <2>1. Tasks' = Tasks \cup new /\ DOMAIN left' = Tasks \cup new
    BY <1>2 DEF Start, Tasks
  <2>2. next \in Nat \ {0} /\ next \notin Tasks
    BY <1>1 DEF NetworkInv, Launched
  <2> QED
    BY <1>1, <2>1, <2>2 DEF Spawn
<1>4. \A t \in Tasks : t \in Tasks' /\ task'[t] = task[t] /\ left'[t] = left[t]
  BY <1>1, <1>2, <1>3 DEF Start
<1>5. \A t \in new : task'[t] = "mark" /\ left'[t] = Endpoints
  BY <1>2 DEF Start
<1>6. Launched'
  BY <1>1, <1>2, <1>3, <1>4, <1>5 DEF NetworkInv, Launched, Endpoints
<1>7. FoundOnce'
  BY <1>1, <1>3, <1>4 DEF NetworkInv, FoundOnce
<1>8. Accounted'
  <2>1. Sending' = Sending
    BY <1>3, <1>4, <1>5 DEF Sending
  <2> QED
    BY <1>1, <1>3, <2>1 DEF NetworkInv, Accounted
<1>9. Stages'
  BY <1>1, <1>3 DEF NetworkInv, Stages, Spawn
<1> QED
  BY <1>6, <1>7, <1>8, <1>9 DEF NetworkInv

LEMMA ScanStep == NetworkInv /\ Scan => NetworkInv'
<1>1. SUFFICES ASSUME NetworkInv, Scan PROVE NetworkInv'
  OBVIOUS
<1>2. CASE ParsePorts
  <2>1. Stages'
    BY <1>1, <1>2 DEF ParsePorts, NetworkInv, Stages, AllReturned, Tasks
  <2> QED
    BY <1>1, <1>2, <2>1, LoopStep DEF ParsePorts
<1>3. CASE ExpandRange
  <2>1. Stages'
    BY <1>1, <1>3 DEF ExpandRange, NetworkInv, Stages, AllReturned, Tasks
  <2> QED
    BY <1>1, <1>3, <2>1, LoopStep DEF ExpandRange
<1>4. CASE Spawn
  BY <1>1, <1>4, SpawnStep
<1>5. CASE StartCollector
  <2>1. Stages'
    BY <1>1, <1>5 DEF StartCollector, NetworkInv, Stages, AllReturned, Tasks
  <2> QED
    BY <1>1, <1>5, <2>1, LoopStep DEF StartCollector
<1>6. CASE CloseChannel
  <2>1. Stages'
    BY <1>1, <1>6 DEF CloseChannel, NetworkInv, Stages, AllReturned, Tasks
  <2> QED
    BY <1>1, <1>6, <2>1, LoopStep DEF CloseChannel
<1>7. CASE Finish
  <2>1. Stages'
    BY <1>1, <1>7 DEF Finish, NetworkInv, Stages, AllReturned, Tasks
  <2> QED
    BY <1>1, <1>7, <2>1, LoopStep DEF Finish
<1> QED
  BY <1>1, <1>2, <1>3, <1>4, <1>5, <1>6, <1>7 DEF Scan

-----------------------------------------------------------------------------
(* A goroutine. *)
\* A goroutine that has not returned runs before the channel is closed, and
\* whatever it does next it leaves the stage of the scan to Scan.
LEMMA GotoStep ==
    ASSUME NetworkInv, NEW t \in Tasks, task[t] # "end", NEW step, Goto(t, step)
    PROVE  /\ stage \notin {"ports", "collect", "done"} /\ ~closed /\ collector # "done"
           /\ Stages'
           /\ Tasks' = Tasks
           /\ Sending' = IF step = "send" THEN Sending \cup {t} ELSE Sending \ {t}
           /\ task'[t] = step
           /\ \A other \in Tasks \ {t} : task'[other] = task[other]
           /\ next' = next
<1>1. /\ Tasks' = Tasks /\ task'[t] = step
      /\ \A other \in Tasks \ {t} : task'[other] = task[other]
      /\ UNCHANGED <<next, stage, closed, collector>>
  BY DEF Goto, Tasks
<1>2. stage \notin {"ports", "collect", "done"} /\ ~closed /\ collector # "done"
  BY DEF NetworkInv, Stages, AllReturned
<1>3. Stages'
  BY <1>1, <1>2 DEF Stages
<1>4. Sending' = IF step = "send" THEN Sending \cup {t} ELSE Sending \ {t}
  <2>1. \A x : x \in Sending' <=> x \in Tasks /\ task'[x] = "send"
    BY <1>1 DEF Sending
  <2>2. \A x : x \in Sending <=> x \in Tasks /\ task[x] = "send"
    BY DEF Sending
  <2>3. CASE step = "send"
    BY <1>1, <2>1, <2>2, <2>3
  <2>4. CASE step # "send"
    BY <1>1, <2>1, <2>2, <2>4
  <2> QED
    BY <2>3, <2>4
<1> QED
  BY <1>1, <1>2, <1>3, <1>4

\* A goroutine that neither finds nor sends.
LEMMA QuietStep ==
    ASSUME NetworkInv, NEW t \in Tasks, task[t] \notin {"send", "end"},
           NEW step, step # "send", Goto(t, step), step = "probe" => left[t] > 0,
           step = "acquire" => left[t] = Endpoints, step # "mark",
           UNCHANGED <<left, channel, discovered, found>>
    PROVE  NetworkInv'
<1>1. /\ Stages' /\ Tasks' = Tasks /\ next' = next /\ task'[t] = step
      /\ Sending' = Sending \ {t}
      /\ \A other \in Tasks \ {t} : task'[other] = task[other]
  BY GotoStep
<1>2. Sending' = Sending
  BY <1>1 DEF Sending
<1>3. Launched'
  BY <1>1 DEF NetworkInv, Launched
<1>4. FoundOnce' /\ Accounted'
  BY <1>1, <1>2 DEF NetworkInv, FoundOnce, Accounted
<1> QED
  BY <1>1, <1>3, <1>4 DEF NetworkInv

LEMMA DetectStep ==
    ASSUME NetworkInv, NEW t \in Tasks, NEW ok \in BOOLEAN, DetectMCPServer(t, ok)
    PROVE  NetworkInv'
<1> DEFINE step == IF ok THEN "send" ELSE Onward(t)
<1>1. /\ task[t] = "probe" /\ left[t] \in 1..Endpoints
      /\ DOMAIN left' = Tasks /\ left'[t] = left[t] - 1
      /\ \A other \in Tasks \ {t} : left'[other] = left[other]
      /\ channel' = channel /\ discovered' = discovered
  BY DEF DetectMCPServer, NetworkInv, Launched, Endpoints
<1>2. /\ Stages' /\ Tasks' = Tasks /\ next' = next /\ task'[t] = step
      /\ Sending' = IF step = "send" THEN Sending \cup {t} ELSE Sending \ {t}
      /\ \A other \in Tasks \ {t} : task'[other] = task[other]
  BY <1>1, GotoStep DEF DetectMCPServer
<1>3. t \notin Sending
  BY <1>1 DEF Sending
<1>4. step = "probe" => left'[t] > 0
  BY <1>1 DEF Onward, Endpoints
<1>5. Launched'
  <2>1. /\ next' \in Nat \ {0} /\ DOMAIN left' = Tasks'
        /\ \A other \in Tasks' : other \in 1..(next' - 1)
    BY <1>1, <1>2 DEF NetworkInv, Launched
  <2>2. step \in {"send", "release", "probe"}
    BY DEF Onward
  <2>3. ASSUME NEW other \in Tasks
        PROVE  /\ left'[other] \in 0..Endpoints
               /\ task'[other] \in {"mark", "acquire"} => left'[other] = Endpoints
               /\ task'[other] = "probe" => left'[other] > 0
    <3>1. CASE other = t
      BY <1>1, <1>2, <1>4, <2>2, <3>1 DEF Endpoints
    <3>2. CASE other # t
      BY <1>1, <1>2, <3>2 DEF NetworkInv, Launched
    <3> QED
      BY <3>1, <3>2
  <2> QED
    BY <1>2, <2>1, <2>3 DEF Launched
<1>6. ASSUME NEW f \in found
      PROVE  f[1] \in Tasks' /\ f[2] \in 1..Endpoints /\ f[2] > left'[f[1]]
  BY <1>1, <1>2, <1>6 DEF NetworkInv, FoundOnce, Launched, Endpoints
<1>7. CASE ok
  <2>1. found' = found \cup {<<t, left[t]>>} /\ <<t, left[t]>> \notin found
    BY <1>1, <1>7 DEF DetectMCPServer, NetworkInv, FoundOnce, Endpoints
  <2>2. IsFiniteSet(found') /\ Cardinality(found') = Cardinality(found) + 1
    BY <2>1, FS_AddElement DEF NetworkInv, FoundOnce
  <2>3. Cardinality(Sending') = Cardinality(Sending) + 1 /\ Cardinality(Sending) \in Nat
    BY <1>2, <1>3, <1>7, SendingIsFinite, FS_AddElement DEF NetworkInv
  <2>4. FoundOnce'
    BY <1>1, <1>2, <1>6, <2>1, <2>2 DEF FoundOnce, Endpoints
  <2>5. Len(discovered) \in Nat /\ Len(channel) \in Nat
    BY LenProperties DEF NetworkInv, Accounted
  <2>6. Accounted'
    BY <1>1, <2>2, <2>3, <2>5 DEF NetworkInv, Accounted
  <2> QED
    BY <1>2, <1>5, <2>4, <2>6 DEF NetworkInv
<1>8. CASE ~ok
  <2>1. found' = found /\ step # "send"
    BY <1>8 DEF DetectMCPServer, Onward
  <2>2. Sending' = Sending
    BY <1>2, <1>3, <2>1
  <2>3. FoundOnce' /\ Accounted'
    BY <1>1, <1>6, <2>1, <2>2 DEF NetworkInv, FoundOnce, Accounted
  <2> QED
    BY <1>2, <1>5, <2>3 DEF NetworkInv
<1> QED
  BY <1>7, <1>8

LEMMA SendStep ==
    ASSUME NetworkInv, NEW t \in Tasks, SendResult(t)
    PROVE  NetworkInv'
<1> DEFINE step == Onward(t)
<1>1. /\ task[t] = "send" /\ left' = left /\ found' = found /\ discovered' = discovered
      /\ channel' = Append(channel, targets[t])
  BY DEF SendResult
<1>2. step # "send" /\ (step = "probe" => left[t] > 0)
  BY <1>1 DEF Onward, NetworkInv, Launched, Endpoints
<1>3. /\ Stages' /\ Tasks' = Tasks /\ next' = next /\ task'[t] = step
      /\ Sending' = Sending \ {t}
      /\ \A other \in Tasks \ {t} : task'[other] = task[other]
  BY <1>1, <1>2, GotoStep DEF SendResult
<1>4. Launched' /\ FoundOnce'
  <2>1. step \in {"release", "probe"}
    BY DEF Onward
  <2>2. Launched'
    BY <1>1, <1>2, <1>3, <2>1 DEF NetworkInv, Launched
  <2> QED
    BY <1>1, <1>3, <2>2 DEF NetworkInv, FoundOnce
<1>5. Accounted'
  <2>1. PICK S : channel \in Seq(S)
    BY DEF NetworkInv, Accounted
  <2> DEFINE T == S \cup {targets[t]}
  <2>2. channel \in Seq(T) /\ targets[t] \in T
    BY <2>1
  <2>3. channel' \in Seq(T) /\ Len(channel') = Len(channel) + 1 /\ Len(channel) \in Nat
    BY <1>1, <2>2, AppendProperties, LenProperties
  <2>4. Cardinality(Sending') = Cardinality(Sending) - 1 /\ Cardinality(Sending) \in Nat
    <3>1. t \in Sending
      BY <1>1 DEF Sending
    <3> QED
      BY <1>3, <3>1, SendingIsFinite, FS_RemoveElement DEF NetworkInv
  <2>5. Len(discovered) \in Nat
    BY LenProperties DEF NetworkInv, Accounted
  <2>6. \E R : channel' \in Seq(R)
    BY <2>3
  <2> QED
    BY <1>1, <2>3, <2>4, <2>5, <2>6 DEF NetworkInv, Accounted
<1> QED
  BY <1>3, <1>4, <1>5 DEF NetworkInv

LEMMA ReceiveStep == NetworkInv /\ Receive => NetworkInv'
<1>1. SUFFICES ASSUME NetworkInv, Receive PROVE NetworkInv'
  OBVIOUS
<1>2. Tasks' = Tasks /\ Sending' = Sending /\ channel # << >>
  BY <1>1 DEF Receive, Tasks, Sending
<1>3. Launched' /\ FoundOnce'
  BY <1>1, <1>2 DEF Receive, NetworkInv, Launched, FoundOnce
<1>4. Accounted'
  <2>1. PICK S : channel \in Seq(S)
    BY <1>1 DEF NetworkInv, Accounted
  <2>2. PICK R : discovered \in Seq(R)
    BY <1>1 DEF NetworkInv, Accounted
  <2> DEFINE T == R \cup {Head(channel)}
  <2>3. /\ channel' \in Seq(S) /\ Len(channel') = Len(channel) - 1
        /\ Len(channel) \in Nat
    BY <1>1, <1>2, <2>1, HeadTailProperties, LenProperties DEF Receive
  <2>4. discovered \in Seq(T) /\ Head(channel) \in T
    BY <2>2
  <2>5. /\ discovered' \in Seq(T) /\ Len(discovered') = Len(discovered) + 1
        /\ Len(discovered) \in Nat
    BY <1>1, <2>4, AppendProperties, LenProperties DEF Receive
  <2>6. Cardinality(Sending) \in Nat /\ found' = found
    BY <1>1, SendingIsFinite DEF NetworkInv, Receive
  <2>7. (\E Q : channel' \in Seq(Q)) /\ (\E Q : discovered' \in Seq(Q))
    BY <2>3, <2>5
  <2> QED
    BY <1>1, <1>2, <2>3, <2>5, <2>6, <2>7 DEF NetworkInv, Accounted
<1>5. Stages'
  BY <1>1, <1>2 DEF Receive, NetworkInv, Stages, AllReturned
<1> QED
  BY <1>3, <1>4, <1>5 DEF NetworkInv

LEMMA NextNetworkInv == NetworkInv /\ [ScanNext]_scanVars => NetworkInv'
<1>1. SUFFICES ASSUME NetworkInv, [ScanNext]_scanVars PROVE NetworkInv'
  OBVIOUS
<1>2. CASE Scan
  BY <1>1, <1>2, ScanStep
<1>3. CASE Receive
  BY <1>1, <1>3, ReceiveStep
<1>4. CASE EndCollector
  <2>1. Stages'
    BY <1>1, <1>4 DEF EndCollector, NetworkInv, Stages, AllReturned, Tasks
  <2> QED
    BY <1>1, <1>4, <2>1, LoopStep DEF EndCollector
<1>5. ASSUME NEW t \in Tasks, Task(t) PROVE NetworkInv'
  <2>1. CASE MarkScanned(t)
    BY <1>1, <2>1, QuietStep DEF MarkScanned, NetworkInv, Launched
  <2>2. CASE AcquireSemaphore(t)
    BY <1>1, <2>2, QuietStep DEF AcquireSemaphore, NetworkInv, Launched, Endpoints
  <2>3. CASE \E ok \in BOOLEAN : DetectMCPServer(t, ok)
    BY <1>1, <2>3, DetectStep
  <2>4. CASE SendResult(t)
    BY <1>1, <2>4, SendStep
  <2>5. CASE Release(t)
    BY <1>1, <2>5, QuietStep DEF Release
  <2> QED
    BY <1>5, <2>1, <2>2, <2>3, <2>4, <2>5 DEF Task
<1>6. CASE UNCHANGED scanVars
  <2>1. Stages'
    BY <1>1, <1>6 DEF scanVars, NetworkInv, Stages, AllReturned, Tasks
  <2> QED
    BY <1>1, <1>6, <2>1, LoopStep DEF scanVars
<1> QED
  BY <1>1, <1>2, <1>3, <1>4, <1>5, <1>6 DEF ScanNext, Collector, Done, ExpandForEver

\* Scan returns everything its goroutines have found, and no goroutine sends on the
\* channel once it is closed: for any ranges, any limit on the goroutines that probe
\* at a time and any capacity of the channel.
THEOREM ResultsAreReturned == ScanSpec => []NothingIsLost
<1>1. NetworkInv /\ [ScanNext]_scanVars => NetworkInv'
  BY NextNetworkInv
<1>2. ScanInit => NetworkInv
  BY InitNetworkInv
<1>3. NetworkInv => NothingIsLost
  BY InvGivesNothingIsLost
<1> QED
  BY <1>1, <1>2, <1>3, PTL DEF ScanSpec

-----------------------------------------------------------------------------
(***************************************************************************)
(* Proofs about AdapterTokens, for any adapters, requests and objects and  *)
(* any number of tokens.                                                   *)
(*                                                                         *)
(* That a dead token stays dead rests on who shares which object: requests *)
(* share one with the adapter they fetched it from and with nobody else    *)
(* (Owned), no two objects hold the same token (TokensDiffer), and a token *)
(* that is generated is one that nobody has had (Fresh).                   *)
(***************************************************************************)
\* Every token there is was generated or configured.
Fresh ==
  /\ token \in [Objects -> (1 .. issued) \cup {None}]
  /\ file \in [Adapters -> (1 .. issued) \cup {None}]
  /\ dead \subseteq (1 .. issued) \ {None}

\* No token is in two objects, nor is one of the file the token of two adapters.
TokensDiffer == \A o, p \in Objects : token[o] = token[p] /\ token[o] # None => o = p
FileTokensDiffer == \A a, b \in Adapters : file[a] = file[b] /\ file[a] # None => a = b

\* An object is of one adapter: the one that has it, and that requests fetched it from.
Owned ==
  /\ \A a, b \in Adapters : store[a] = store[b] /\ store[a] # None => a = b
  /\ \A r \in Handlers, a \in Adapters :
       at[r] # None /\ store[a] = at[r].object => a = at[r].adapter
  /\ \A r, q \in Handlers :
       at[r] # None /\ at[q] # None /\ at[r].object = at[q].object
         => at[r].adapter = at[q].adapter
  /\ \A r \in Handlers : at[r] # None => at[r].object # None

IInv ==
  /\ TypeOK /\ Fresh /\ TokensDiffer /\ FileTokensDiffer /\ Owned
  /\ OldTokensStayDead /\ RestartKeepsChanges

-----------------------------------------------------------------------------
LEMMA InitIInv == Init => IInv
  BY TokensAssumption
  DEF Init, IInv, TypeOK, Fresh, TokensDiffer, FileTokensDiffer, Owned, OldTokensStayDead,
      RestartKeepsChanges, Accepted, Tokens

\* What a request at work is.
LEMMA AtWork ==
  ASSUME IInv, NEW r \in Handlers, at[r] # None
  PROVE  /\ at[r] \in Requests
         /\ at[r].adapter \in Adapters /\ at[r].object \in Objects
  BY DEF IInv, TypeOK, Requests

\* A token that is accepted was generated before.
LEMMA AcceptedFresh ==
  ASSUME IInv, NEW a \in Adapters
  PROVE  Accepted(a) \in (1 .. issued) \cup {None}
  BY DEF IInv, TypeOK, Fresh, Accepted

\* No two adapters accept the same token.
LEMMA AcceptedDiffer ==
  ASSUME TypeOK, TokensDiffer, Owned, NEW a \in Adapters, NEW b \in Adapters,
         Accepted(a) = Accepted(b), Accepted(a) # None
  PROVE  a = b
  BY DEF TypeOK, TokensDiffer, Owned, Accepted

-----------------------------------------------------------------------------
(***************************************************************************)
(* A change of the store.  Who makes it shows what becomes of the objects; *)
(* the rest is the same for creations, updates and deletions.              *)
(***************************************************************************)
LEMMA StoreStep ==
  ASSUME IInv, NEW a \in Adapters, NEW o \in Objects \cup {None}, StoreAuthentication(a, o),
         token' \in [Objects -> (1 .. issued') \cup {None}],
         issued' \in issued .. MaxTokens,
         valid' \in SUBSET Tokens, at' \in [Handlers -> Requests \cup {None}],
         disturbed \subseteq disturbed', disturbed' \subseteq Adapters,
         TokensDiffer', Owned',
         \A b \in Adapters \ {a} : store[b] # None => token'[store[b]] = token[store[b]],
         a \in disturbed' \/ Accepted(a)' \notin dead
  PROVE  IInv'
<1>1. issued \in Nat /\ issued' \in 0 .. MaxTokens /\ 1 .. issued \subseteq 1 .. issued'
      /\ 1 .. issued' \subseteq Tokens
  BY TokensAssumption DEF IInv, TypeOK, Tokens
<1>2. /\ store' = [store EXCEPT ![a] = o]
      /\ \A b \in Adapters \ {a} : Accepted(b)' = Accepted(b)
      /\ \A b \in Adapters : Accepted(b)' \in (1 .. issued') \cup {None}
  BY DEF IInv, TypeOK, StoreAuthentication, Accepted
<1>3. /\ dead' \subseteq dead \cup {Accepted(a)}
      /\ dead' \subseteq (1 .. issued') \ {None}
      /\ Accepted(a) \in dead' => Accepted(a) \in dead \/ Accepted(a)' # Accepted(a)
  <2>1. dead' \subseteq dead \cup {Accepted(a)}
    BY <1>2 DEF StoreAuthentication, NoteDead
  <2>2. Accepted(a) \in dead' => Accepted(a) \in dead \/ Accepted(a)' # Accepted(a)
    BY <1>2 DEF StoreAuthentication, NoteDead
  <2>3. None \notin dead'
    BY DEF StoreAuthentication, NoteDead
  <2>4. Accepted(a) \in (1 .. issued') \cup {None}
    BY <1>1, AcceptedFresh
  <2>5. dead \subseteq 1 .. issued'
    BY <1>1 DEF IInv, Fresh
  <2> QED
    BY <2>1, <2>2, <2>3, <2>4, <2>5
<1>4. /\ file' \in [Adapters -> (1 .. issued') \cup {None}]
      /\ buried' \subseteq Tokens
  <2>1. CASE file' = file /\ buried' = buried
    BY <1>1, <2>1 DEF IInv, TypeOK, Fresh
  <2>2. CASE file' = [b \in Adapters |-> Accepted(b)'] /\ buried' = dead'
    BY <1>1, <1>2, <1>3, <2>2
  <2> QED
    BY <2>1, <2>2 DEF StoreAuthentication, SaveToFile
<1>5. TypeOK'
  BY <1>1, <1>2, <1>3, <1>4 DEF IInv, TypeOK, Tokens
<1>6. Fresh'
  BY <1>3, <1>4 DEF Fresh
<1>7. FileTokensDiffer'
  <2>1. CASE file' = file
    BY <2>1 DEF IInv, FileTokensDiffer
  <2>2. CASE file' = [b \in Adapters |-> Accepted(b)']
    <3>1. \A b, c \in Adapters : Accepted(b)' = Accepted(c)' /\ Accepted(b)' # None => b = c
      <4>1. \A b \in Adapters : store'[b] \in Objects \cup {None}
        BY <1>5 DEF TypeOK
      <4>2. \A b \in Adapters : Accepted(b)' = IF store'[b] = None THEN None ELSE token'[store'[b]]
        BY DEF Accepted
      <4> QED
        BY <4>1, <4>2 DEF TokensDiffer, Owned
    <3> QED
      BY <2>2, <3>1 DEF FileTokensDiffer
  <2> QED
    BY <2>1, <2>2 DEF StoreAuthentication, SaveToFile
<1>8. OldTokensStayDead'
  <2>1. SUFFICES ASSUME NEW b \in Adapters, b \notin disturbed', Accepted(b)' \in dead'
                 PROVE  FALSE
    BY DEF OldTokensStayDead
  <2>2. b # a
    BY <1>3, <2>1 DEF Accepted
  <2>3. Accepted(b) \notin dead /\ Accepted(b)' = Accepted(b)
    BY <1>2, <2>1, <2>2 DEF IInv, OldTokensStayDead
  <2>4. Accepted(b) = Accepted(a) /\ Accepted(b) # None
    BY <1>3, <2>1, <2>3
  <2> QED
    BY <2>2, <2>4, AcceptedDiffer DEF IInv
<1>9. RestartKeepsChanges'
  <2>1. CASE file' = file /\ buried' = buried
    BY <2>1 DEF IInv, RestartKeepsChanges
  <2>2. CASE file' = [b \in Adapters |-> Accepted(b)'] /\ buried' = dead'
    BY <1>8, <2>2 DEF RestartKeepsChanges, OldTokensStayDead
  <2> QED
    BY <2>1, <2>2 DEF StoreAuthentication, SaveToFile
<1> QED
  BY <1>5, <1>6, <1>7, <1>8, <1>9 DEF IInv

\* A new object is nobody's, and its token is new.
LEMMA NewObjectStep ==
  ASSUME IInv, NEW a \in Adapters, NEW o \in Objects, NewObject(o),
         store' = [store EXCEPT ![a] = o],
         \A r \in Handlers : at'[r] \in {at[r], None}
  PROVE  /\ token' \in [Objects -> (1 .. issued') \cup {None}]
         /\ issued' \in issued .. MaxTokens
         /\ TokensDiffer' /\ Owned'
         /\ \A b \in Adapters \ {a} : store[b] # None => token'[store[b]] = token[store[b]]
         /\ Accepted(a)' \notin dead
<1>1. /\ issued \in Nat /\ MaxTokens \in Nat
      /\ issued' = issued + 1 /\ issued' \in issued .. MaxTokens
      /\ token' = [token EXCEPT ![o] = issued']
      /\ issued' \notin 1 .. issued
      /\ (1 .. issued) \cup {issued'} \subseteq 1 .. issued'
  BY TokensAssumption DEF IInv, TypeOK, NewObject, NextToken
<1>2. /\ token \in [Objects -> (1 .. issued) \cup {None}]
      /\ store \in [Adapters -> Objects \cup {None}]
  BY DEF IInv, TypeOK, Fresh
<1>3. \A b \in Adapters : store[b] # o
  BY DEF NewObject, Free
<1>4. token' \in [Objects -> (1 .. issued') \cup {None}]
  BY <1>1, <1>2
<1>5. TokensDiffer'
  BY <1>1, <1>2 DEF IInv, TokensDiffer
<1>6. Owned'
  BY <1>2, <1>3 DEF IInv, Owned, NewObject, Free
<1>7. \A b \in Adapters \ {a} : store[b] # None => token'[store[b]] = token[store[b]]
  BY <1>1, <1>2, <1>3
<1>8. Accepted(a)' \notin dead
  BY <1>1, <1>2 DEF IInv, Fresh, Accepted
<1> QED
  BY <1>1, <1>4, <1>5, <1>6, <1>7, <1>8

\* A request that fetches an adapter shares its object.
LEMMA GetStep ==
  ASSUME IInv, NEW r \in Handlers,
         NEW op \in {"get", "generate", "refresh", "update", "sync"},
         NEW step \in {"validate", "generate", "store", "update", "writeback"},
         Get(r, op, step)
  PROVE  IInv'
<1>1. PICK a \in Adapters : /\ store[a] # None
                            /\ at' = [at EXCEPT ![r] = Request(op, step, a, store[a])]
  BY DEF Get
<1>2. UNCHANGED <<store, token, file, valid, issued, dead, buried, disturbed>>
  BY DEF Get
<1>3. store[a] \in Objects /\ Request(op, step, a, store[a]) \in Requests
  BY <1>1 DEF IInv, TypeOK, Request, Requests
<1>4. TypeOK'
  BY <1>1, <1>2, <1>3 DEF IInv, TypeOK
<1>5. Owned'
  BY <1>1, <1>2 DEF IInv, TypeOK, Owned, Request
<1> QED
  BY <1>2, <1>4, <1>5
  DEF IInv, Fresh, TokensDiffer, FileTokensDiffer, OldTokensStayDead, RestartKeepsChanges,
      Accepted

\* A request goes on or ends, and nothing else changes.
LEMMA GoOnStep ==
  ASSUME IInv, NEW r \in Handlers, at[r] # None,
         at' \in {[at EXCEPT ![r] = None], [at EXCEPT ![r].step = "generate"]},
         UNCHANGED <<store, token, file, issued, dead, buried, disturbed>>,
         valid' \subseteq valid
  PROVE  IInv'
<1>1. TypeOK'
  BY AtWork DEF IInv, TypeOK, Requests
<1>2. \A q \in Handlers : at'[q] # None =>
        at[q] # None /\ at'[q].adapter = at[q].adapter /\ at'[q].object = at[q].object
  BY AtWork DEF IInv, TypeOK, Requests
<1>3. Owned'
  BY <1>2 DEF IInv, Owned
<1> QED
  BY <1>1, <1>3
  DEF IInv, Fresh, TokensDiffer, FileTokensDiffer, OldTokensStayDead, RestartKeepsChanges,
      Accepted

LEMMA ValidateTokenStep == ASSUME IInv, NEW r \in Handlers, ValidateToken(r) PROVE IInv'
<1>1. CASE token[at[r].object] \in valid \/ at[r].op = "get"
  BY <1>1, GoOnStep DEF ValidateToken, AtStep, End
<1>2. CASE ~(token[at[r].object] \in valid \/ at[r].op = "get")
  BY <1>2, GoOnStep DEF ValidateToken, AtStep
<1> QED
  BY <1>1, <1>2

\* A renewal: the adapter that has the object accepts the new token, and no other changes.
LEMMA GenerateBearerTokenStep ==
  ASSUME IInv, NEW r \in Handlers, GenerateBearerToken(r) PROVE IInv'
<1> DEFINE o == at[r].object
<1>1. /\ issued \in Nat /\ MaxTokens \in Nat
      /\ issued' = issued + 1 /\ issued' \in 0 .. MaxTokens
      /\ issued' \notin 1 .. issued
      /\ (1 .. issued) \cup {issued'} \subseteq 1 .. issued'
      /\ 1 .. issued' \subseteq Tokens
  BY TokensAssumption DEF IInv, TypeOK, GenerateBearerToken, NextToken, Tokens
<1>2. /\ at[r] # None /\ o \in Objects
      /\ token' = [token EXCEPT ![o] = issued']
      /\ valid' = valid \cup {issued'}
      /\ at' = [at EXCEPT ![r].step = "store"]
      /\ NoteDead
      /\ UNCHANGED <<store, file, buried, disturbed>>
  BY <1>1, AtWork DEF GenerateBearerToken, AtStep, NextToken
<1> HIDE DEF o
<1>3. /\ token \in [Objects -> (1 .. issued) \cup {None}]
      /\ store \in [Adapters -> Objects \cup {None}]
  BY DEF IInv, TypeOK, Fresh
<1>4. token' \in [Objects -> (1 .. issued') \cup {None}]
  BY <1>1, <1>2, <1>3
<1>5. TokensDiffer'
  BY <1>1, <1>2, <1>3 DEF IInv, TokensDiffer
<1>6. \A q \in Handlers : at'[q] # None =>
        at[q] # None /\ at'[q].adapter = at[q].adapter /\ at'[q].object = at[q].object
  BY <1>2, AtWork DEF IInv, TypeOK, Requests
<1>7. Owned'
  BY <1>2, <1>6 DEF IInv, Owned
<1>8. dead' = (dead \cup {Accepted(a) : a \in {b \in Adapters : Accepted(b) # Accepted(b)'}}) \ {None}
  BY <1>2 DEF NoteDead
<1>9. dead' \subseteq (1 .. issued) \ {None}
  BY <1>8, AcceptedFresh DEF IInv, Fresh
<1>10. TypeOK'
  <2>1. at' \in [Handlers -> Requests \cup {None}]
    BY <1>2, AtWork DEF IInv, TypeOK, Requests
  <2> QED
    BY <1>1, <1>2, <1>4, <1>9, <2>1 DEF IInv, TypeOK
<1>11. Fresh'
  BY <1>1, <1>2, <1>4, <1>9 DEF IInv, Fresh
<1>12. OldTokensStayDead'
  <2>1. SUFFICES ASSUME NEW b \in Adapters, b \notin disturbed, Accepted(b)' \in dead'
                 PROVE  FALSE
    BY <1>2 DEF OldTokensStayDead
  <2>2. CASE store[b] # o
    <3>1. Accepted(b)' = Accepted(b)
      BY <1>2, <1>3, <2>2 DEF Accepted
    <3>2. Accepted(b) \notin dead /\ Accepted(b) # None
      BY <1>8, <2>1, <3>1 DEF IInv, OldTokensStayDead
    <3>3. PICK c \in Adapters : Accepted(c) # Accepted(c)' /\ Accepted(c) = Accepted(b)
      BY <1>8, <2>1, <3>1, <3>2
    <3>4. b = c
      BY <3>2, <3>3, AcceptedDiffer DEF IInv
    <3> QED
      BY <3>1, <3>3, <3>4 DEF Accepted
  <2>3. CASE store[b] = o
    <3>1. Accepted(b)' \in {issued', None}
      BY <1>2, <1>3, <2>3 DEF Accepted
    <3> QED
      BY <1>1, <1>9, <2>1, <3>1
  <2> QED
    BY <2>2, <2>3
<1> QED
  BY <1>2, <1>5, <1>7, <1>10, <1>11, <1>12 DEF IInv, FileTokensDiffer, RestartKeepsChanges

-----------------------------------------------------------------------------
\* A request that is over leaves its object to the adapter.
LEMMA EndOwned ==
  ASSUME IInv, NEW r \in Handlers, at' = [at EXCEPT ![r] = None], UNCHANGED store
  PROVE  Owned' /\ at' \in [Handlers -> Requests \cup {None}]
  BY DEF IInv, TypeOK, Owned

\* A request that stores an adapter again stores the object that was the adapter's before.
LEMMA SameObjectStep ==
  ASSUME IInv, NEW r \in Handlers, at[r] # None, UNCHANGED <<token, valid, issued>>,
         StoreAuthentication(at[r].adapter, at[r].object), End(r),
         disturbed \subseteq disturbed', disturbed' \subseteq Adapters,
         at[r].adapter \in disturbed' \/ store[at[r].adapter] = at[r].object
  PROVE  IInv'
<1>1. PICK a \in Adapters, o \in Objects : a = at[r].adapter /\ o = at[r].object
  BY AtWork
<1>2. /\ store' = [store EXCEPT ![a] = o] /\ at' = [at EXCEPT ![r] = None]
      /\ StoreAuthentication(a, o)
      /\ o # None
      /\ a \in disturbed' \/ store[a] = o
      /\ \A b \in Adapters : store[b] = o => b = a
      /\ \A q \in Handlers : at[q] # None /\ at[q].object = o => at[q].adapter = a
  BY <1>1 DEF StoreAuthentication, End, IInv, Owned
<1>3. issued' \in issued .. MaxTokens /\ token' \in [Objects -> (1 .. issued') \cup {None}]
      /\ valid' \subseteq Tokens /\ TokensDiffer'
  BY TokensAssumption DEF IInv, TypeOK, Fresh, TokensDiffer
<1>4. store \in [Adapters -> Objects \cup {None}]
  BY DEF IInv, TypeOK
<1>5. Owned'
  <2>1. \A q \in Handlers : at'[q] # None => at'[q] = at[q] /\ at[q] # None
    BY <1>2 DEF IInv, TypeOK
  <2> QED
    BY <1>1, <1>2, <1>4, <2>1 DEF IInv, Owned
<1>6. at' \in [Handlers -> Requests \cup {None}]
  BY <1>2 DEF IInv, TypeOK
<1>7. a \in disturbed' \/ Accepted(a)' \notin dead
  <2>1. CASE store[a] = o /\ a \notin disturbed
    <3>1. Accepted(a)' = Accepted(a)
      BY <1>1, <1>2, <1>4, <2>1 DEF Accepted
    <3> QED
      BY <1>1, <2>1, <3>1 DEF IInv, OldTokensStayDead
  <2>2. CASE a \in disturbed'
    BY <2>2
  <2> QED
    BY <1>2, <2>1, <2>2
<1> QED
  BY <1>1, <1>2, <1>3, <1>5, <1>6, <1>7, StoreStep

LEMMA UpsertAsyncStep == ASSUME IInv, NEW r \in Handlers, UpsertAsync(r) PROVE IInv'
<1>1. at[r] # None /\ at[r].adapter \in Adapters
  BY AtWork DEF UpsertAsync, AtStep
<1>2. CASE store[at[r].adapter] # None
  BY <1>1, <1>2, GoOnStep DEF UpsertAsync, End
<1>3. CASE store[at[r].adapter] = None
  BY <1>1, <1>3, SameObjectStep DEF UpsertAsync, IInv, TypeOK
<1> QED
  BY <1>2, <1>3

LEMMA WriteBackStep == ASSUME IInv, NEW r \in Handlers, WriteBack(r) PROVE IInv'
<1>1. at[r] # None /\ at[r].adapter \in Adapters
  BY AtWork DEF WriteBack, AtStep
<1>2. CASE store[at[r].adapter] = None
  BY <1>1, <1>2, GoOnStep DEF WriteBack, End
<1>3. CASE store[at[r].adapter] # None
  BY <1>1, <1>3, SameObjectStep DEF WriteBack, IInv, TypeOK
<1> QED
  BY <1>2, <1>3

LEMMA CreateAdapterStep == ASSUME IInv, NEW r \in Handlers, CreateAdapter(r) PROVE IInv'
<1>1. PICK a \in Adapters, o \in Objects : NewObject(o) /\ StoreAuthentication(a, o)
  BY DEF CreateAdapter
<1>2. UNCHANGED <<valid, at, disturbed>>
  BY DEF CreateAdapter
<1>3. store' = [store EXCEPT ![a] = o]
  BY <1>1 DEF StoreAuthentication
<1> QED
  BY <1>1, <1>2, <1>3, NewObjectStep, StoreStep DEF IInv, TypeOK

LEMMA UpdateStep == ASSUME IInv, NEW r \in Handlers, Update(r) PROVE IInv'
<1>1. at[r] # None /\ at[r].adapter \in Adapters
  BY AtWork DEF Update, AtStep
<1>2. CASE store[at[r].adapter] = None
  BY <1>1, <1>2, GoOnStep DEF Update, End
<1>3. CASE store[at[r].adapter] # None
  <2>0. PICK a \in Adapters : a = at[r].adapter
    BY <1>1
  <2>1. PICK o \in Objects : NewObject(o) /\ StoreAuthentication(a, o)
    BY <1>3, <2>0 DEF Update
  <2>2. UNCHANGED <<valid, disturbed>> /\ at' = [at EXCEPT ![r] = None] 
    BY DEF Update, End
  <2>3. store' = [store EXCEPT ![a] = o]
    BY <2>1 DEF StoreAuthentication
  <2>4. /\ at' \in [Handlers -> Requests \cup {None}]
        /\ \A q \in Handlers : at'[q] \in {at[q], None}
    BY <2>2 DEF IInv, TypeOK
  <2> QED
    BY <2>1, <2>2, <2>3, <2>4, NewObjectStep, StoreStep DEF IInv, TypeOK
<1> QED
  BY <1>2, <1>3

LEMMA DeleteAdapterStep == ASSUME IInv, NEW r \in Handlers, DeleteAdapter(r) PROVE IInv'
<1>1. PICK a \in Adapters : StoreAuthentication(a, None)
  BY DEF DeleteAdapter
<1>2. UNCHANGED <<token, valid, issued, at, disturbed>>
  BY DEF DeleteAdapter
<1>3. store' = [store EXCEPT ![a] = None] /\ store \in [Adapters -> Objects \cup {None}]
  BY <1>1 DEF StoreAuthentication, IInv, TypeOK
<1>4. issued' \in issued .. MaxTokens /\ token' \in [Objects -> (1 .. issued') \cup {None}]
      /\ TokensDiffer'
  BY <1>2, TokensAssumption DEF IInv, TypeOK, Fresh, TokensDiffer
<1>5. Owned'
  BY <1>2, <1>3 DEF IInv, Owned
<1>6. Accepted(a)' \notin dead
  BY <1>3 DEF IInv, Fresh, Accepted
<1> QED
  BY <1>1, <1>2, <1>4, <1>5, <1>6, StoreStep DEF IInv, TypeOK

-----------------------------------------------------------------------------
\* After a restart every adapter has an object of its own, with its token from the file.
LEMMA RestartStep == ASSUME IInv, Restart PROVE IInv'
<1>1. PICK f \in [Adapters -> Objects] :
        /\ \A a, b \in Adapters : f[a] = f[b] => a = b
        /\ store' = [a \in Adapters |-> IF file[a] = None THEN None ELSE f[a]]
        /\ token' = [o \in Objects |-> IF \E a \in Adapters : f[a] = o
                                         THEN file[CHOOSE a \in Adapters : f[a] = o] ELSE None]
  BY DEF Restart, LoadFromFile
<1>2. /\ valid' = {} /\ at' = [r \in Handlers |-> None]
      /\ dead' = dead \ {file[a] : a \in Adapters}
      /\ UNCHANGED <<file, issued, buried, disturbed>>
  BY DEF Restart
<1>3. \A a \in Adapters : token'[f[a]] = file[a]
  <2>1. TAKE a \in Adapters
  <2>2. (CHOOSE b \in Adapters : f[b] = f[a]) = a
    BY <1>1
  <2> QED
    BY <1>1, <2>2
<1>4. \A o \in Objects : token'[o] # None => \E a \in Adapters : f[a] = o /\ token'[o] = file[a]
  BY <1>1, <1>3
<1>5. token' \in [Objects -> (1 .. issued) \cup {None}]
  BY <1>1, <1>4 DEF IInv, Fresh
<1>6. TypeOK'
  BY <1>1, <1>2, <1>5, TokensAssumption DEF IInv, TypeOK, Tokens
<1>7. Fresh'
  BY <1>2, <1>5 DEF IInv, Fresh
<1>8. TokensDiffer' /\ FileTokensDiffer'
  BY <1>2, <1>4 DEF IInv, TokensDiffer, FileTokensDiffer
<1>9. Owned'
  BY <1>1, <1>2 DEF Owned
<1>10. \A a \in Adapters : Accepted(a)' \in {file[a], None}
  BY <1>1, <1>3 DEF Accepted
<1>11. OldTokensStayDead' /\ RestartKeepsChanges'
  BY <1>2, <1>10 DEF IInv, Fresh, OldTokensStayDead, RestartKeepsChanges
<1> QED
  BY <1>6, <1>7, <1>8, <1>9, <1>11 DEF IInv

LEMMA ExpireTokenStep == ASSUME IInv, ExpireToken \/ UNCHANGED vars PROVE IInv'
<1>1. UNCHANGED <<store, token, file, issued, at, dead, buried, disturbed>> /\ valid' \subseteq valid
  BY DEF ExpireToken, vars
<1> QED
  BY <1>1
  DEF IInv, TypeOK, Fresh, TokensDiffer, FileTokensDiffer, Owned, OldTokensStayDead,
      RestartKeepsChanges, Accepted

LEMMA Invariance == Spec => []IInv
<1>1. IInv /\ [Next]_vars => IInv'
  BY GetStep, ValidateTokenStep, GenerateBearerTokenStep, UpsertAsyncStep, CreateAdapterStep,
     UpdateStep, WriteBackStep, DeleteAdapterStep, RestartStep, ExpireTokenStep
  DEF Next, GetAdapterToken, RefreshToken, UpdateAdapter, SyncAdapter
<1> QED
  BY InitIInv, <1>1, PTL DEF Spec

\* The adapters, their Authentication objects and what requests hold of them keep their types.
THEOREM TokensTyped == Spec => []TypeOK
  BY Invariance, PTL DEF IInv

\* However many requests share an adapter's Authentication object with the store and write it
\* back, a token that was renewed or whose adapter was deleted is not accepted again.
THEOREM TokensStayDead == Spec => []OldTokensStayDead
  BY Invariance, PTL DEF IInv

\* The file of FileAdapterStore holds no token that was dead when a change was last saved.
THEOREM RestartsKeepChanges == Spec => []RestartKeepsChanges
  BY Invariance, PTL DEF IInv

-----------------------------------------------------------------------------
(***************************************************************************)
(* Credentials.  For each type of configuration, what is signed with one   *)
(* that Static describes, if it can be signed at all.                      *)
(***************************************************************************)
LEMMA BearerSigned ==
  ASSUME NEW auth \in Configs, auth.required, auth.type = "bearer", Static(auth),
         NEW sent \in Signatures(auth) \cup {GetClientToken(auth)}, sent # Failed
  PROVE  auth.part # None /\ sent = Bearer(auth.part.token)
<1> USE DEF StreamableHTTPSigns, RemotePluginSigns
<1>1. CASE auth.part = None
  <2>1. BearerAuth(auth.part) = Failed
    BY <1>1 DEF BearerAuth
  <2>2. MessageRouterSigns(auth) = Failed
    BY <2>1 DEF MessageRouterSigns
  <2>3. RemoteAdapterSigns(auth) = Failed
    BY <1>1, <2>2 DEF RemoteAdapterSigns
  <2>4. ApplyAuthToRequest(auth) = Failed
    BY <1>1, <2>3 DEF ApplyAuthToRequest
  <2>5. GetClientToken(auth) = Failed
    BY <1>1 DEF GetClientToken
  <2> QED
    BY <2>2, <2>3, <2>4, <2>5 DEF Signatures
<1>2. CASE auth.part # None
  <2>1. auth.part.token # ""
    BY DEF Static
  <2>2. BearerAuth(auth.part) = Bearer(auth.part.token)
    BY <1>2, <2>1 DEF BearerAuth
  <2>3. MessageRouterSigns(auth) = Bearer(auth.part.token)
    BY <2>2 DEF MessageRouterSigns
  <2>4. RemoteAdapterSigns(auth) = Bearer(auth.part.token)
    BY <2>3 DEF RemoteAdapterSigns
  <2>5. ApplyAuthToRequest(auth) = Bearer(auth.part.token)
    BY <2>1, <2>4 DEF ApplyAuthToRequest
  <2>6. GetClientToken(auth) = Bearer(auth.part.token)
    BY <1>2, <2>1 DEF GetClientToken
  <2> QED
    BY <1>2, <2>3, <2>4, <2>5, <2>6 DEF Signatures
<1> QED
  BY <1>1, <1>2

LEMMA BasicSigned ==
  ASSUME NEW auth \in Configs, auth.required, auth.type = "basic",
         NEW sent \in Signatures(auth) \cup {GetClientToken(auth)}, sent # Failed
  PROVE  auth.part # None /\ sent = Basic(auth.part.username, auth.part.password)
<1> USE DEF StreamableHTTPSigns, RemotePluginSigns
<1>1. MessageRouterSigns(auth) = BasicAuth(auth.part)
  BY DEF MessageRouterSigns
<1>2. RemoteAdapterSigns(auth) = BasicAuth(auth.part)
  BY <1>1 DEF RemoteAdapterSigns
<1>3. ApplyAuthToRequest(auth) = BasicAuth(auth.part)
  BY <1>2 DEF ApplyAuthToRequest
<1>4. GetClientToken(auth) = BasicAuth(auth.part)
  <2>1. CASE auth.part = None
    BY <2>1 DEF GetClientToken, BasicAuth
  <2>2. CASE auth.part # None
    BY <2>2 DEF GetClientToken, BasicAuth
  <2> QED
    BY <2>1, <2>2
<1>5. sent = BasicAuth(auth.part)
  BY <1>1, <1>2, <1>3, <1>4 DEF Signatures
<1> QED
  BY <1>5 DEF BasicAuth

LEMMA KeySigned ==
  ASSUME NEW auth \in Configs, auth.required, auth.type = "apikey", Static(auth),
         NEW sent \in Signatures(auth) \cup {GetClientToken(auth)}, sent # Failed
  PROVE  /\ auth.part # None
         /\ sent = Key(ToLower(auth.part.location), auth.part.name, auth.part.key)
<1> USE DEF StreamableHTTPSigns, RemotePluginSigns
<1> DEFINE key == Key(ToLower(auth.part.location), auth.part.name, auth.part.key)
<1>1. CASE auth.part = None
  <2>1. MessageRouterSigns(auth) = Failed
    BY <1>1 DEF MessageRouterSigns
  <2>2. RemoteAdapterSigns(auth) = Failed
    BY <1>1, <2>1 DEF RemoteAdapterSigns
  <2>3. ApplyAuthToRequest(auth) = Failed
    BY <2>2 DEF ApplyAuthToRequest
  <2>4. GetClientToken(auth) = Failed
    BY <1>1 DEF GetClientToken
  <2> QED
    BY <2>1, <2>2, <2>3, <2>4 DEF Signatures
<1>2. CASE auth.part # None
  <2>1. ToLower(auth.part.location) \in Supported
    BY DEF Static
  <2>2. MessageRouterSigns(auth) \in {key, Failed}
    <3>1. MessageRouterSigns(auth) = APIKeyAuth(auth.part, auth.part.location)
      BY <1>2 DEF MessageRouterSigns
    <3>2. auth.part.location \in Supported => ToLower(auth.part.location) = auth.part.location
      BY DEF Supported, ToLower
    <3> QED
      BY <3>1, <3>2 DEF APIKeyAuth
  <2>3. RemoteAdapterSigns(auth) = key
    BY <1>2, <2>1 DEF RemoteAdapterSigns, APIKeyAuth
  <2>4. ApplyAuthToRequest(auth) = key
    BY <2>3 DEF ApplyAuthToRequest
  <2>5. GetClientToken(auth) = key
    BY <1>2 DEF GetClientToken
  <2> QED
    BY <1>2, <2>2, <2>3, <2>4, <2>5 DEF Signatures
<1> QED
  BY <1>1, <1>2

\* What is signed with a configuration is let in with it.
LEMMA SignedIsLetIn ==
  ASSUME NEW auth \in Configs, auth.required, Static(auth),
         NEW sent \in Signatures(auth) \cup {GetClientToken(auth)}, sent # Failed
  PROVE  /\ ValidateClientAuthentication(auth, sent)
         /\ auth.type = "bearer" => AdapterAuthMiddleware(auth, sent, {})
<1>1. CASE auth.type = "bearer"
  <2>1. auth.part # None /\ sent = Bearer(auth.part.token) /\ auth.part.token # ""
    BY <1>1, BearerSigned DEF Static
  <2>2. sent.by = "bearer" /\ sent.token = auth.part.token
    BY <2>1 DEF Bearer
  <2> QED
    BY <1>1, <2>1, <2>2
    DEF ValidateClientAuthentication, ValidateBearerAuth, AdapterAuthMiddleware,
        ExtractTokenFromHeader
<1>2. CASE auth.type = "basic"
  <2>1. auth.part # None /\ sent = Basic(auth.part.username, auth.part.password)
    BY <1>2, BasicSigned
  <2>2. sent.by = "basic" /\ sent.username = auth.part.username
          /\ sent.password = auth.part.password
    BY <2>1 DEF Basic
  <2> QED
    BY <1>2, <2>1, <2>2 DEF ValidateClientAuthentication, ValidateBasicAuth
<1>3. CASE auth.type = "apikey"
  <2>1. /\ auth.part # None
        /\ sent = Key(ToLower(auth.part.location), auth.part.name, auth.part.key)
        /\ auth.part.key # "" /\ ToLower(auth.part.location) \in Supported
    BY <1>3, KeySigned DEF Static
  <2>2. sent.by = ToLower(auth.part.location) /\ sent.name = auth.part.name
          /\ sent.key = auth.part.key
    BY <2>1 DEF Key
  <2> QED
    BY <1>3, <2>1, <2>2 DEF ValidateClientAuthentication, ValidateAPIKeyAuth
<1> QED
  BY <1>1, <1>2, <1>3 DEF Static

\* What is called valid can be signed with everywhere.
LEMMA ValidSigns ==
  ASSUME NEW auth \in Configs, auth.required, ValidateAuthConfig(auth) # None,
         Static(ValidateAuthConfig(auth))
  PROVE  Failed \notin Signatures(ValidateAuthConfig(auth))
<1> USE DEF StreamableHTTPSigns, RemotePluginSigns
<1> DEFINE checked == ValidateAuthConfig(auth)
\* Nobody fails but by what MessageRouter does with the configuration.
<1>1. ASSUME checked.required, checked.part # None, checked.type # "apikey",
             MessageRouterSigns(checked) # Failed
      PROVE  Failed \notin Signatures(checked)
  <2>1. RemoteAdapterSigns(checked) = MessageRouterSigns(checked)
    BY <1>1 DEF RemoteAdapterSigns
  <2>2. ApplyAuthToRequest(checked) # Failed
    <3>1. Bearer(Generated) # Failed
      BY DEF Bearer, Failed
    <3> QED
      BY <1>1, <2>1, <3>1 DEF ApplyAuthToRequest
  <2> QED
    BY <1>1, <2>1, <2>2 DEF Signatures
<1>2. CASE auth.type = "none"
  BY <1>2 DEF ValidateAuthConfig, Static
<1>3. auth.type # "none" => auth.part # None
  BY DEF ValidateAuthConfig
<1>4. CASE auth.type = "bearer"
  <2>1. checked = auth
    BY <1>3, <1>4 DEF ValidateAuthConfig
  <2>2. auth.part.token # ""
    BY <1>4, <2>1 DEF Static
  <2>3. MessageRouterSigns(auth) = Bearer(auth.part.token)
    BY <1>3, <1>4, <2>2 DEF MessageRouterSigns, BearerAuth
  <2>4. Bearer(auth.part.token) # Failed
    BY DEF Bearer, Failed
  <2> QED
    BY <1>1, <1>3, <1>4, <2>1, <2>3, <2>4
<1>5. CASE auth.type = "basic"
  <2>1. checked = auth
    BY <1>3, <1>5 DEF ValidateAuthConfig
  <2>2. MessageRouterSigns(auth) = Basic(auth.part.username, auth.part.password)
    BY <1>3, <1>5 DEF MessageRouterSigns, BasicAuth
  <2>3. Basic(auth.part.username, auth.part.password) # Failed
    BY DEF Basic, Failed
  <2> QED
    BY <1>1, <1>3, <1>5, <2>1, <2>2, <2>3
<1>6. CASE auth.type = "oauth"
  <2>1. checked = auth
    BY <1>3, <1>6 DEF ValidateAuthConfig
  <2> QED
    BY <1>6, <2>1 DEF Static
<1>7. CASE auth.type = "apikey"
  <2> DEFINE key == [auth.part EXCEPT !.location = IF @ = "" THEN "header" ELSE @,
                                      !.name = IF @ = "" THEN "X-Key" ELSE @]
  <2>1. /\ auth = [required |-> auth.required, type |-> "apikey", part |-> auth.part]
        /\ auth.part \in APIKeyParts
    BY <1>3, <1>7 DEF Configs, AdapterAuthConfig
  <2>2. key \in APIKeyParts
    BY <2>1 DEF APIKeyParts, Locations
  <2> HIDE DEF key
  <2>3. key # None
    BY <2>2, CredentialsAssumption
  <2>4. key.location \in Supported /\ checked = [auth EXCEPT !.part = key]
    BY <1>3, <1>7 DEF ValidateAuthConfig, key
  <2>5. /\ checked.required /\ checked.type = "apikey" /\ checked.part = key
        /\ key.location \in Supported /\ ToLower(key.location) = key.location
    BY <2>1, <2>4 DEF Supported, ToLower
  <2> DEFINE signed == Key(key.location, key.name, key.key)
  <2>6. MessageRouterSigns(checked) = signed
    BY <2>3, <2>5 DEF MessageRouterSigns, APIKeyAuth
  <2>7. RemoteAdapterSigns(checked) = signed
    BY <2>3, <2>5 DEF RemoteAdapterSigns, APIKeyAuth
  <2>8. ApplyAuthToRequest(checked) = signed
    BY <2>5, <2>7 DEF ApplyAuthToRequest
  <2>9. signed # Failed
    BY <2>5 DEF Key, Failed, Supported
  <2> QED
    BY <2>6, <2>7, <2>8, <2>9 DEF Signatures
<1> QED
  BY <1>2, <1>4, <1>5, <1>6, <1>7 DEF Configs, AdapterAuthConfig

LEMMA CredentialsFit == SidesAgree
<1> SUFFICES ASSUME NEW auth \in Configs, auth.required
             PROVE  /\ \A sent \in (Signatures(auth) \cup {GetClientToken(auth)}) \ {Failed} :
                         (Static(auth) /\ Intact(sent)) =>
                           /\ ValidateClientAuthentication(auth, Received(sent))
                           /\ auth.type = "bearer" =>
                                AdapterAuthMiddleware(auth, Received(sent), {})
                    /\ LET checked == ValidateAuthConfig(auth)
                       IN (checked # None /\ Static(checked)) => Failed \notin Signatures(checked)
  BY DEF SidesAgree
<1>1. ASSUME NEW sent \in (Signatures(auth) \cup {GetClientToken(auth)}) \ {Failed},
             Static(auth), Intact(sent)
      PROVE  /\ ValidateClientAuthentication(auth, Received(sent))
             /\ auth.type = "bearer" => AdapterAuthMiddleware(auth, Received(sent), {})
  <2>1. Received(sent) = sent
    BY <1>1 DEF Intact
  <2> QED
    BY <1>1, <2>1, SignedIsLetIn
<1> QED
  BY <1>1, ValidSigns

\* Whatever adapters are stored: signing, letting in and telling are done by the same reading of
\* an AdapterAuthConfig, and one that is called valid can be used.
THEOREM CredentialsHold == Spec => []CredentialsAgree
<1>1. CredentialsAgree
  BY CredentialsFit DEF CredentialsAgree
<1> QED
  BY <1>1, PTL
=============================================================================
