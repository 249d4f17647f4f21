------------------------- MODULE JobDispatchProofs --------------------------
(***************************************************************************)
(* Theorems about JobDispatch, for any sets of jobs and goroutines, any    *)
(* capacity of the semaphore and any bounds.                               *)
(***************************************************************************)
EXTENDS JobDispatch, FiniteSetTheorems, TLAPS

(* A goroutine that exists works for a job.                                *)
LiveHasJob == \A g \in Live : gjob[g] \in Jobs

(* While a new binary is downloaded no job is active.                      *)
Drained == hb = "downloading" => activeJobs = {}

(* The inductive invariant. SingleExecution is what lets Clear take one    *)
(* id out of activeJobs and leave the others' goroutines covered;          *)
(* SemaphoreExact is what keeps slots from going below zero at Release;    *)
(* Drained is what makes the count read before the download still true     *)
(* after it.                                                               *)
ExecInv == LiveHasJob /\ SingleExecution /\ ActiveJobsExact /\ SemaphoreExact

IInv == TypeOK /\ ExecInv /\ Drained

-----------------------------------------------------------------------------

\* The tokens a finite set of goroutines holds can be counted.
LEMMA HoldingFinite ==
    IsFiniteSet(Holding) /\ Cardinality(Holding) \in Nat
<1>1. IsFiniteSet(Holding)
  BY ConstantsOK, FS_Subset DEF Holding
<1>2. QED
  BY <1>1, FS_CardinalityType

\* The initial state satisfies the inductive invariant.
LEMMA InitIInv == Init => IInv
<1> SUFFICES ASSUME Init PROVE IInv
  OBVIOUS
<1> USE DEF Init, FreshProcess
<1>1. TypeOK
  BY ConstantsOK DEF TypeOK, Status
<1>2. Live = {} /\ Holding = {}
  BY DEF Live, Holding, Held
<1>3. ExecInv
  BY <1>2, ConstantsOK, FS_EmptySet
  DEF ExecInv, LiveHasJob, SingleExecution, ActiveJobsExact, SemaphoreExact
<1>4. QED
  BY <1>1, <1>3 DEF IInv, Drained

\* What leaves the executor alone keeps its part of the invariant.
LEMMA ExecStutter ==
    ASSUME ExecInv, UNCHANGED execVars
    PROVE  ExecInv'
<1>1. Live' = Live /\ Holding' = Holding
  BY DEF execVars, Live, Holding
<1>2. QED
  BY <1>1
  DEF ExecInv, LiveHasJob, SingleExecution, ActiveJobsExact, SemaphoreExact, execVars

\* The control plane, the heartbeat goroutine outside of DispatchStart, the
\* direct jobs and the operator leave the executor alone.
LEMMA QuietStep ==
    ASSUME IInv,
           \/ \E j \in Jobs : ApiQueueJob(j) \/ DispatchSkip(j)
           \/ \E d \in DirectJobs : DirectAccept(d) \/ DirectFinish(d)
           \/ ApiAdvertise \/ ApiAnswerHeartbeat
           \/ HbSend \/ HbFail \/ HbStop \/ HbReceive
           \/ UpdateFail \/ UpdateInstall \/ UpdateRestartFails \/ DispatchEnd
           \/ OperatorStop
    PROVE  IInv'
<1> USE DEF IInv, TypeOK, Drained, hbVars, apiVars, procVars
<1>1. CASE \E j \in Jobs : ApiQueueJob(j)
  BY <1>1, ExecStutter DEF ApiQueueJob, execVars
<1>2. CASE \E j \in Jobs : DispatchSkip(j)
  BY <1>2, ExecStutter DEF DispatchSkip, Rest, execVars
<1>3. CASE \E d \in DirectJobs : DirectAccept(d) \/ DirectFinish(d)
  BY <1>3, ConstantsOK, ExecStutter DEF DirectAccept, DirectFinish, execVars
<1>4. CASE ApiAdvertise \/ ApiAnswerHeartbeat
  BY <1>4, ConstantsOK, ExecStutter DEF ApiAdvertise, ApiAnswerHeartbeat, execVars
<1>5. CASE HbSend \/ HbFail \/ HbStop \/ UpdateFail \/ DispatchEnd
  BY <1>5, ExecStutter DEF HbSend, HbFail, HbStop, UpdateFail, DispatchEnd, execVars
<1>6. CASE HbReceive
  BY <1>6, ExecStutter DEF HbReceive, UpdateAllowed, execVars
<1>7. CASE UpdateInstall \/ UpdateRestartFails
  BY <1>7, ExecStutter
  DEF UpdateInstall, UpdateRestartFails, InstallBinary, execVars
<1>8. CASE OperatorStop
  BY <1>8, ConstantsOK, ExecStutter DEF OperatorStop, execVars
<1>9. QED
  BY <1>1, <1>2, <1>3, <1>4, <1>5, <1>6, <1>7, <1>8

\* DispatchStart: the new goroutine is the only one for its id, because the
\* id was in no live goroutine when it was not in activeJobs.
LEMMA DispatchStartStep ==
    ASSUME IInv, NEW j \in Jobs, NEW g \in Goroutines, DispatchStart(j, g)
    PROVE  IInv'
<1> USE DEF DispatchStart, AlreadyActive, Rest
<1>1. TypeOK'
  BY DEF IInv, TypeOK, Held, apiVars, procVars
<1>2. /\ gpc \in [Goroutines -> Held \cup {"none", "queued", "clearing"}]
      /\ gjob \in [Goroutines -> Jobs \cup {NoJob}]
  BY DEF IInv, TypeOK
<1>3. Live' = Live \cup {g} /\ g \notin Live
  BY <1>2 DEF Live
<1>4. \A h \in Live : gjob'[h] = gjob[h]
  BY <1>2, <1>3 DEF Live
<1>5. gjob'[g] = j
  BY <1>2
<1>6. LiveHasJob' /\ ActiveJobsExact'
  BY <1>3, <1>4, <1>5 DEF IInv, ExecInv, LiveHasJob, ActiveJobsExact
<1>7. SingleExecution'
  BY <1>3, <1>4, <1>5 DEF IInv, ExecInv, ActiveJobsExact, SingleExecution
<1>8. SemaphoreExact'
  <2>1. Holding' = Holding
    BY <1>2 DEF Holding, Held
  <2>2. QED
    BY <2>1 DEF IInv, ExecInv, SemaphoreExact
<1>9. Drained'
  BY DEF Drained
<1>a. QED
  BY <1>1, <1>6, <1>7, <1>8, <1>9 DEF IInv, ExecInv

\* A step of a goroutine that stays alive disturbs nothing but the count of
\* tokens, which HoldingStep keeps.
LEMMA JobStepStep ==
    ASSUME IInv, NEW g \in Goroutines, JobStep(g)
    PROVE  IInv'
<1> USE DEF IInv
<1>1. /\ gpc \in [Goroutines -> Held \cup {"none", "queued", "clearing"}]
      /\ slots \in Int /\ MaxConcurrentJobs \in Int
  BY ConstantsOK DEF TypeOK
<1>2. ASSUME UNCHANGED <<gjob, activeJobs>>, Live' = Live
      PROVE  LiveHasJob' /\ SingleExecution' /\ ActiveJobsExact'
  BY <1>2 DEF ExecInv, LiveHasJob, SingleExecution, ActiveJobsExact
<1>3. ASSUME UNCHANGED <<hb, activeJobs>> PROVE Drained'
  BY <1>3 DEF Drained
<1>4. CASE Acquire(g)
  <2> USE DEF Acquire, SlotFree
  <2>1. TypeOK'
    BY <1>4, ConstantsOK DEF TypeOK, Held, apiVars, hbVars, procVars
  <2>2. Live' = Live
    BY <1>4, <1>1 DEF Live
  <2>3. SemaphoreExact'
    <3>1. Holding' = Holding \cup {g} /\ g \notin Holding
      BY <1>4, <1>1 DEF Holding, Held
    <3>2. Cardinality(Holding') = Cardinality(Holding) + 1
      BY <3>1, HoldingFinite, FS_AddElement
    <3>3. QED
      BY <1>4, <1>1, <3>2 DEF ExecInv, SemaphoreExact
  <2>4. QED
    BY <1>2, <1>3, <1>4, <2>1, <2>2, <2>3 DEF ExecInv, hbVars
<1>5. CASE ExecuteJob(g)
  <2> USE DEF ExecuteJob
  <2>1. TypeOK'
    BY <1>5 DEF TypeOK, Held, apiVars, hbVars, procVars, Outcomes, Status
  <2>2. Live' = Live
    BY <1>5, <1>1 DEF Live
  <2>3. SemaphoreExact'
    <3>1. Holding' = Holding
      BY <1>5, <1>1 DEF Holding, Held
    <3>2. QED
      BY <1>5, <3>1 DEF ExecInv, SemaphoreExact
  <2>4. QED
    BY <1>2, <1>3, <1>5, <2>1, <2>2, <2>3 DEF ExecInv, hbVars
<1>6. CASE Record(g)
  <2> USE DEF Record
  <2>1. TypeOK'
    BY <1>6 DEF TypeOK, Held, apiVars, hbVars, procVars, Status
  <2>2. Live' = Live
    BY <1>6, <1>1 DEF Live
  <2>3. SemaphoreExact'
    <3>1. Holding' = Holding
      BY <1>6, <1>1 DEF Holding, Held
    <3>2. QED
      BY <1>6, <3>1 DEF ExecInv, SemaphoreExact
  <2>4. QED
    BY <1>2, <1>3, <1>6, <2>1, <2>2, <2>3 DEF ExecInv, hbVars
<1>7. CASE ReportDelivered(g) \/ ReportLost(g)
  <2> USE DEF ReportDelivered, ReportLost
  <2>1. TypeOK'
    BY <1>7 DEF TypeOK, Held, apiVars, hbVars, procVars, Status
  <2>2. Live' = Live
    BY <1>7, <1>1 DEF Live
  <2>3. SemaphoreExact'
    <3>1. Holding' = Holding
      BY <1>7, <1>1 DEF Holding, Held
    <3>2. QED
      BY <1>7, <3>1 DEF ExecInv, SemaphoreExact
  <2>4. QED
    BY <1>2, <1>3, <1>7, <2>1, <2>2, <2>3 DEF ExecInv, hbVars
<1>8. CASE Release(g)
  <2> USE DEF Release, TokensAfter
  <2>1. SemaphoreExact' /\ slots > 0
    <3>1. Holding' = Holding \ {g} /\ g \in Holding
      BY <1>8, <1>1 DEF Holding, Held
    <3>2. Cardinality(Holding') = Cardinality(Holding) - 1 /\ Cardinality(Holding) # 0
      BY <3>1, HoldingFinite, FS_RemoveElement, FS_EmptySet
    <3>3. QED
      BY <1>8, <1>1, <3>2, HoldingFinite DEF ExecInv, SemaphoreExact
  <2>2. TypeOK'
    BY <1>8, <2>1, ConstantsOK DEF TypeOK, Held, apiVars, hbVars, procVars
  <2>3. Live' = Live
    BY <1>8, <1>1 DEF Live
  <2>4. QED
    BY <1>2, <1>3, <1>8, <2>1, <2>2, <2>3 DEF ExecInv, hbVars
<1>9. CASE Clear(g)
  <2> USE DEF Clear, ActiveAfter
  <2>1. TypeOK'
    BY <1>9 DEF TypeOK, Held, apiVars, hbVars, procVars, Status
  <2>2. Live' = Live \ {g} /\ g \in Live
    BY <1>9, <1>1 DEF Live
  <2>3. \A h \in Live' : gjob'[h] = gjob[h]
    BY <1>9, <2>2 DEF TypeOK, Live
  <2>4. LiveHasJob' /\ SingleExecution'
    BY <2>2, <2>3 DEF ExecInv, LiveHasJob, SingleExecution
  <2>5. ActiveJobsExact'
    BY <1>9, <2>2, <2>3 DEF ExecInv, SingleExecution, ActiveJobsExact
  <2>6. SemaphoreExact'
    <3>1. Holding' = Holding
      BY <1>9, <1>1 DEF Holding, Held
    <3>2. QED
      BY <1>9, <3>1 DEF ExecInv, SemaphoreExact
  <2>7. Drained'
    BY <1>9 DEF Drained, hbVars
  <2>8. QED
    BY <2>1, <2>4, <2>5, <2>6, <2>7 DEF ExecInv
<1>a. QED
  BY <1>4, <1>5, <1>6, <1>7, <1>8, <1>9 DEF JobStep

\* A new process starts with nothing live.
LEMMA RebornStep ==
    ASSUME IInv, KillAfterStop \/ Crash
    PROVE  IInv'
<1> USE DEF KillAfterStop, Crash, Reborn
<1>1. TypeOK'
  BY ConstantsOK DEF IInv, TypeOK, Held, apiVars, Status
<1>2. Live' = {} /\ Holding' = {}
  BY DEF Live, Holding, Held
<1>3. ExecInv'
  BY <1>2, ConstantsOK, FS_EmptySet
  DEF ExecInv, LiveHasJob, SingleExecution, ActiveJobsExact, SemaphoreExact
<1>4. QED
  BY <1>1, <1>3 DEF IInv, Drained

LEMMA NextIInv == IInv /\ [Next]_vars => IInv'
<1> SUFFICES ASSUME IInv, [Next]_vars PROVE IInv'
  OBVIOUS
<1>1. CASE UNCHANGED vars
  <2>1. ExecInv'
    BY <1>1, ExecStutter DEF IInv, vars
  <2>2. TypeOK' /\ Drained'
    BY <1>1 DEF IInv, TypeOK, Drained, vars, apiVars, hbVars, execVars, procVars
  <2>3. QED
    BY <2>1, <2>2 DEF IInv
<1>2. CASE \E j \in Jobs, g \in Goroutines : DispatchStart(j, g)
  BY <1>2, DispatchStartStep
<1>3. CASE \E g \in Goroutines : JobStep(g)
  BY <1>3, JobStepStep
<1>4. CASE KillAfterStop \/ Crash
  BY <1>4, RebornStep
<1>5. QED
  BY <1>1, <1>2, <1>3, <1>4, QuietStep DEF Next

\* The inductive invariant holds throughout every behavior.
THEOREM Invariance == Spec => []IInv
  BY InitIInv, NextIInv, PTL DEF Spec

\* Every variable keeps its type; in particular the semaphore's token count
\* never leaves 0..maxConcurrentJobs.
THEOREM TypeCorrect == Spec => []TypeOK
<1>1. IInv => TypeOK
  BY DEF IInv
<1>2. QED
  BY <1>1, Invariance, PTL

\* ProcessJobs never has two goroutines for one job id.
THEOREM SingleExecutionHolds == Spec => []SingleExecution
<1>1. IInv => SingleExecution
  BY DEF IInv, ExecInv
<1>2. QED
  BY <1>1, Invariance, PTL

\* ActiveJobCount is exact.
THEOREM AccountingExact == Spec => []ActiveJobsExact
<1>1. IInv => ActiveJobsExact
  BY DEF IInv, ExecInv
<1>2. QED
  BY <1>1, Invariance, PTL

\* The semaphore has one token for each goroutine between its acquire and its
\* release, and never more than maxConcurrentJobs of them.
THEOREM SemaphoreHolds == Spec => []SemaphoreExact
<1>1. IInv => SemaphoreExact
  BY DEF IInv, ExecInv
<1>2. QED
  BY <1>1, Invariance, PTL

\* CheckAndUpdate installs a binary only when no heartbeat job is alive,
\* although it read ActiveJobCount before the download.
THEOREM InstallIsDrained == Spec => InstallWhenDrained
<1>1. IInv /\ [Next]_vars => [installed' # installed => Live = {}]_vars
  <2> SUFFICES ASSUME IInv, Next, installed' # installed PROVE Live = {}
    OBVIOUS
  <2>1. hb = "downloading"
    BY DEF Next, ApiQueueJob, DispatchSkip, DispatchStart, JobStep, Acquire,
           ExecuteJob, Record, ReportDelivered, ReportLost, Release, Clear,
           DirectAccept, DirectFinish, ApiAdvertise, ApiAnswerHeartbeat, HbSend,
           HbFail, HbStop, HbReceive, UpdateFail, UpdateInstall,
           UpdateRestartFails, InstallBinary, DispatchEnd, OperatorStop,
           KillAfterStop, Crash, Reborn, procVars
  <2>2. activeJobs = {}
    BY <2>1 DEF IInv, Drained
  <2>3. QED
    BY <2>2 DEF IInv, ExecInv, ActiveJobsExact
<1>2. QED
  BY <1>1, Invariance, PTL DEF Spec, InstallWhenDrained

-----------------------------------------------------------------------------
(* Redelivery. A response is composed of jobs that are pending, so what is *)
(* still in the inbox has not been dispatched since it was reported.       *)

RedeliveryInv ==
    \A j \in Jobs : /\ reruns[j] <= 1
                    /\ j \in inbox => reruns[j] = 0
                    /\ j \notin Reported => reruns[j] = 0

LEMMA NextRedelivery == TypeOK /\ RedeliveryInv /\ [Next]_vars => RedeliveryInv'
<1> SUFFICES ASSUME TypeOK, RedeliveryInv, [Next]_vars PROVE RedeliveryInv'
  OBVIOUS
<1> USE DEF RedeliveryInv
<1>1. ASSUME UNCHANGED reruns, inbox' \subseteq inbox, Reported \subseteq Reported'
      PROVE  RedeliveryInv'
  BY <1>1
<1>2. CASE UNCHANGED vars
  BY <1>1, <1>2 DEF vars, hbVars, apiVars, Reported
<1>3. CASE \E j \in Jobs, g \in Goroutines : DispatchStart(j, g)
  <2> PICK j \in Jobs, g \in Goroutines : DispatchStart(j, g)
    BY <1>3
  <2>1. Reported' = Reported /\ inbox' = inbox \ {j} /\ j \in inbox
    BY DEF DispatchStart, Rest, Reported, apiVars
  <2>2. reruns[j] = 0 /\ reruns \in [Jobs -> Nat]
    BY <2>1 DEF TypeOK
  <2>3. reruns' = IF j \in Reported THEN [reruns EXCEPT ![j] = 1] ELSE reruns
    BY <2>2 DEF DispatchStart
  <2>4. QED
    BY <2>1, <2>2, <2>3
<1>4. CASE ApiAnswerHeartbeat
  <2>1. Reported' = Reported /\ UNCHANGED reruns /\ inbox' \cap Reported = {}
    BY <1>4 DEF ApiAnswerHeartbeat, Reported, Status, apiVars
  <2>2. QED
    BY <2>1
<1>5. CASE \E j \in Jobs : ApiQueueJob(j)
  <2>1. Reported' = Reported
    BY <1>5 DEF ApiQueueJob, Reported, Status, TypeOK
  <2>2. QED
    BY <1>1, <1>5, <2>1 DEF ApiQueueJob, hbVars
<1>6. CASE \E g \in Goroutines : JobStep(g)
  <2> PICK g \in Goroutines : JobStep(g)
    BY <1>6
  <2>1. UNCHANGED reruns /\ UNCHANGED inbox
    BY DEF JobStep, Acquire, ExecuteJob, Record, ReportDelivered, ReportLost, Release,
       Clear, hbVars
  <2>2. Reported \subseteq Reported'
    <3>1. CASE ReportDelivered(g)
      BY <3>1 DEF ReportDelivered, Reported, TypeOK
    <3>2. CASE ~ReportDelivered(g)
      BY <3>2 DEF JobStep, Acquire, ExecuteJob, Record, ReportLost, Release, Clear,
         Reported, apiVars
    <3>3. QED
      BY <3>1, <3>2
  <2>3. QED
    BY <1>1, <2>1, <2>2
<1>7. CASE KillAfterStop \/ Crash
  BY <1>1, <1>7 DEF KillAfterStop, Crash, Reborn, Reported, apiVars
<1>8. CASE \/ \E j \in Jobs : DispatchSkip(j)
           \/ \E d \in DirectJobs : DirectAccept(d) \/ DirectFinish(d)
           \/ ApiAdvertise \/ HbSend \/ HbFail \/ HbStop \/ HbReceive
           \/ UpdateFail \/ UpdateInstall \/ UpdateRestartFails \/ DispatchEnd
           \/ OperatorStop
  <2>1. UNCHANGED <<reruns, api>> /\ inbox' \subseteq inbox
    BY <1>8 DEF DispatchSkip, Rest, DirectAccept, DirectFinish, ApiAdvertise, HbSend,
       HbFail, HbStop, HbReceive, UpdateFail, UpdateInstall, UpdateRestartFails,
       InstallBinary, DispatchEnd, OperatorStop, hbVars, apiVars
  <2>2. QED
    BY <1>1, <2>1 DEF Reported
<1>9. QED
  BY <1>2, <1>3, <1>4, <1>5, <1>6, <1>7, <1>8 DEF Next

\* A job the control plane holds a result of is dispatched again at most once.
THEOREM RedispatchBounded == Spec => []RedispatchedAtMostOnce
<1>1. Init => RedeliveryInv
  BY DEF Init, FreshProcess, RedeliveryInv
<1>2. RedeliveryInv => RedispatchedAtMostOnce
  BY DEF RedeliveryInv, RedispatchedAtMostOnce
<1>3. QED
  BY <1>1, <1>2, NextRedelivery, TypeCorrect, PTL DEF Spec

-----------------------------------------------------------------------------
(* The tracker. Until its goroutine has reported it, a job that was never  *)
(* dispatched again is not reported, so that what Record writes in the     *)
(* tracker is what the report will say; only an eviction can come between. *)

Unreported == {"queued", "running", "finished", "reporting"}
Fresh ==
    \A g \in Live : gpc[g] \in Unreported /\ reruns[gjob[g]] = 0 => gjob[g] \notin Reported
Recorded ==
    \A g \in Live : gpc[g] = "reporting" => tracker[gjob[g]] \in {gres[g], "RUNNING"}
TrackerInv == Fresh /\ Recorded /\ TrackerAgrees

\* What leaves the goroutines, the reported jobs and the tracker alone keeps
\* this part of the invariant.
LEMMA TrackerStutter ==
    ASSUME TrackerInv, UNCHANGED <<gpc, gjob, gres, api, tracker, reruns>>
    PROVE  TrackerInv'
  BY DEF TrackerInv, Fresh, Recorded, TrackerAgrees, Live, Reported

\* A goroutine's step writes the tracker and the report of its own job, which
\* is no other goroutine's.
LEMMA JobStepTracker ==
    ASSUME IInv, TrackerInv, NEW g \in Goroutines, JobStep(g)
    PROVE  TrackerInv'
<1>1. /\ gpc \in [Goroutines -> Held \cup {"none", "queued", "clearing"}]
      /\ gjob \in [Goroutines -> Jobs \cup {NoJob}]
      /\ gres \in [Goroutines -> Status] /\ api \in [Jobs -> {"unsent", "pending"} \cup Status]
      /\ tracker \in [Jobs \cup DirectJobs -> {"RUNNING"} \cup Status]
      /\ reruns \in [Jobs -> Nat]
  BY DEF IInv, TypeOK
<1>2. g \in Live /\ gjob[g] \in Jobs
  BY <1>1 DEF JobStep, Acquire, ExecuteJob, Record, ReportDelivered, ReportLost, Release,
     Clear, Live, IInv, ExecInv, LiveHasJob
<1>3. \A h \in Live : gjob[h] \in Jobs /\ (h # g => gjob[h] # gjob[g])
  BY <1>2 DEF IInv, ExecInv, SingleExecution, LiveHasJob
<1>4. /\ UNCHANGED reruns
      /\ \A h \in Goroutines \ {g} :
            gpc'[h] = gpc[h] /\ gjob'[h] = gjob[h] /\ gres'[h] = gres[h]
  BY <1>1 DEF JobStep, Acquire, ExecuteJob, Record, ReportDelivered, ReportLost, Release, Clear
<1>5. Live' \subseteq Live
  BY <1>2, <1>4 DEF Live
<1>6. CASE Acquire(g) \/ ExecuteJob(g)
  <2>1. /\ UNCHANGED <<api, tracker, gjob>>
        /\ gpc[g] \in Unreported /\ gpc'[g] \in Unreported /\ gpc'[g] # "reporting"
    BY <1>1, <1>6 DEF Acquire, ExecuteJob, apiVars, Unreported
  <2>2. QED
    BY <1>2, <1>4, <1>5, <2>1 DEF TrackerInv, Fresh, Recorded, TrackerAgrees, Reported, Live
<1>7. CASE Record(g)
  <2>1. /\ UNCHANGED <<api, gjob, gres>> /\ gpc[g] = "finished" /\ gpc'[g] = "reporting"
        /\ tracker'[gjob[g]] = gres[g]
        /\ \A j \in Jobs \ {gjob[g]} : tracker'[j] \in {tracker[j], "RUNNING"}
    BY <1>1, <1>2, <1>7 DEF Record, apiVars
  <2>2. Fresh'
    BY <1>2, <1>4, <1>5, <2>1 DEF TrackerInv, Fresh, Unreported, Reported, Live
  <2>3. Recorded'
    BY <1>2, <1>3, <1>4, <1>5, <2>1 DEF TrackerInv, Recorded, Live
  <2>4. reruns[gjob[g]] = 0 => gjob[g] \notin Reported
    BY <1>2, <2>1 DEF TrackerInv, Fresh, Unreported
  <2>5. TrackerAgrees'
    <3> SUFFICES ASSUME NEW j \in Jobs, api[j] \in Status, tracker'[j] \in Status, reruns[j] = 0
                 PROVE  tracker'[j] = api[j]
      BY <1>1, <1>4, <2>1 DEF TrackerAgrees
    <3>1. j # gjob[g]
      BY <2>4 DEF Reported
    <3>2. tracker'[j] = tracker[j]
      BY <2>1, <3>1 DEF Status
    <3>3. QED
      BY <1>1, <3>2 DEF TrackerInv, TrackerAgrees
  <2>6. QED
    BY <2>2, <2>3, <2>5 DEF TrackerInv
<1>8. CASE ReportDelivered(g)
  <2>1. /\ UNCHANGED <<tracker, gjob, gres>> /\ gpc[g] = "reporting" /\ gpc'[g] = "releasing"
        /\ api'[gjob[g]] = gres[g]
        /\ \A j \in Jobs \ {gjob[g]} : api'[j] = api[j]
    BY <1>1, <1>2, <1>8 DEF ReportDelivered
  <2>2. Fresh'
    BY <1>2, <1>3, <1>4, <1>5, <2>1 DEF TrackerInv, Fresh, Unreported, Reported, Live
  <2>3. Recorded'
    BY <1>2, <1>3, <1>4, <1>5, <2>1 DEF TrackerInv, Recorded, Live
  <2>4. TrackerAgrees'
    <3> SUFFICES ASSUME NEW j \in Jobs, api'[j] \in Status, tracker[j] \in Status, reruns[j] = 0
                 PROVE  tracker[j] = api'[j]
      BY <1>1, <1>4, <2>1 DEF TrackerAgrees
    <3>1. CASE j = gjob[g]
      BY <1>2, <2>1, <3>1 DEF TrackerInv, Recorded, Status
    <3>2. CASE j # gjob[g]
      BY <1>1, <2>1, <3>2 DEF TrackerInv, TrackerAgrees
    <3>3. QED
      BY <3>1, <3>2
  <2>5. QED
    BY <2>2, <2>3, <2>4 DEF TrackerInv
<1>9. CASE ReportLost(g) \/ Release(g) \/ Clear(g)
  <2>1. /\ UNCHANGED <<api, tracker>>
        /\ gpc'[g] \in {"releasing", "clearing", "none"}
    BY <1>1, <1>9 DEF ReportLost, Release, Clear, apiVars
  <2>2. Fresh' /\ Recorded'
    BY <1>4, <1>5, <2>1 DEF TrackerInv, Fresh, Recorded, Unreported, Reported, Live
  <2>3. TrackerAgrees'
    BY <1>4, <2>1 DEF TrackerInv, TrackerAgrees
  <2>4. QED
    BY <2>2, <2>3 DEF TrackerInv
<1>10. QED
  BY <1>6, <1>7, <1>8, <1>9 DEF JobStep

\* Every step keeps the tracker's part of the invariant.
LEMMA NextTracker == IInv /\ TrackerInv /\ [Next]_vars => TrackerInv'
<1> SUFFICES ASSUME IInv, TrackerInv, [Next]_vars PROVE TrackerInv'
  OBVIOUS
<1>1. CASE UNCHANGED vars
  BY <1>1, TrackerStutter DEF vars, execVars, apiVars
<1>2. CASE \E g \in Goroutines : JobStep(g)
  BY <1>2, JobStepTracker
<1>3. CASE \E j \in Jobs, g \in Goroutines : DispatchStart(j, g)
  <2> PICK j \in Jobs, g \in Goroutines : DispatchStart(j, g)
    BY <1>3
  <2>1. /\ gpc \in [Goroutines -> Held \cup {"none", "queued", "clearing"}]
        /\ gjob \in [Goroutines -> Jobs \cup {NoJob}] /\ reruns \in [Jobs -> Nat]
    BY DEF IInv, TypeOK
  <2>2. /\ UNCHANGED <<api, tracker, gres>> /\ gpc[g] = "none"
        /\ gpc'[g] = "queued" /\ gjob'[g] = j
        /\ \A h \in Goroutines \ {g} : gpc'[h] = gpc[h] /\ gjob'[h] = gjob[h]
        /\ Live' = Live \cup {g} /\ g \notin Live /\ Reported' = Reported
    BY <2>1 DEF DispatchStart, apiVars, Live, Reported
  <2>3. /\ \A i \in Jobs \ {j} : reruns'[i] = reruns[i]
        /\ j \in Reported => reruns'[j] > 0
        /\ j \notin Reported => reruns'[j] = reruns[j]
    BY <2>1 DEF DispatchStart
  <2>4. \A h \in Live : gjob[h] \in Jobs /\ gjob[h] # j
    BY DEF DispatchStart, AlreadyActive, IInv, ExecInv, LiveHasJob, ActiveJobsExact
  <2>5. Fresh'
    BY <2>2, <2>3, <2>4 DEF TrackerInv, Fresh, Live
  <2>6. Recorded'
    BY <2>2, <2>4 DEF TrackerInv, Recorded, Live
  <2>7. TrackerAgrees'
    BY <2>2, <2>3 DEF TrackerInv, TrackerAgrees, Reported
  <2>8. QED
    BY <2>5, <2>6, <2>7 DEF TrackerInv
<1>4. CASE KillAfterStop \/ Crash
  <2>1. Live' = {} /\ tracker' = [j \in Jobs \cup DirectJobs |-> "RUNNING"]
    BY <1>4 DEF KillAfterStop, Crash, Reborn, Live
  <2>2. QED
    BY <2>1 DEF TrackerInv, Fresh, Recorded, TrackerAgrees, Status
<1>5. CASE \E j \in Jobs : ApiQueueJob(j)
  <2>1. /\ UNCHANGED <<gpc, gjob, gres, tracker, reruns>> /\ Reported' = Reported
        /\ \A j \in Jobs : api'[j] \in Status => api'[j] = api[j]
    BY <1>5 DEF ApiQueueJob, execVars, Reported, Status, IInv, TypeOK
  <2>2. QED
    BY <2>1 DEF TrackerInv, Fresh, Recorded, TrackerAgrees, Live
<1>6. CASE \/ \E j \in Jobs : DispatchSkip(j)
           \/ \E d \in DirectJobs : DirectAccept(d) \/ DirectFinish(d)
           \/ ApiAdvertise \/ ApiAnswerHeartbeat
           \/ HbSend \/ HbFail \/ HbStop \/ HbReceive
           \/ UpdateFail \/ UpdateInstall \/ UpdateRestartFails \/ DispatchEnd
           \/ OperatorStop
  <2>1. UNCHANGED <<gpc, gjob, gres, api, tracker, reruns>>
    BY <1>6 DEF DispatchSkip, DirectAccept, DirectFinish, ApiAdvertise,
       ApiAnswerHeartbeat, HbSend, HbFail, HbStop, HbReceive, UpdateFail,
       UpdateInstall, UpdateRestartFails, InstallBinary, DispatchEnd, OperatorStop,
       execVars, apiVars
  <2>2. QED
    BY <2>1, TrackerStutter
<1>7. QED
  BY <1>1, <1>2, <1>3, <1>4, <1>5, <1>6 DEF Next

\* The tracker and the control plane agree on every job that was not
\* dispatched again after its report.
THEOREM TrackerAgreement == Spec => []TrackerAgrees
<1>1. Init => TrackerInv
  BY DEF Init, FreshProcess, TrackerInv, Fresh, Recorded, TrackerAgrees, Live, Status
<1>2. TrackerInv => TrackerAgrees
  BY DEF TrackerInv
<1>3. QED
  BY <1>1, <1>2, NextTracker, Invariance, PTL DEF Spec

-----------------------------------------------------------------------------
(* The refinement. A step of JobDispatch is a step of JobService on the    *)
(* job its goroutine works for, or changes nothing JobService sees.        *)

\* The jobs being executed are no more than the tokens taken.
LEMMA ExecutingBounded ==
    ASSUME SemaphoreExact
    PROVE  /\ Cardinality({gjob[g] : g \in Executing}) <= slots
           /\ Cardinality({gjob[g] : g \in Executing}) \in Nat
<1>1. IsFiniteSet(Executing) /\ Cardinality(Executing) <= Cardinality(Holding)
  <2>1. Executing \subseteq Holding
    BY DEF Executing, Holding, Held
  <2>2. QED
    BY <2>1, HoldingFinite, FS_Subset
<1>2. /\ Cardinality({gjob[g] : g \in Executing}) <= Cardinality(Executing)
      /\ Cardinality({gjob[g] : g \in Executing}) \in Nat
  <2> DEFINE f == [g \in Executing |-> gjob[g]]
             img == {f[g] : g \in Executing}
  <2>1. f \in Surjection(Executing, img)
    BY DEF Surjection
  <2>2. Cardinality(img) <= Cardinality(Executing) /\ IsFiniteSet(img)
    BY <2>1, <1>1, FS_Surjection
  <2>3. img = {gjob[g] : g \in Executing}
    OBVIOUS
  <2>4. QED
    BY <2>2, <2>3, FS_CardinalityType
<1>3. Cardinality(Executing) \in Nat
  BY <1>1, FS_CardinalityType
<1>4. QED
  BY <1>1, <1>2, <1>3, HoldingFinite DEF SemaphoreExact

\* A goroutine's step, seen from JobService: its job is no other live
\* goroutine's, so the mapped sets change by that job alone.
LEMMA JobStepRefines ==
    ASSUME IInv, NEW g \in Goroutines, JobStep(g)
    PROVE  [Service!Next]_(Service!vars)
<1> USE DEF Service!vars
<1>1. /\ gpc \in [Goroutines -> Held \cup {"none", "queued", "clearing"}]
      /\ gjob \in [Goroutines -> Jobs \cup {NoJob}]
      /\ gres \in [Goroutines -> Status] /\ api \in [Jobs -> {"unsent", "pending"} \cup Status]
  BY DEF IInv, TypeOK
<1>2. gpc[g] # "none" /\ g \in Live /\ gjob[g] \in Jobs
  BY <1>1 DEF JobStep, Acquire, ExecuteJob, Record, ReportDelivered, ReportLost, Release,
     Clear, Live, IInv, ExecInv, LiveHasJob
<1> PICK job \in Jobs : job = gjob[g]
  BY <1>2
<1>3. \A h \in Goroutines : gpc[h] # "none" /\ gjob[h] = job => h = g
  BY <1>2 DEF IInv, ExecInv, SingleExecution, Live
<1>4. ASSUME \/ Service!Begin(job) \/ Service!Finish(job)
              \/ Service!Ack(job) \/ Service!Forget(job)
       PROVE  Service!Next
  BY <1>4 DEF Service!Next
<1>5. CASE Acquire(g)
  <2> USE DEF Acquire
  <2>1. Cardinality({gjob[h] : h \in Executing}) < MaxConcurrentJobs
    <3>1. Cardinality({gjob[h] : h \in Executing}) <= slots
      BY ExecutingBounded DEF IInv, ExecInv
    <3>2. Cardinality({gjob[h] : h \in Executing}) \in Nat
      BY ExecutingBounded DEF IInv, ExecInv
    <3>3. slots < MaxConcurrentJobs /\ slots \in Nat /\ MaxConcurrentJobs \in Nat
      BY <1>5, ConstantsOK DEF SlotFree, IInv, TypeOK
    <3>4. QED
      BY <3>1, <3>2, <3>3
  <2>2. Executing' = Executing \cup {g} /\ Finished' = Finished
    BY <1>5, <1>1 DEF Executing, Finished
  <2>3. g \notin Executing \cup Finished
    BY <1>5 DEF Executing, Finished
  <2>4. job \notin {gjob[h] : h \in Executing} \cup {gjob[h] : h \in Finished}
    BY <2>3, <1>3 DEF Executing, Finished
  <2>5. Reported' = Reported
    BY <1>5 DEF Reported, apiVars
  <2>6. /\ {gjob'[h] : h \in Executing'} = {gjob[h] : h \in Executing} \cup {job}
        /\ {gjob'[h] : h \in Finished'} = {gjob[h] : h \in Finished}
    BY <1>5, <2>2
  <2>7. Service!Begin(job)
    BY <2>1, <2>4, <2>5, <2>6 DEF Service!Begin, Service!Cardinality, Cardinality
  <2>8. QED
    BY <1>4, <2>7
<1>6. CASE ExecuteJob(g)
  <2> USE DEF ExecuteJob
  <2>1. Executing' = Executing \ {g} /\ Finished' = Finished \cup {g} /\ g \in Executing
    BY <1>6, <1>1 DEF Executing, Finished
  <2>2. {gjob[h] : h \in Executing'} = {gjob[h] : h \in Executing} \ {job}
    BY <2>1, <1>3 DEF Executing
  <2>3. Reported' = Reported
    BY <1>6 DEF Reported, apiVars
  <2>4. Service!Finish(job)
    BY <1>6, <2>1, <2>2, <2>3 DEF Service!Finish
  <2>5. QED
    BY <1>4, <2>4
<1>7. CASE Record(g) \/ ReportLost(g) \/ Release(g)
  <2> USE DEF Record, ReportLost, Release
  <2>1. Executing' = Executing /\ Finished' = Finished
    BY <1>7, <1>1 DEF Executing, Finished
  <2>2. Reported' = Reported
    BY <1>7 DEF Reported, apiVars
  <2>3. QED
    BY <1>7, <2>1, <2>2
<1>8. CASE ReportDelivered(g)
  <2> USE DEF ReportDelivered
  <2>1. Executing' = Executing /\ Finished' = Finished /\ g \in Finished
    BY <1>8, <1>1 DEF Executing, Finished
  <2>2. Reported' = Reported \cup {job}
    BY <1>8, <1>1, <1>2 DEF Reported
  <2>3. Service!Ack(job)
    BY <1>8, <2>1, <2>2 DEF Service!Ack
  <2>4. QED
    BY <1>4, <2>3
<1>9. CASE Clear(g)
  <2> USE DEF Clear
  <2>1. Executing' = Executing /\ Finished' = Finished \ {g} /\ g \in Finished
    BY <1>9, <1>1 DEF Executing, Finished
  <2>2. \A h \in Executing \cup Finished' : gjob'[h] = gjob[h]
    BY <1>9, <1>1, <2>1 DEF Executing, Finished
  <2>3. {gjob'[h] : h \in Finished'} = {gjob[h] : h \in Finished} \ {job}
    BY <2>1, <2>2, <1>3 DEF Finished
  <2>4. {gjob'[h] : h \in Executing'} = {gjob[h] : h \in Executing}
    BY <2>1, <2>2
  <2>5. Reported' = Reported
    BY <1>9 DEF Reported, apiVars
  <2>6. Service!Forget(job)
    BY <2>1, <2>3, <2>4, <2>5 DEF Service!Forget
  <2>7. QED
    BY <1>4, <2>6
<1>10. QED
  BY <1>5, <1>6, <1>7, <1>8, <1>9 DEF JobStep

\* A step that touches neither the goroutines nor the reported jobs.
LEMMA QuietRefines ==
    ASSUME UNCHANGED <<gpc, gjob>>, Reported' = Reported
    PROVE  UNCHANGED Service!vars
  BY DEF Service!vars, Executing, Finished

\* The executor implements the service promised to the control plane: a job
\* runs at most once at a time, at most maxConcurrentJobs together, and only
\* a job that has run to its end is reported.
THEOREM Implements == Spec => ImplementsService
<1>1. Init => Service!Init
  BY DEF Init, FreshProcess, Service!Init, Executing, Finished, Reported, Status
<1>2. IInv /\ [Next]_vars => [Service!Next]_(Service!vars)
  <2> SUFFICES ASSUME IInv, [Next]_vars PROVE [Service!Next]_(Service!vars)
    OBVIOUS
  <2>1. CASE UNCHANGED vars
    BY <2>1, QuietRefines DEF vars, execVars, apiVars, Reported
  <2>2. CASE \E g \in Goroutines : JobStep(g)
    BY <2>2, JobStepRefines
  <2>3. CASE \E j \in Jobs, g \in Goroutines : DispatchStart(j, g)
    <3> PICK j \in Jobs, g \in Goroutines : DispatchStart(j, g)
      BY <2>3
    <3> USE DEF DispatchStart
    <3>1. Executing' = Executing /\ Finished' = Finished /\ g \notin Executing \cup Finished
      BY DEF IInv, TypeOK, Executing, Finished
    <3>2. \A h \in Executing \cup Finished : gjob'[h] = gjob[h]
      BY <3>1 DEF IInv, TypeOK, Executing, Finished
    <3>3. Reported' = Reported
      BY DEF Reported, apiVars
    <3>4. QED
      BY <3>1, <3>2, <3>3 DEF Service!vars
  <2>4. CASE KillAfterStop \/ Crash
    <3>1. Executing' = {} /\ Finished' = {} /\ Reported' = Reported
      BY <2>4 DEF KillAfterStop, Crash, Reborn, Executing, Finished, Reported, apiVars
    <3>2. Service!Crash
      BY <3>1 DEF Service!Crash
    <3>3. QED
      BY <3>2 DEF Service!Next
  <2>5. CASE \E j \in Jobs : ApiQueueJob(j)
    <3>1. Reported' = Reported
      BY <2>5 DEF ApiQueueJob, Reported, Status, IInv, TypeOK
    <3>2. QED
      BY <2>5, <3>1, QuietRefines DEF ApiQueueJob, execVars
  <2>6. CASE \/ \E j \in Jobs : DispatchSkip(j)
             \/ \E d \in DirectJobs : DirectAccept(d) \/ DirectFinish(d)
             \/ ApiAdvertise \/ ApiAnswerHeartbeat
             \/ HbSend \/ HbFail \/ HbStop \/ HbReceive
             \/ UpdateFail \/ UpdateInstall \/ UpdateRestartFails \/ DispatchEnd
             \/ OperatorStop
    <3>1. UNCHANGED <<gpc, gjob, api>>
      BY <2>6 DEF DispatchSkip, DirectAccept, DirectFinish, ApiAdvertise,
         ApiAnswerHeartbeat, HbSend, HbFail, HbStop, HbReceive, UpdateFail,
         UpdateInstall, UpdateRestartFails, InstallBinary, DispatchEnd, OperatorStop,
         execVars, apiVars
    <3>2. QED
      BY <3>1, QuietRefines DEF Reported
  <2>7. QED
    BY <2>1, <2>2, <2>3, <2>4, <2>5, <2>6 DEF Next
<1>3. QED
  BY <1>1, <1>2, Invariance, PTL DEF Spec, ImplementsService, Service!Spec
=============================================================================
