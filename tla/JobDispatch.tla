---------------------------- MODULE JobDispatch -----------------------------
(***************************************************************************)
(* How the warden takes jobs and runs them: the heartbeat loop, the job    *)
(* executor with its table of active ids and its semaphore, the tracker of *)
(* results, the report to the control plane, the self-update check, and    *)
(* beside them the provisioning jobs that arrive as direct RPCs.           *)
(*                                                                         *)
(* Actors: the control plane (external), the heartbeat goroutine, one      *)
(* goroutine per dispatched job, the RPC server's goroutines, and systemd  *)
(* (external), which stops and starts the process.                         *)
(***************************************************************************)
EXTENDS Integers, FiniteSets

CONSTANTS
    Jobs,               \* ids handed over in heartbeat responses
    DirectJobs,         \* ids handed over by ProvisionSite and its siblings
    Class,              \* [Jobs -> JobClass]: what executeJob finds in the job
    Goroutines,         \* names for the goroutines ProcessJobs starts
    NoJob,              \* the job of a goroutine that does not exist
    MaxConcurrentJobs,  \* capacity of Executor.semaphore
    Evictable,          \* bound: ids whose entry in the tracker may turn an hour old
    MaxDirect,          \* bound: goroutines alive for one direct id
    MaxVersion,         \* bound: versions the control plane advertises
    MaxRestarts         \* bound: crashes and operator stops

JobClass == {"handled", "stub", "undecryptable", "unknown"}

ASSUME ConstantsOK ==
    /\ MaxConcurrentJobs \in Nat \ {0}
    /\ MaxDirect \in Nat
    /\ MaxVersion \in Nat \ {0}
    /\ MaxRestarts \in Nat
    /\ IsFiniteSet(Goroutines)
    /\ NoJob \notin Jobs
    /\ Class \in [Jobs -> JobClass]

VARIABLES
    api,         \* agent_jobs row of each job, in the control plane
    advertised,  \* latest version the control plane tells
    installed,   \* version of /usr/local/bin/warden-v2
    running,     \* CurrentVersion of the live process
    hb,          \* where the heartbeat goroutine is
    inbox,       \* PendingJobs of the response still to be looked at
    directive,   \* LatestWardenVersion of the response
    activeJobs,  \* Executor.activeJobs
    slots,       \* tokens in Executor.semaphore
    gpc,         \* where each job goroutine is
    gjob,        \* its job
    gres,        \* the status executeJob returned
    tracker,     \* jobTracker.get of each id
    direct,      \* live goroutines of each direct id
    shutdown,    \* who sent SIGTERM: the root context is cancelled
    restarts,    \* crashes and operator stops so far
    reruns       \* history: dispatches of an already reported job

apiVars   == <<api, advertised>>
hbVars    == <<hb, inbox, directive>>
execVars  == <<activeJobs, slots, gpc, gjob, gres>>
procVars  == <<installed, running, shutdown, restarts>>
vars == <<apiVars, hbVars, execVars, tracker, procVars, direct, reruns>>

Status == {"DONE", "FAILED"}
Reported == {j \in Jobs : api[j] \in Status}
Held == {"running", "finished", "reporting", "releasing"}
Holding == {g \in Goroutines : gpc[g] \in Held}
Live == {g \in Goroutines : gpc[g] # "none"}

TypeOK ==
    /\ api \in [Jobs -> {"unsent", "pending"} \cup Status]
    /\ advertised \in 1..MaxVersion
    /\ installed \in 1..MaxVersion
    /\ running \in 1..MaxVersion
    /\ hb \in {"idle", "awaiting", "answered", "downloading", "dispatching", "stopped"}
    /\ inbox \in SUBSET Jobs
    /\ directive \in 1..MaxVersion
    /\ activeJobs \in SUBSET Jobs
    /\ slots \in 0..MaxConcurrentJobs
    /\ gpc \in [Goroutines -> Held \cup {"none", "queued", "clearing"}]
    /\ gjob \in [Goroutines -> Jobs \cup {NoJob}]
    /\ gres \in [Goroutines -> Status]
    /\ tracker \in [Jobs \cup DirectJobs -> {"RUNNING"} \cup Status]
    /\ direct \in [DirectJobs -> 0..MaxDirect]
    /\ shutdown \in {"none", "operator", "update"}
    /\ restarts \in 0..MaxRestarts
    /\ reruns \in [Jobs -> Nat]

-----------------------------------------------------------------------------
(* The state of a process that has just been started (main).               *)
FreshProcess(version) ==
    /\ running = version
    /\ hb = "idle" /\ inbox = {} /\ directive = 1
    /\ activeJobs = {} /\ slots = 0
    /\ gpc = [g \in Goroutines |-> "none"]
    /\ gjob = [g \in Goroutines |-> NoJob]
    /\ gres = [g \in Goroutines |-> "DONE"]
    /\ tracker = [j \in Jobs \cup DirectJobs |-> "RUNNING"]
    /\ direct = [d \in DirectJobs |-> 0]
    /\ shutdown = "none"

Init ==
    /\ api = [j \in Jobs |-> "unsent"]
    /\ advertised = 1 /\ installed = 1
    /\ FreshProcess(1)
    /\ restarts = 0
    /\ reruns = [j \in Jobs |-> 0]

-----------------------------------------------------------------------------
(* The control plane (external): what the warden's code relies on.         *)

ApiQueueJob(j) ==
    /\ api[j] = "unsent"
    /\ api' = [api EXCEPT ![j] = "pending"]
    /\ UNCHANGED <<advertised, hbVars, execVars, tracker, procVars, direct, reruns>>

ApiAdvertise ==
    /\ advertised < MaxVersion
    /\ advertised' = advertised + 1
    /\ UNCHANGED <<api, hbVars, execVars, tracker, procVars, direct, reruns>>

\* The response is composed from the jobs pending now; it arrives later.
ApiAnswerHeartbeat ==
    /\ hb = "awaiting"
    /\ hb' = "answered"
    /\ inbox' = {j \in Jobs : api[j] = "pending"}
    /\ directive' = advertised
    /\ UNCHANGED <<apiVars, execVars, tracker, procVars, direct, reruns>>

-----------------------------------------------------------------------------
(* The heartbeat goroutine: Run, sendHeartbeat, CheckAndUpdate and the     *)
(* loop of ProcessJobs, which runs in it.                                  *)

HbSend ==
    /\ hb = "idle" /\ shutdown = "none"
    /\ hb' = "awaiting"
    /\ UNCHANGED <<apiVars, inbox, directive, execVars, tracker, procVars, direct, reruns>>

HbFail ==
    /\ hb \in {"awaiting", "answered"}
    /\ hb' = "idle" /\ inbox' = {}
    /\ UNCHANGED <<apiVars, directive, execVars, tracker, procVars, direct, reruns>>

HbStop ==
    /\ hb = "idle" /\ shutdown # "none"
    /\ hb' = "stopped"
    /\ UNCHANGED <<apiVars, inbox, directive, execVars, tracker, procVars, direct, reruns>>

\* CheckAndUpdate goes on to download when the version is newer and
\* ActiveJobCount() was 0; otherwise the jobs of the response are next.
UpdateWhenIdle == directive > running /\ slots = 0          \* defective variant
UpdateAllowed == directive > running /\ activeJobs = {}

HbReceive ==
    /\ hb = "answered"
    /\ hb' = IF UpdateAllowed THEN "downloading" ELSE "dispatching"
    /\ UNCHANGED <<apiVars, inbox, directive, execVars, tracker, procVars, direct, reruns>>

\* Any error of the download, the checksum, the temporary file or the rename.
UpdateFail ==
    /\ hb = "downloading"
    /\ hb' = "dispatching"
    /\ UNCHANGED <<apiVars, inbox, directive, execVars, tracker, procVars, direct, reruns>>

\* The binary is renamed into place and systemctl restart is run. Its SIGTERM
\* only cancels the root context, and sendHeartbeat ignores the result of
\* CheckAndUpdate: restarted or not, the jobs of the same response are next.
InstallBinary ==
    /\ hb = "downloading"
    /\ hb' = "dispatching"
    /\ installed' = directive
    /\ UNCHANGED <<apiVars, inbox, directive, execVars, tracker, running,
                   restarts, direct, reruns>>

UpdateInstall ==
    /\ InstallBinary
    /\ shutdown' = IF shutdown = "none" THEN "update" ELSE shutdown

UpdateRestartFails == InstallBinary /\ UNCHANGED shutdown

\* The test under Executor.mu, and the rest of the slice.
ActiveIfRunning(j) == \E g \in Goroutines : gjob[g] = j /\ gpc[g] = "running"  \* defective variant
AlreadyActive(j) == j \in activeJobs
RestRequeued(j) == inbox                                    \* defective variant
Rest(j) == inbox \ {j}

DispatchSkip(j) ==
    /\ hb = "dispatching" /\ j \in inbox
    /\ AlreadyActive(j)
    /\ inbox' = Rest(j)
    /\ UNCHANGED <<apiVars, hb, directive, execVars, tracker, procVars, direct, reruns>>

DispatchStart(j, g) ==
    /\ hb = "dispatching" /\ j \in inbox
    /\ ~AlreadyActive(j)
    /\ gpc[g] = "none"
    /\ activeJobs' = activeJobs \cup {j}
    /\ gpc' = [gpc EXCEPT ![g] = "queued"]
    /\ gjob' = [gjob EXCEPT ![g] = j]
    /\ inbox' = Rest(j)
    /\ reruns' = IF j \in Reported THEN [reruns EXCEPT ![j] = @ + 1] ELSE reruns
    /\ UNCHANGED <<apiVars, hb, directive, slots, gres, tracker, procVars, direct>>

DispatchEnd ==
    /\ hb = "dispatching" /\ inbox = {}
    /\ hb' = "idle"
    /\ UNCHANGED <<apiVars, inbox, directive, execVars, tracker, procVars, direct, reruns>>

-----------------------------------------------------------------------------
(* One goroutine of ProcessJobs, from its start to its deferred function.  *)

SlotFreeOffByOne == slots <= MaxConcurrentJobs              \* defective variant
SlotFree == slots < MaxConcurrentJobs

Acquire(g) ==
    /\ gpc[g] = "queued" /\ SlotFree
    /\ slots' = slots + 1
    /\ gpc' = [gpc EXCEPT ![g] = "running"]
    /\ UNCHANGED <<apiVars, hbVars, activeJobs, gjob, gres, tracker, procVars, direct, reruns>>

\* The statuses executeJob can return: the handlers succeed or fail, two job
\* types are answered DONE with no handler, and what cannot be decrypted or
\* is of no known type is answered FAILED.
Outcomes(class) ==
    CASE class = "handled" -> Status
      [] class = "stub" -> {"DONE"}
      [] OTHER -> {"FAILED"}

ExecuteJob(g) ==
    /\ gpc[g] = "running"
    /\ \E s \in Outcomes(Class[gjob[g]]) : gres' = [gres EXCEPT ![g] = s]
    /\ gpc' = [gpc EXCEPT ![g] = "finished"]
    /\ UNCHANGED <<apiVars, hbVars, activeJobs, slots, gjob, tracker, procVars, direct, reruns>>

\* onComplete, first half: store the status, then evict the entries over an
\* hour old; which of the other entries those are is left open.
Record(g) ==
    /\ gpc[g] = "finished"
    /\ \E old \in SUBSET (Evictable \ {gjob[g]}) :
          tracker' = [j \in Jobs \cup DirectJobs |->
                         IF j = gjob[g] THEN gres[g]
                         ELSE IF j \in old THEN "RUNNING" ELSE tracker[j]]
    /\ gpc' = [gpc EXCEPT ![g] = "reporting"]
    /\ UNCHANGED <<apiVars, hbVars, activeJobs, slots, gjob, gres, procVars, direct, reruns>>

\* onComplete, second half: ReportJobResult, best effort.
ReportAlwaysDone(g) ==                                      \* defective variant
    /\ gpc[g] = "reporting"
    /\ api' = [api EXCEPT ![gjob[g]] = "DONE"]
    /\ gpc' = [gpc EXCEPT ![g] = "releasing"]
    /\ UNCHANGED <<advertised, hbVars, activeJobs, slots, gjob, gres, tracker,
                   procVars, direct, reruns>>

ReportDelivered(g) ==
    /\ gpc[g] = "reporting"
    /\ api' = [api EXCEPT ![gjob[g]] = gres[g]]
    /\ gpc' = [gpc EXCEPT ![g] = "releasing"]
    /\ UNCHANGED <<advertised, hbVars, activeJobs, slots, gjob, gres, tracker,
                   procVars, direct, reruns>>

ReportLost(g) ==
    /\ gpc[g] = "reporting"
    /\ gpc' = [gpc EXCEPT ![g] = "releasing"]
    /\ UNCHANGED <<apiVars, hbVars, activeJobs, slots, gjob, gres, tracker,
                   procVars, direct, reruns>>

\* The deferred function gives the token back before it takes the mutex.
TokensAfterSuccess(g) == IF gres[g] = "DONE" THEN slots - 1 ELSE slots  \* defective variant
TokensAfter(g) == slots - 1

Release(g) ==
    /\ gpc[g] = "releasing"
    /\ slots' = TokensAfter(g)
    /\ gpc' = [gpc EXCEPT ![g] = "clearing"]
    /\ UNCHANGED <<apiVars, hbVars, activeJobs, gjob, gres, tracker, procVars, direct, reruns>>

ActiveAfterSuccess(g) ==                                    \* defective variant
    IF gres[g] = "DONE" THEN activeJobs \ {gjob[g]} ELSE activeJobs
ActiveAfter(g) == activeJobs \ {gjob[g]}

Clear(g) ==
    /\ gpc[g] = "clearing"
    /\ activeJobs' = ActiveAfter(g)
    /\ gpc' = [gpc EXCEPT ![g] = "none"]
    /\ gjob' = [gjob EXCEPT ![g] = NoJob]
    /\ gres' = [gres EXCEPT ![g] = "DONE"]
    /\ UNCHANGED <<apiVars, hbVars, slots, tracker, procVars, direct, reruns>>

JobStep(g) == \/ Acquire(g) \/ ExecuteJob(g) \/ Record(g)
              \/ ReportDelivered(g) \/ ReportLost(g) \/ Release(g) \/ Clear(g)

-----------------------------------------------------------------------------
(* The RPC server: every ProvisionSite, DeprovisionSite or MigrateSite     *)
(* starts a goroutine at once, and its result goes to the control plane    *)
(* only. The server is not told of the shutdown.                           *)

DirectAccept(d) ==
    /\ direct[d] < MaxDirect
    /\ direct' = [direct EXCEPT ![d] = @ + 1]
    /\ UNCHANGED <<apiVars, hbVars, execVars, tracker, procVars, reruns>>

DirectFinish(d) ==
    /\ direct[d] > 0
    /\ direct' = [direct EXCEPT ![d] = @ - 1]
    /\ UNCHANGED <<apiVars, hbVars, execVars, tracker, procVars, reruns>>

-----------------------------------------------------------------------------
(* The process and systemd (external).                                     *)

OperatorStop ==
    /\ shutdown = "none" /\ restarts < MaxRestarts
    /\ shutdown' = "operator" /\ restarts' = restarts + 1
    /\ UNCHANGED <<apiVars, hbVars, execVars, tracker, installed, running, direct, reruns>>

\* A new process replaces the old one, whatever that was doing.
Reborn ==
    /\ running' = installed
    /\ hb' = "idle" /\ inbox' = {} /\ directive' = 1
    /\ activeJobs' = {} /\ slots' = 0
    /\ gpc' = [g \in Goroutines |-> "none"]
    /\ gjob' = [g \in Goroutines |-> NoJob]
    /\ gres' = [g \in Goroutines |-> "DONE"]
    /\ tracker' = [j \in Jobs \cup DirectJobs |-> "RUNNING"]
    /\ direct' = [d \in DirectJobs |-> 0]
    /\ shutdown' = "none"
    /\ UNCHANGED <<apiVars, installed, reruns>>

\* ListenAndServe never returns on its own, so a stop ends in SIGKILL.
KillAfterStop == shutdown # "none" /\ Reborn /\ UNCHANGED restarts

Crash == restarts < MaxRestarts /\ Reborn /\ restarts' = restarts + 1

Next ==
    \/ \E j \in Jobs : ApiQueueJob(j) \/ DispatchSkip(j)
    \/ \E j \in Jobs, g \in Goroutines : DispatchStart(j, g)
    \/ \E g \in Goroutines : JobStep(g)
    \/ \E d \in DirectJobs : DirectAccept(d) \/ DirectFinish(d)
    \/ ApiAdvertise \/ ApiAnswerHeartbeat
    \/ HbSend \/ HbFail \/ HbStop \/ HbReceive
    \/ UpdateFail \/ UpdateInstall \/ UpdateRestartFails \/ DispatchEnd
    \/ OperatorStop \/ KillAfterStop \/ Crash

Spec == Init /\ [][Next]_vars

-----------------------------------------------------------------------------
(* Fairness. The Go scheduler runs every runnable goroutine, and waiters   *)
(* on a channel are served first come, first served: a queued job cannot   *)
(* be overtaken for ever. systemd kills what does not stop. The network    *)
(* and the download are not always down. Nothing is assumed of a handler:  *)
(* it is given context.Background() and no time limit, and may run for     *)
(* ever; the job types answered without a handler are answered at once.    *)

HeartbeatStep ==
    \/ HbSend \/ DispatchEnd
    \/ \E j \in Jobs : DispatchSkip(j) \/ \E g \in Goroutines : DispatchStart(j, g)

LoopFairness ==
    /\ WF_vars(HeartbeatStep) /\ WF_vars(KillAfterStop)
    /\ SF_vars(ApiAnswerHeartbeat) /\ SF_vars(HbReceive) /\ SF_vars(UpdateInstall)

InHandler(g) == gpc[g] = "running" /\ Class[gjob[g]] = "handled"

GoroutineFairness ==
    /\ \A g \in Goroutines : WF_vars(~InHandler(g) /\ JobStep(g))
    /\ \A j \in Jobs : SF_vars(\E g \in Goroutines : gjob[g] = j /\ ReportDelivered(g))

FairSpec == Spec /\ LoopFairness /\ GoroutineFairness

-----------------------------------------------------------------------------
(* Properties.                                                             *)

\* No two goroutines of ProcessJobs ever work for the same job id
\* (the activeJobs test and set under Executor.mu).
SingleExecution ==
    \A g, h \in Live : gjob[g] = gjob[h] => g = h

\* ActiveJobCount counts exactly the jobs whose goroutine is alive, queued
\* ones included: the self-update check can rely on it.
ActiveJobsExact == activeJobs = {gjob[g] : g \in Live}

\* The semaphore holds one token per goroutine between its acquire and its
\* deferred release, and never more than maxConcurrentJobs of them.
SemaphoreExact ==
    /\ slots = Cardinality(Holding)
    /\ slots <= MaxConcurrentJobs

\* The count of active jobs read before the download (up to two minutes) is
\* still true when the new binary is installed: no heartbeat job is alive.
InstallWhenDrained ==
    [][installed' # installed => Live = {}]_vars

\* A job the control plane has marked as reported is dispatched again at most
\* once: only the response composed before the report was delivered can still
\* hold it, and there is at most one such response.
RedispatchedAtMostOnce == \A j \in Jobs : reruns[j] <= 1

\* What the control plane was told about a job is what the tracker says of
\* it, unless the entry was lost with the process or evicted, or the job was
\* dispatched again after its report.
TrackerAgrees ==
    \A j \in Jobs : api[j] \in Status /\ tracker[j] \in Status =>
        tracker[j] = api[j] \/ reruns[j] > 0

\* The executor implements the service the control plane is promised.
Executing == {g \in Goroutines : gpc[g] = "running"}
Finished == {g \in Goroutines :
                gpc[g] \in {"finished", "reporting", "releasing", "clearing"}}

Service == INSTANCE JobService WITH
    executing <- {gjob[g] : g \in Executing},
    finished  <- {gjob[g] : g \in Finished},
    acked     <- Reported

ImplementsService == Service!Spec

\* Every job the control plane queues is in the end reported, across lost
\* heartbeats, lost reports, crashes and self-updates: from some time on the
\* only jobs still pending are those whose own handler never returns, unless
\* such handlers hold every slot of the semaphore for good (executeJob sets a
\* handler no limit of time; after a restart its job is handed out again).
EveryJobReported ==
    \/ <>[](\A j \in Jobs : api[j] = "pending" =>
                \E g \in Goroutines : InHandler(g) /\ gjob[g] = j)
    \/ <>[](Cardinality({g \in Goroutines : InHandler(g)}) = MaxConcurrentJobs)

\* The newest advertised version is in the end the running one, unless some
\* handler never returns: its id stays in activeJobs and CheckAndUpdate
\* defers the update for ever. Jobs that wait, end, fail, are sent again or
\* die with the process only defer it for a time.
EventuallyUpdated ==
    \/ (advertised = MaxVersion) ~> (running = MaxVersion)
    \/ \E g \in Goroutines : <>[]InHandler(g)
=============================================================================
