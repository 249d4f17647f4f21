----------------------------- MODULE JobService -----------------------------
(***************************************************************************)
(* What the warden promises the control plane about the jobs it hands over *)
(* in heartbeat responses, with no heartbeat, goroutine, semaphore or      *)
(* result table in sight: a job runs at most once at a time, no more than  *)
(* MaxConcurrentJobs run together, and the control plane is told a result  *)
(* only after the job has run to its end in the present process.           *)
(***************************************************************************)
EXTENDS Integers, FiniteSets

CONSTANTS
    Jobs,               \* ids of the jobs the control plane may hand over
    MaxConcurrentJobs   \* maxConcurrentJobs

VARIABLES
    executing,  \* jobs a handler is running for
    finished,   \* jobs whose handler has returned and is not yet forgotten
    acked       \* jobs whose result the control plane holds

vars == <<executing, finished, acked>>

Init == executing = {} /\ finished = {} /\ acked = {}

Begin(j) ==
    /\ j \notin executing \cup finished
    /\ Cardinality(executing) < MaxConcurrentJobs
    /\ executing' = executing \cup {j}
    /\ UNCHANGED <<finished, acked>>

Finish(j) ==
    /\ j \in executing
    /\ executing' = executing \ {j}
    /\ finished' = finished \cup {j}
    /\ UNCHANGED acked

Ack(j) ==
    /\ j \in finished
    /\ acked' = acked \cup {j}
    /\ UNCHANGED <<executing, finished>>

Forget(j) ==
    /\ j \in finished
    /\ finished' = finished \ {j}
    /\ UNCHANGED <<executing, acked>>

\* The process dies: what ran is lost, what was acknowledged stays so.
Crash == executing' = {} /\ finished' = {} /\ UNCHANGED acked

Next == (\E j \in Jobs : Begin(j) \/ Finish(j) \/ Ack(j) \/ Forget(j)) \/ Crash

Spec == Init /\ [][Next]_vars
=============================================================================
