--------------------------- MODULE MeteringProofs ---------------------------
(***************************************************************************)
(* Theorems about Metering, for any sites, any log, any amount of CPU and  *)
(* any number of accidents.                                                *)
(***************************************************************************)
EXTENDS Metering, TLAPS

LivesInv == lives <= faults + 1

(* What the collector has not read of the present log has not been counted *)
(* in this life; what it has read and not pushed, neither. A log that was  *)
(* rotated since is unread from its beginning.                             *)
Fresh(e) == e > rotated + (IF turned THEN 0 ELSE offset)

LogInv ==
    /\ ~turned => offset <= size
    /\ \A e \in Entries :
           /\ counted[e] <= lives
           /\ e \in batch \/ Fresh(e) => counted[e] < lives
           /\ e \in batch => ~Fresh(e)

(* The CPU between a site's sample and its counter has not been charged,   *)
(* provided that the counter has not started again below the sample.       *)
SiteInv(s) ==
    /\ charged[s] + delta[s] <= used[s]
    /\ active[s] /\ sample[s] # NoSample /\ sample[s] <= usage[s] =>
           charged[s] + delta[s] + (usage[s] - sample[s]) <= used[s]

UsageInv == \A s \in Sites \ misread : SiteInv(s)

(* The types of the two halves of the state, and of the lives.             *)
LogTypes ==
    /\ rotated \in 0..MaxEntries /\ size \in 0..MaxEntries
    /\ Logged \in 0..MaxEntries
    /\ offset \in 0..MaxEntries
    /\ batch \subseteq Entries /\ read \subseteq Entries
    /\ counted \in [Entries -> Nat]
    /\ turned \in BOOLEAN /\ skipped \in BOOLEAN

UsageTypes ==
    /\ active \in [Sites -> BOOLEAN]
    /\ usage \in [Sites -> Nat] /\ used \in [Sites -> 0..MaxUsage]
    /\ sample \in [Sites -> Nat \cup {NoSample}]
    /\ todo \subseteq Sites /\ phase \in Phases
    /\ delta \in [Sites -> Nat] /\ charged \in [Sites -> Nat]
    /\ misread \subseteq Sites

LifeInv ==
    /\ lives \in 1..MaxFaults + 1 /\ faults \in 0..MaxFaults
    /\ lives <= faults + 1

IInv == LogTypes /\ LogInv /\ UsageTypes /\ UsageInv /\ LifeInv

-----------------------------------------------------------------------------

\* Nothing is logged, used or sampled when the warden starts for the first time.
LEMMA InitIInv == Init => IInv
<1> SUFFICES ASSUME Init PROVE IInv
  OBVIOUS
<1> USE MeteringConstants DEF Init
<1>1. turned \in BOOLEAN /\ skipped \in BOOLEAN
  BY Zenon
<1>2. rotated = 0 /\ size = 0 /\ Logged = 0 /\ offset = 0 /\ 0 \in 0..MaxEntries
  BY DEF Logged
<1>3. LogTypes
  BY <1>1, <1>2 DEF LogTypes
<1>4. LogInv
  BY DEF LogInv
<1>5. UsageTypes
  BY DEF UsageTypes, Phases
<1>6. UsageInv
  BY DEF UsageInv, SiteInv
<1>7. LifeInv
  BY DEF LifeInv
<1>8. QED
  BY <1>3, <1>4, <1>5, <1>6, <1>7 DEF IInv

\* An accident is counted, and only a restart begins a life.
LEMMA LifeKept ==
    ASSUME LifeInv, lives' = lives, faults' = faults \/ Accident
    PROVE  LifeInv'
BY MeteringConstants DEF LifeInv, Accident

-----------------------------------------------------------------------------
(* Steps of the log and its collector.                                     *)

LogStep == NginxLogs \/ Rotate \/ Collect \/ Push \/ PushFails

\* The collector reads from where everything before has been read.
LEMMA StartBounds ==
    ASSUME LogTypes, LogInv
    PROVE  /\ StartOfRead \in 0..size
           /\ ~turned => StartOfRead = offset
BY DEF LogTypes, LogInv, StartOfRead

LEMMA LogStepInv ==
    ASSUME LogTypes, LogInv, LifeInv, LogStep
    PROVE  LogTypes' /\ LogInv'
<1> USE MeteringConstants DEF LogTypes, LogInv, LifeInv, Fresh, Entries, Logged
<1>1. CASE NginxLogs
  BY <1>1 DEF NginxLogs
<1>2. CASE Rotate
  BY <1>2 DEF Rotate, Accident
<1>3. CASE Collect
  <2>1. /\ StartOfRead \in 0..size
        /\ ~turned => StartOfRead = offset
    BY StartBounds
  <2>2. /\ batch = {} /\ offset' = size /\ turned' = FALSE
        /\ size' = size /\ rotated' = rotated /\ counted' = counted /\ lives' = lives
        /\ batch' = {EntryAt(p) : p \in (StartOfRead + 1)..size}
        /\ read' = read \cup batch' /\ skipped' \in BOOLEAN
    BY <1>3, <2>1 DEF Collect
  <2>3. ASSUME NEW e \in batch'
        PROVE  e \in Entries /\ Fresh(e) /\ e <= rotated + size
    <3>1. PICK p \in (StartOfRead + 1)..size : e = rotated + p
      BY <2>2 DEF EntryAt
    <3>2. QED
      BY <2>1, <3>1
  <2>4. LogTypes'
    BY <2>2, <2>3
  <2>5. ASSUME NEW e \in Entries
        PROVE  /\ counted'[e] <= lives'
               /\ e \in batch' \/ Fresh(e)' => counted'[e] < lives'
               /\ e \in batch' => ~Fresh(e)'
    <3>1. Fresh(e)' => e > rotated + size
      BY <2>2
    <3>2. e > rotated + size => Fresh(e)
      BY <2>1
    <3>3. e \in batch' => Fresh(e) /\ e <= rotated + size
      BY <2>3
    <3>4. QED
      BY <2>2, <3>1, <3>2, <3>3
  <2>6. QED
    BY <2>2, <2>4, <2>5
<1>4. CASE Push
  <2>1. /\ counted' = [e \in Entries |-> IF e \in batch THEN counted[e] + 1 ELSE counted[e]]
        /\ batch' = {}
        /\ UNCHANGED <<rotated, size, offset, read, turned, skipped, lives>>
    BY <1>4 DEF Push
  <2>2. \A e \in Entries : counted[e] \in Nat /\ counted'[e] \in Nat
    BY <2>1
  <2>3. LogTypes'
    BY <2>1, <2>2
  <2>4. LogInv'
    BY <2>1, <2>2
  <2>5. QED
    BY <2>3, <2>4
<1>5. CASE PushFails
  BY <1>5 DEF PushFails
<1>6. QED
  BY <1>1, <1>2, <1>3, <1>4, <1>5 DEF LogStep

-----------------------------------------------------------------------------
(* Steps of the slices and of the usage reporter.                          *)

SliceStep(s) == SliceStarts(s) \/ SliceStops(s) \/ SiteWorks(s)
ReadStep(s) == SeedSite(s) \/ SeedMisreads(s) \/ CollectSite(s) \/ CollectMisreads(s)
ReportStep == Discover \/ DiscoverFails \/ AllRead \/ Send \/ SendFails

\* What a site uses after its sample is not charged yet; a slice that starts
\* again begins below every sample.
LEMMA SliceStepInv ==
    ASSUME UsageTypes, UsageInv, NEW s \in Sites, SliceStep(s)
    PROVE  UsageTypes' /\ UsageInv'
<1> USE MeteringConstants DEF UsageTypes, reporterVars
<1>1. CASE SliceStarts(s)
  BY <1>1 DEF SliceStarts, UsageInv, SiteInv
<1>2. CASE SliceStops(s)
  BY <1>2 DEF SliceStops, UsageInv, SiteInv
<1>3. CASE SiteWorks(s)
  BY <1>3 DEF SiteWorks, UsageInv, SiteInv
<1>4. QED
  BY <1>1, <1>2, <1>3 DEF SliceStep

\* A reading charges what lies between the sample and the counter, and moves
\* the sample to the counter.
LEMMA ReadStepInv ==
    ASSUME UsageTypes, UsageInv, NEW s \in Sites, ReadStep(s)
    PROVE  UsageTypes' /\ UsageInv'
<1> USE MeteringConstants DEF UsageTypes, hostVars
<1>1. CASE SeedSite(s)
  BY <1>1 DEF SeedSite, UsageInv, SiteInv
<1>2. CASE SeedMisreads(s)
  BY <1>2 DEF SeedMisreads, UsageInv, SiteInv
<1>3. CASE CollectSite(s)
  BY <1>3 DEF CollectSite, DeltaUsec, UsageInv, SiteInv
<1>4. CASE CollectMisreads(s)
  BY <1>4 DEF CollectMisreads, UsageInv, SiteInv
<1>5. QED
  BY <1>1, <1>2, <1>3, <1>4 DEF ReadStep

\* A report moves what was collected to what was charged, or drops it.
LEMMA ReportStepInv ==
    ASSUME UsageTypes, UsageInv, ReportStep
    PROVE  UsageTypes' /\ UsageInv'
<1> USE MeteringConstants DEF UsageTypes, hostVars, Phases, Discovered
<1>1. CASE Discover
  BY <1>1 DEF Discover, UsageInv, SiteInv
<1>2. CASE AllRead
  BY <1>2 DEF AllRead, UsageInv, SiteInv
<1>3. CASE Send
  BY <1>3 DEF Send, UsageInv, SiteInv
<1>4. CASE SendFails
  BY <1>4 DEF SendFails, UsageInv, SiteInv
<1>5. CASE DiscoverFails
  BY <1>5 DEF DiscoverFails, UsageInv, SiteInv
<1>6. QED
  BY <1>1, <1>2, <1>3, <1>4, <1>5 DEF ReportStep

-----------------------------------------------------------------------------

\* A restart forgets samples and offset, and begins a life in which nothing
\* has been counted.
LEMMA RestartIInv == ASSUME IInv, Restart PROVE IInv'
<1> USE MeteringConstants DEF IInv, Restart, Accident, hostVars
<1>1. LogTypes'
  BY DEF LogTypes, Logged
<1>2. LogInv'
  BY DEF LogTypes, LogInv, LifeInv, Fresh
<1>3. UsageTypes' /\ UsageInv'
  BY DEF UsageTypes, UsageInv, SiteInv, Phases
<1>4. LifeInv'
  BY DEF LifeInv
<1>5. QED
  BY <1>1, <1>2, <1>3, <1>4

\* Every step keeps the inductive invariant.
LEMMA NextIInv == IInv /\ [Next]_vars => IInv'
<1> SUFFICES ASSUME IInv, [Next]_vars PROVE IInv'
  OBVIOUS
<1>1. CASE LogStep
  <2>1. /\ UNCHANGED <<hostVars, reporterVars>> /\ lives' = lives
        /\ faults' = faults \/ Accident
    BY <1>1 DEF LogStep, NginxLogs, Rotate, Collect, Push, PushFails
  <2>2. UsageTypes' /\ UsageInv'
    BY <2>1 DEF IInv, UsageTypes, UsageInv, SiteInv, hostVars, reporterVars
  <2>3. QED
    BY <1>1, <2>1, <2>2, LogStepInv, LifeKept DEF IInv
<1>2. ASSUME NEW s \in Sites, SliceStep(s) \/ ReadStep(s)
      PROVE  IInv'
  <2>1. /\ UNCHANGED logVars /\ lives' = lives
        /\ faults' = faults \/ Accident
    BY <1>2 DEF SliceStep, ReadStep, SliceStarts, SliceStops, SiteWorks, SeedSite,
                SeedMisreads, CollectSite, CollectMisreads
  <2>2. LogTypes' /\ LogInv'
    BY <2>1 DEF IInv, LogTypes, LogInv, Fresh, Logged, logVars
  <2>3. QED
    BY <1>2, <2>1, <2>2, SliceStepInv, ReadStepInv, LifeKept DEF IInv
<1>3. CASE ReportStep
  <2>1. /\ UNCHANGED logVars /\ lives' = lives
        /\ faults' = faults \/ Accident
    BY <1>3 DEF ReportStep, Discover, DiscoverFails, AllRead, Send, SendFails
  <2>2. LogTypes' /\ LogInv'
    BY <2>1 DEF IInv, LogTypes, LogInv, Fresh, Logged, logVars
  <2>3. QED
    BY <1>3, <2>1, <2>2, ReportStepInv, LifeKept DEF IInv
<1>4. CASE Restart
  BY <1>4, RestartIInv
<1>5. CASE UNCHANGED vars
  BY <1>5
  DEF IInv, LogTypes, LogInv, Fresh, Logged, UsageTypes, UsageInv, SiteInv, LifeInv,
      vars, logVars, hostVars, reporterVars
<1>6. QED
  BY <1>1, <1>2, <1>3, <1>4, <1>5 DEF Next, LogStep, SliceStep, ReadStep, ReportStep

-----------------------------------------------------------------------------

\* The inductive invariant holds in every reachable state.
THEOREM Invariance == Spec => []IInv
<1>1. QED
  BY InitIInv, NextIInv, PTL DEF Spec

\* Every variable of the two collectors keeps its type.
THEOREM TypeCorrect == Spec => []TypeOK
<1>1. IInv => TypeOK
  BY DEF IInv, TypeOK, LogTypes, UsageTypes, LifeInv
<1>2. QED
  BY <1>1, Invariance, PTL

\* No entry of the cache log is counted twice in one life of the warden,
\* wherever rotations put the offset.
THEOREM CountedOncePerLifeHolds == Spec => []CountedOncePerLife
<1>1. IInv => CountedOncePerLife
  BY DEF IInv, LogInv, CountedOncePerLife
<1>2. QED
  BY <1>1, Invariance, PTL

\* No site whose counter could be read while seeding is charged for CPU it has
\* not used, whatever restarts of slices and of the warden there are.
THEOREM UsageNotOverstatedHolds == Spec => []UsageNotOverstated
<1>1. IInv => UsageNotOverstated
  BY DEF IInv, UsageInv, SiteInv, UsageNotOverstated
<1>2. QED
  BY <1>1, Invariance, PTL
=============================================================================
