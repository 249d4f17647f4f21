------------------------------ MODULE Metering ------------------------------
(***************************************************************************)
(* The two collectors that run beside the heartbeat and keep what they know*)
(* in memory only. The cache collector reads the entries Nginx appended to *)
(* a log since its last offset and pushes their counts. The usage reporter *)
(* turns the cumulative CPU counter of every site's slice into the CPU used*)
(* since the last sample. Neither retries a push: what a failed one carried*)
(* is not counted. A restart of the warden forgets the offset and the      *)
(* samples; a rotation replaces the log; a slice that is started again     *)
(* counts from zero.                                                       *)
(***************************************************************************)
EXTENDS Integers, FiniteSets

CONSTANTS
    Sites,
    NoSample,
    MaxEntries,    \* bound: entries Nginx logs
    MaxUsage,      \* bound: CPU used by a site, in units of a report
    MaxFaults      \* bound: restarts, rotations, failed pushes and reads,
                   \* slices that are stopped

ASSUME MeteringConstants ==
    /\ MaxEntries \in Nat /\ MaxUsage \in Nat /\ MaxFaults \in Nat
    /\ NoSample \notin Nat

VARIABLES
    rotated,    \* entries that were in the logs before the present one
    size,       \* entries in the present log; they are numbered from rotated + 1
    offset,     \* Collector.offset, in entries
    batch,      \* entries read and not pushed yet
    counted,    \* how often the API counted each entry
    read,       \* the entries read so far, in any life of the warden
    turned,     \* the log was rotated since the collector last looked
    skipped,    \* by then a log had outgrown the offset of the one before it
    active,     \* the site's slice is active
    usage,      \* usage_usec of the present slice
    used,       \* CPU the site has used in all its slices
    sample,     \* prev.samples
    todo,       \* sites of this round that are not read yet
    phase,      \* what the reporter is doing
    delta,      \* CPU of the round that is being collected or sent
    charged,    \* CPU the API was told
    misread,    \* sites whose counter could not be read while seeding
    lives,      \* times the warden was started
    faults      \* accidents so far

logVars == <<rotated, size, offset, batch, counted, read, turned, skipped>>
hostVars == <<active, usage, used>>
reporterVars == <<sample, todo, phase, delta, charged, misread>>
vars == <<logVars, hostVars, reporterVars, lives, faults>>

Entries == 1..MaxEntries
Logged == rotated + size
Phases == {"start", "seed", "wait", "collect", "send"}

TypeOK ==
    /\ rotated \in 0..MaxEntries /\ size \in 0..MaxEntries
    /\ Logged \in 0..MaxEntries
    /\ offset \in 0..MaxEntries
    /\ batch \subseteq Entries /\ read \subseteq Entries
    /\ counted \in [Entries -> Nat]
    /\ turned \in BOOLEAN /\ skipped \in BOOLEAN
    /\ active \in [Sites -> BOOLEAN]
    /\ usage \in [Sites -> Nat] /\ used \in [Sites -> 0..MaxUsage]
    /\ sample \in [Sites -> Nat \cup {NoSample}]
    /\ todo \subseteq Sites /\ phase \in Phases
    /\ delta \in [Sites -> Nat] /\ charged \in [Sites -> Nat]
    /\ misread \subseteq Sites
    /\ lives \in 1..MaxFaults + 1 /\ faults \in 0..MaxFaults

Init ==
    /\ rotated = 0 /\ size = 0 /\ offset = 0 /\ batch = {}
    /\ counted = [e \in Entries |-> 0] /\ read = {}
    /\ turned = FALSE /\ skipped = FALSE
    /\ active = [s \in Sites |-> FALSE]
    /\ usage = [s \in Sites |-> 0] /\ used = [s \in Sites |-> 0]
    /\ sample = [s \in Sites |-> NoSample]
    /\ todo = {} /\ phase = "start"
    /\ delta = [s \in Sites |-> 0] /\ charged = [s \in Sites |-> 0]
    /\ misread = {}
    /\ lives = 1 /\ faults = 0

Accident == faults < MaxFaults /\ faults' = faults + 1

-----------------------------------------------------------------------------
(* The cache log. An entry stands for a line of the log with a status the  *)
(* collector counts.                                                       *)

NginxLogs ==
    /\ Logged < MaxEntries
    /\ size' = size + 1
    /\ UNCHANGED <<rotated, offset, batch, counted, read, turned, skipped, hostVars, reporterVars, lives, faults>>

Rotate ==
    /\ Accident /\ size > 0
    /\ rotated' = Logged /\ size' = 0 /\ turned' = TRUE
    /\ UNCHANGED <<offset, batch, counted, read, skipped, hostVars, reporterVars, lives>>

\* A log that is smaller than the offset is taken for a new one.
NeverReset == offset                                        \* defective variant
AlwaysFromStart == 0                                        \* defective variant
StartOfRead == IF size < offset THEN 0 ELSE offset

EntryAt(position) == rotated + position

\* The offset moves to the end of what was read before anything is pushed.
Collect ==
    /\ batch = {}
    /\ batch' = {EntryAt(p) : p \in (StartOfRead + 1)..size}
    /\ read' = read \cup batch'
    /\ offset' = IF StartOfRead > size THEN StartOfRead ELSE size
    /\ turned' = FALSE
    /\ skipped' = (skipped \/ (turned /\ 0 < offset /\ offset <= size))
    /\ UNCHANGED <<rotated, size, counted, hostVars, reporterVars, lives, faults>>

Push ==
    /\ batch # {}
    /\ counted' = [e \in Entries |-> IF e \in batch THEN counted[e] + 1 ELSE counted[e]]
    /\ batch' = {}
    /\ UNCHANGED <<rotated, size, offset, read, turned, skipped, hostVars,
                   reporterVars, lives, faults>>

PushFails ==
    /\ Accident /\ batch # {}
    /\ batch' = {}
    /\ UNCHANGED <<rotated, size, offset, counted, read, turned, skipped, hostVars,
                   reporterVars, lives>>

-----------------------------------------------------------------------------
(* The sites' slices.                                                      *)

SliceStarts(s) ==
    /\ ~active[s]
    /\ active' = [active EXCEPT ![s] = TRUE]
    /\ usage' = [usage EXCEPT ![s] = 0]
    /\ UNCHANGED <<logVars, used, reporterVars, lives, faults>>

SliceStops(s) ==
    /\ Accident /\ active[s]
    /\ active' = [active EXCEPT ![s] = FALSE]
    /\ UNCHANGED <<logVars, usage, used, reporterVars, lives>>

SiteWorks(s) ==
    /\ active[s] /\ used[s] < MaxUsage
    /\ usage' = [usage EXCEPT ![s] = @ + 1]
    /\ used' = [used EXCEPT ![s] = @ + 1]
    /\ UNCHANGED <<logVars, active, reporterVars, lives, faults>>

-----------------------------------------------------------------------------
(* The usage reporter.                                                     *)

Discovered == {s \in Sites : active[s]}

\* systemctl list-units: before the seed, and at every tick.
Discover ==
    /\ \/ phase = "start" /\ phase' = "seed"
       \/ phase = "wait" /\ Discovered # {} /\ phase' = "collect"
    /\ todo' = Discovered
    /\ UNCHANGED <<logVars, hostVars, sample, delta, charged, misread, lives, faults>>

\* The directory names looked at instead are no names of slices.
DiscoverFails ==
    /\ Accident /\ phase = "start"
    /\ phase' = "seed" /\ todo' = {}
    /\ UNCHANGED <<logVars, hostVars, sample, delta, charged, misread, lives>>

\* The sites found are sampled, not reported. The error of a read is dropped:
\* the sample is zero then, as for a slice that is new.
SeedSite(s) ==
    /\ phase = "seed" /\ s \in todo
    /\ todo' = todo \ {s}
    /\ sample' = [sample EXCEPT ![s] = IF active[s] THEN usage[s] ELSE 0]
    /\ UNCHANGED <<logVars, hostVars, phase, delta, charged, misread, lives, faults>>

SeedMisreads(s) ==
    /\ Accident /\ phase = "seed" /\ s \in todo /\ active[s]
    /\ todo' = todo \ {s}
    /\ sample' = [sample EXCEPT ![s] = 0]
    /\ misread' = misread \cup {s}
    /\ UNCHANGED <<logVars, hostVars, phase, delta, charged, lives>>

\* The counters are unsigned: without the comparison a slice that was started
\* again yields a difference that wraps around.
Width == 8
SignedDelta(now, before) == now - before                    \* defective variant
WrappedDelta(now, before) == (now - before) % 2^Width       \* defective variant
DeltaUsec(now, before) == IF now >= before THEN now - before ELSE 0

\* A counter that cannot be read leaves its sample alone, and reports nothing.
CollectSite(s) ==
    /\ phase = "collect" /\ s \in todo
    /\ todo' = todo \ {s}
    /\ sample' = IF active[s] THEN [sample EXCEPT ![s] = usage[s]] ELSE sample
    /\ delta' = [delta EXCEPT ![s] =
                    IF active[s] /\ sample[s] # NoSample
                    THEN DeltaUsec(usage[s], sample[s]) ELSE 0]
    /\ UNCHANGED <<logVars, hostVars, phase, charged, misread, lives, faults>>

CollectMisreads(s) ==
    /\ Accident /\ phase = "collect" /\ s \in todo
    /\ todo' = todo \ {s}
    /\ UNCHANGED <<logVars, hostVars, phase, sample, delta, charged, misread, lives>>

AllRead ==
    /\ phase \in {"seed", "collect"} /\ todo = {}
    /\ phase' = IF phase = "seed" THEN "wait" ELSE "send"
    /\ UNCHANGED <<logVars, hostVars, sample, todo, delta, charged, misread, lives, faults>>

Send ==
    /\ phase = "send"
    /\ charged' = [s \in Sites |-> charged[s] + delta[s]]
    /\ delta' = [s \in Sites |-> 0]
    /\ phase' = "wait"
    /\ UNCHANGED <<logVars, hostVars, sample, todo, misread, lives, faults>>

SendFails ==
    /\ Accident /\ phase = "send"
    /\ delta' = [s \in Sites |-> 0]
    /\ phase' = "wait"
    /\ UNCHANGED <<logVars, hostVars, sample, todo, charged, misread, lives>>

-----------------------------------------------------------------------------
\* The warden stops and starts: both collectors begin with nothing.
Restart ==
    /\ Accident
    /\ offset' = 0 /\ batch' = {}
    /\ sample' = [s \in Sites |-> NoSample] /\ todo' = {} /\ phase' = "start"
    /\ delta' = [s \in Sites |-> 0]
    /\ lives' = lives + 1
    /\ UNCHANGED <<rotated, size, counted, read, turned, skipped, hostVars,
                   charged, misread>>

Next ==
    \/ NginxLogs \/ Rotate \/ Collect \/ Push \/ PushFails
    \/ Discover \/ DiscoverFails \/ AllRead \/ Send \/ SendFails \/ Restart
    \/ \E s \in Sites :
           SliceStarts(s) \/ SliceStops(s) \/ SiteWorks(s)
           \/ SeedSite(s) \/ SeedMisreads(s)
           \/ CollectSite(s) \/ CollectMisreads(s)

Spec == Init /\ [][Next]_vars

\* The ticker of the cache collector keeps ticking.
FairSpec == Spec /\ WF_vars(Collect) /\ WF_vars(Push)

-----------------------------------------------------------------------------
(* Properties.                                                             *)

\* In one life the warden counts an entry once at most, whatever rotations do
\* to the file under its offset: an entry is counted again only after a restart.
CountedOncePerLife == \A e \in Entries : counted[e] <= lives

\* Except for a site whose counter could not be read while the reporter was
\* seeded, the API is never told of more CPU than the site has used: not after
\* its slice was started again, nor after restarts and failed reports.
UsageNotOverstated ==
    \A s \in Sites \ misread : charged[s] + delta[s] <= used[s]

\* Every entry is read while its log is there, unless the log was rotated and
\* had outgrown the old offset before the collector looked at it again.
EveryEntryRead ==
    \A e \in Entries : e <= Logged ~> (e \in read \/ e <= rotated \/ skipped)
=============================================================================
