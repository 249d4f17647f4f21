------------------------------ MODULE Archive -------------------------------
(***************************************************************************)
(* The archives the file manager offers for download: a handler builds a   *)
(* file and registers a token for it, a download takes the token out of    *)
(* the registry, streams the file and removes it, a janitor removes what   *)
(* has expired and what nobody has registered. The registry is guarded by  *)
(* a mutex, the files by nothing: builders, downloads and the janitor work *)
(* on them side by side, and a crash empties the registry only.            *)
(*                                                                         *)
(* Time is a clock of ticks. An age stops growing one tick after the last  *)
(* limit it is compared with.                                              *)
(***************************************************************************)
EXTENDS Integers, FiniteSets

CONSTANTS
    Tokens,      \* the random tokens, each drawn once, with its file
    Clients,     \* names for the goroutines of DownloadHandler
    NoToken,     \* the token of a goroutine that does not exist
    MaxAge,      \* MaxAge
    MaxStall,    \* the longest a build pauses between two writes
    MaxCrashes   \* bound: crashes and restarts

\* A build writes more often than archives expire.
ASSUME ArchiveConstants ==
    /\ MaxAge \in Nat /\ MaxStall \in Nat /\ MaxCrashes \in Nat
    /\ MaxStall <= MaxAge
    /\ NoToken \notin Tokens

VARIABLES
    file,       \* the file of each token in ArchiveDir
    mtimeAge,   \* ticks since it was last written
    build,      \* where buildArchive is for each token
    registry,   \* the tokens in reg.entries
    entryAge,   \* ticks since the token was registered
    get,        \* where each download is
    token,      \* the token it has taken
    sweep,      \* where the janitor is
    expired,    \* the entries past expiresAt at the time the sweep began
    stray,      \* the files past the stray limit at that time
    names,      \* what ReadDir returned and is still to be looked at
    opened,     \* history: how often the file of a token was opened
    crashes

buildVars == <<build, registry, entryAge>>
getVars == <<get, token, opened>>
sweepVars == <<sweep, expired, stray, names>>
vars == <<file, mtimeAge, buildVars, getVars, sweepVars, crashes>>

StrayLimitTooShort == MaxAge                                \* defective variant
StrayLimit == 2 * MaxAge
MaxMtimeAge == 2 * MaxAge + 1
MaxEntryAge == MaxAge + 1

Expired(t) == entryAge[t] > MaxAge
Building(t) == build[t] \in {"writing", "closed"}
Busy(c) == get[c] # "idle"

TypeOK ==
    /\ file \in [Tokens -> {"none", "partial", "whole"}]
    /\ mtimeAge \in [Tokens -> 0..MaxMtimeAge]
    /\ build \in [Tokens -> {"unused", "writing", "closed", "done"}]
    /\ registry \subseteq Tokens
    /\ entryAge \in [Tokens -> 0..MaxEntryAge]
    /\ get \in [Clients -> {"idle", "taken", "checked", "streaming"}]
    /\ token \in [Clients -> Tokens \cup {NoToken}]
    /\ sweep \in {"idle", "registry", "read", "scrub"}
    /\ expired \subseteq Tokens /\ stray \subseteq Tokens /\ names \subseteq Tokens
    /\ opened \in [Tokens -> Nat]
    /\ crashes \in 0..MaxCrashes

Init ==
    /\ file = [t \in Tokens |-> "none"] /\ mtimeAge = [t \in Tokens |-> 0]
    /\ build = [t \in Tokens |-> "unused"]
    /\ registry = {} /\ entryAge = [t \in Tokens |-> 0]
    /\ get = [c \in Clients |-> "idle"] /\ token = [c \in Clients |-> NoToken]
    /\ sweep = "idle" /\ expired = {} /\ stray = {} /\ names = {}
    /\ opened = [t \in Tokens |-> 0] /\ crashes = 0

-----------------------------------------------------------------------------
(* buildArchive.                                                           *)

Written(t) == mtimeAge' = [mtimeAge EXCEPT ![t] = 0]
Emptied(t) == file' = [file EXCEPT ![t] = "empty"]            \* defective variant
Removed(t) == file' = [file EXCEPT ![t] = "none"]
BuildAt(t, here, there) == build[t] = here /\ build' = [build EXCEPT ![t] = there]

BuildOpen(t) ==
    /\ BuildAt(t, "unused", "writing")
    /\ file' = [file EXCEPT ![t] = "partial"] /\ Written(t)
    /\ UNCHANGED <<registry, entryAge, getVars, sweepVars, crashes>>

BuildWrite(t) ==
    /\ build[t] = "writing"
    /\ Written(t)
    /\ UNCHANGED <<file, buildVars, getVars, sweepVars, crashes>>

\* Closing the zip or the tar writes its end.
BuildClose(t) ==
    /\ BuildAt(t, "writing", "closed")
    /\ file' = [file EXCEPT ![t] = "whole"] /\ Written(t)
    /\ UNCHANGED <<registry, entryAge, getVars, sweepVars, crashes>>

\* A path that cannot be read, the size cap, a full disk.
BuildFail(t) ==
    /\ BuildAt(t, "writing", "done")
    /\ Removed(t)
    /\ UNCHANGED <<mtimeAge, registry, entryAge, getVars, sweepVars, crashes>>

Register(t) ==
    /\ BuildAt(t, "closed", "done")
    /\ registry' = registry \cup {t}
    /\ entryAge' = [entryAge EXCEPT ![t] = 0]
    /\ UNCHANGED <<file, mtimeAge, getVars, sweepVars, crashes>>

-----------------------------------------------------------------------------
(* DownloadHandler. A request with a token that is not in the registry     *)
(* changes nothing. The deferred removal is part of every end.             *)

LeftRegistered(t) == registry                               \* defective variant
Unregistered(t) == registry \ {t}

GetTake(c, t) ==
    /\ get[c] = "idle" /\ t \in registry
    /\ registry' = Unregistered(t)
    /\ get' = [get EXCEPT ![c] = "taken"]
    /\ token' = [token EXCEPT ![c] = t]
    /\ UNCHANGED <<file, mtimeAge, build, entryAge, opened, sweepVars, crashes>>

GetEnds(c) ==
    /\ get' = [get EXCEPT ![c] = "idle"]
    /\ token' = [token EXCEPT ![c] = NoToken]
    /\ Removed(token[c])
    /\ UNCHANGED <<mtimeAge, buildVars, opened, sweepVars, crashes>>

GetExpired(c) == get[c] = "taken" /\ Expired(token[c]) /\ GetEnds(c)

GetCheck(c) ==
    /\ get[c] = "taken" /\ ~Expired(token[c])
    /\ get' = [get EXCEPT ![c] = "checked"]
    /\ UNCHANGED <<file, mtimeAge, buildVars, token, opened, sweepVars, crashes>>

GetOpen(c) ==
    /\ get[c] = "checked" /\ file[token[c]] # "none"
    /\ get' = [get EXCEPT ![c] = "streaming"]
    /\ opened' = [opened EXCEPT ![token[c]] = @ + 1]
    /\ UNCHANGED <<file, mtimeAge, buildVars, token, sweepVars, crashes>>

GetOpenFails(c) == get[c] = "checked" /\ file[token[c]] = "none" /\ GetEnds(c)

\* The body was sent, or the client went away.
GetSent(c) == get[c] = "streaming" /\ GetEnds(c)

-----------------------------------------------------------------------------
(* The janitor: sweep, once per tick of its ticker.                        *)

SweepAt(here, there) == sweep = here /\ sweep' = there

SweepBegin ==
    /\ SweepAt("idle", "registry")
    /\ expired' = {t \in registry : Expired(t)}
    /\ stray' = {t \in Tokens : file[t] # "none" /\ mtimeAge[t] > StrayLimit}
    /\ UNCHANGED <<file, mtimeAge, buildVars, getVars, names, crashes>>

\* Under the mutex.
SweepRegistry ==
    /\ SweepAt("registry", "read")
    /\ file' = [t \in Tokens |-> IF t \in expired \cap registry THEN "none" ELSE file[t]]
    /\ registry' = registry \ expired
    /\ expired' = {}
    /\ UNCHANGED <<mtimeAge, build, entryAge, getVars, stray, names, crashes>>

InRegistry == registry                                      \* defective variant
InArchiveDir == {t \in Tokens : file[t] # "none"}

SweepRead ==
    /\ SweepAt("read", "scrub")
    /\ names' = InArchiveDir
    /\ UNCHANGED <<file, mtimeAge, buildVars, getVars, expired, stray, crashes>>

SweepScrub(t) ==
    /\ sweep = "scrub" /\ t \in names
    /\ names' = names \ {t}
    /\ file' = [file EXCEPT ![t] = IF t \in stray THEN "none" ELSE @]
    /\ UNCHANGED <<mtimeAge, buildVars, getVars, sweep, expired, stray, crashes>>

SweepEnd ==
    /\ SweepAt("scrub", "idle") /\ names = {}
    /\ stray' = {}
    /\ UNCHANGED <<file, mtimeAge, buildVars, getVars, expired, names, crashes>>

SweepStep ==
    \/ SweepBegin \/ SweepRegistry \/ SweepRead \/ SweepEnd
    \/ \E t \in Tokens : SweepScrub(t)

-----------------------------------------------------------------------------
(* The clock and the process.                                              *)

Older(age, last) == IF age < last THEN age + 1 ELSE age

Tick ==
    /\ \A t \in Tokens : Building(t) => mtimeAge[t] < MaxStall
    /\ mtimeAge' = [t \in Tokens |-> Older(mtimeAge[t], MaxMtimeAge)]
    /\ entryAge' = [t \in Tokens |-> Older(entryAge[t], MaxEntryAge)]
    /\ UNCHANGED <<file, build, registry, getVars, sweepVars, crashes>>

\* What was in memory is gone, what was on disk is not.
Crash ==
    /\ crashes < MaxCrashes /\ crashes' = crashes + 1
    /\ build' = [t \in Tokens |-> IF Building(t) THEN "done" ELSE build[t]]
    /\ registry' = {}
    /\ get' = [c \in Clients |-> "idle"] /\ token' = [c \in Clients |-> NoToken]
    /\ sweep' = "idle" /\ expired' = {} /\ stray' = {} /\ names' = {}
    /\ UNCHANGED <<file, mtimeAge, entryAge, opened>>

BuildStep(t) ==
    BuildOpen(t) \/ BuildWrite(t) \/ BuildClose(t) \/ BuildFail(t) \/ Register(t)

GetStep(c) ==
    \/ \E t \in Tokens : GetTake(c, t)
    \/ GetExpired(c) \/ GetCheck(c) \/ GetOpen(c) \/ GetOpenFails(c) \/ GetSent(c)

Next ==
    \/ \E t \in Tokens : BuildStep(t)
    \/ \E c \in Clients : GetStep(c)
    \/ SweepStep \/ Tick \/ Crash

Spec == Init /\ [][Next]_vars

\* The janitor runs, time passes, a build ends: what it packs is finite and
\* capped. Nothing is asked of the clients.
FairSpec ==
    /\ Spec
    /\ WF_vars(SweepStep) /\ WF_vars(Tick)
    /\ \A t \in Tokens : WF_vars(BuildClose(t) \/ BuildFail(t) \/ Register(t))

-----------------------------------------------------------------------------
(* Properties.                                                             *)

\* An archive is streamed at most once ("One-shot"), however many requests
\* with its token race each other, the janitor and a restart.
StreamedOnce == \A t \in Tokens : opened[t] <= 1

\* As long as a token is offered and has not expired its file is there, built
\* to its end: neither the removal after a download nor either pass of the
\* janitor takes it away, and no download ever opens half an archive.
OfferedIsWhole ==
    /\ \A t \in registry : ~Expired(t) => file[t] = "whole"
    /\ \A c \in Clients : Busy(c) => file[token[c]] # "partial"

\* Every file in ArchiveDir is removed in the end, redeemed or not, also one a
\* crash left with no entry, half built or half streamed.
NoFileForEver == \A t \in Tokens : file[t] # "none" ~> file[t] = "none"
=============================================================================
