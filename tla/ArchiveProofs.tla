--------------------------- MODULE ArchiveProofs ----------------------------
(***************************************************************************)
(* Theorems about Archive, for any tokens and clients, any expiry time and *)
(* any number of crashes.                                                  *)
(***************************************************************************)
EXTENDS Archive, TLAPS

(* A file is what its build has made of it so far, and a build that is     *)
(* under way has written recently.                                         *)
BuildInv ==
    \A t \in Tokens :
        /\ build[t] = "unused" => file[t] = "none"
        /\ build[t] = "writing" => file[t] = "partial"
        /\ build[t] = "closed" => file[t] = "whole"
        /\ Building(t) => mtimeAge[t] <= MaxStall

(* An entry belongs to a finished build and is at most a stall younger     *)
(* than its file.                                                          *)
RegistryInv ==
    \A t \in registry :
        /\ build[t] = "done" /\ opened[t] = 0 /\ file[t] # "partial"
        /\ ~Expired(t) => file[t] = "whole" /\ mtimeAge[t] <= entryAge[t] + MaxStall

(* A token is in the registry or in the hands of one download.             *)
GetInv ==
    /\ \A c \in Clients : Busy(c) =>
           /\ token[c] \in Tokens \ registry
           /\ build[token[c]] = "done" /\ file[token[c]] # "partial"
           /\ get[c] \in {"taken", "checked"} => opened[token[c]] = 0
    /\ \A c, d \in Clients : Busy(c) /\ Busy(d) /\ token[c] = token[d] => c = d

OpenedInv == \A t \in Tokens : build[t] # "done" => opened[t] = 0

(* What the janitor decided when its sweep began is still true when it     *)
(* acts: ages only grow once the build has ended.                          *)
SweepInv ==
    /\ \A t \in expired : build[t] = "done" /\ Expired(t)
    /\ \A t \in stray : build[t] = "done" /\ mtimeAge[t] > StrayLimit

IInv ==
    TypeOK /\ BuildInv /\ RegistryInv /\ GetInv /\ OpenedInv /\ StreamedOnce /\ SweepInv

-----------------------------------------------------------------------------

\* Initially there is no file, no entry and no goroutine.
LEMMA InitIInv == Init => IInv
BY ArchiveConstants
DEF Init, IInv, TypeOK, BuildInv, RegistryInv, GetInv, OpenedInv, StreamedOnce,
    SweepInv, Building, Busy, MaxMtimeAge, MaxEntryAge

\* A step of a build.
LEMMA BuildStepIInv ==
    ASSUME IInv, NEW t \in Tokens, BuildStep(t)
    PROVE  IInv'
<1> USE ArchiveConstants
    DEF IInv, TypeOK, BuildInv, RegistryInv, GetInv, OpenedInv, StreamedOnce, SweepInv,
        Building, Busy, Expired, StrayLimit, MaxMtimeAge, MaxEntryAge,
        BuildAt, Written, Removed, getVars, sweepVars, buildVars
<1>1. CASE BuildOpen(t)
  BY <1>1 DEF BuildOpen
<1>2. CASE BuildWrite(t)
  BY <1>2 DEF BuildWrite
<1>3. CASE BuildClose(t)
  BY <1>3 DEF BuildClose
<1>4. CASE BuildFail(t)
  BY <1>4 DEF BuildFail
<1>5. CASE Register(t)
  BY <1>5 DEF Register
<1>6. QED
  BY <1>1, <1>2, <1>3, <1>4, <1>5 DEF BuildStep

\* The end of a download removes the file of a token nobody else holds.
LEMMA GetEndsIInv ==
    ASSUME IInv, NEW c \in Clients, Busy(c), GetEnds(c)
    PROVE  IInv'
BY ArchiveConstants
DEF IInv, TypeOK, BuildInv, RegistryInv, GetInv, OpenedInv, StreamedOnce, SweepInv,
    Building, Busy, Expired, StrayLimit, MaxMtimeAge, MaxEntryAge,
    GetEnds, Removed, sweepVars, buildVars

\* A step of a download.
LEMMA GetStepIInv ==
    ASSUME IInv, NEW c \in Clients, GetStep(c)
    PROVE  IInv'
<1> USE ArchiveConstants
    DEF IInv, TypeOK, BuildInv, RegistryInv, GetInv, OpenedInv, StreamedOnce, SweepInv,
        Building, Busy, Expired, StrayLimit, MaxMtimeAge, MaxEntryAge,
        sweepVars, buildVars
<1>1. CASE \E t \in Tokens : GetTake(c, t)
  BY <1>1 DEF GetTake, Unregistered
<1>2. CASE GetExpired(c) \/ GetOpenFails(c) \/ GetSent(c)
  BY <1>2, GetEndsIInv DEF GetExpired, GetOpenFails, GetSent
<1>3. CASE GetCheck(c)
  BY <1>3 DEF GetCheck
<1>4. CASE GetOpen(c)
  BY <1>4 DEF GetOpen
<1>5. QED
  BY <1>1, <1>2, <1>3, <1>4 DEF GetStep

\* A step of the janitor.
LEMMA SweepStepIInv ==
    ASSUME IInv, SweepStep
    PROVE  IInv'
<1> USE ArchiveConstants
    DEF IInv, TypeOK, BuildInv, RegistryInv, GetInv, OpenedInv, StreamedOnce, SweepInv,
        Building, Busy, Expired, StrayLimit, MaxMtimeAge, MaxEntryAge,
        SweepAt, getVars, buildVars
<1>1. CASE SweepBegin
  BY <1>1 DEF SweepBegin
<1>2. CASE SweepRegistry
  BY <1>2 DEF SweepRegistry
<1>3. CASE SweepRead
  BY <1>3 DEF SweepRead, InArchiveDir
<1>4. CASE SweepEnd
  BY <1>4 DEF SweepEnd
<1>5. CASE \E t \in Tokens : SweepScrub(t)
  BY <1>5 DEF SweepScrub
<1>6. QED
  BY <1>1, <1>2, <1>3, <1>4, <1>5 DEF SweepStep

\* Time passes: an entry and its file grow old together.
LEMMA TickIInv ==
    ASSUME IInv, Tick
    PROVE  IInv'
BY ArchiveConstants
DEF IInv, TypeOK, BuildInv, RegistryInv, GetInv, OpenedInv, StreamedOnce, SweepInv,
    Building, Busy, Expired, StrayLimit, MaxMtimeAge, MaxEntryAge,
    Tick, Older, getVars, sweepVars

\* A restart forgets everything but the files and the ages.
LEMMA CrashIInv ==
    ASSUME IInv, Crash
    PROVE  IInv'
BY ArchiveConstants
DEF IInv, TypeOK, BuildInv, RegistryInv, GetInv, OpenedInv, StreamedOnce, SweepInv,
    Building, Busy, Expired, StrayLimit, MaxMtimeAge, MaxEntryAge, Crash

\* Every step keeps the inductive invariant.
LEMMA NextIInv == IInv /\ [Next]_vars => IInv'
<1> SUFFICES ASSUME IInv, [Next]_vars PROVE IInv'
  OBVIOUS
<1>1. CASE \E t \in Tokens : BuildStep(t)
  BY <1>1, BuildStepIInv
<1>2. CASE \E c \in Clients : GetStep(c)
  BY <1>2, GetStepIInv
<1>3. CASE SweepStep
  BY <1>3, SweepStepIInv
<1>4. CASE Tick
  BY <1>4, TickIInv
<1>5. CASE Crash
  BY <1>5, CrashIInv
<1>6. CASE UNCHANGED vars
  BY <1>6
  DEF IInv, TypeOK, BuildInv, RegistryInv, GetInv, OpenedInv, StreamedOnce, SweepInv,
      Building, Busy, Expired, vars, buildVars, getVars, sweepVars
<1>7. QED
  BY <1>1, <1>2, <1>3, <1>4, <1>5, <1>6 DEF Next

-----------------------------------------------------------------------------

\* The inductive invariant holds in every reachable state.
THEOREM Invariance == Spec => []IInv
<1>1. QED
  BY InitIInv, NextIInv, PTL DEF Spec

\* Every variable of the archive store keeps its type.
THEOREM TypeCorrect == Spec => []TypeOK
<1>1. IInv => TypeOK
  BY DEF IInv
<1>2. QED
  BY <1>1, Invariance, PTL

\* No archive is ever streamed twice, whatever races and restarts there are.
THEOREM StreamedOnceHolds == Spec => []StreamedOnce
<1>1. IInv => StreamedOnce
  BY DEF IInv
<1>2. QED
  BY <1>1, Invariance, PTL

\* An offered archive that has not expired is on disk, whole.
THEOREM OfferedIsWholeHolds == Spec => []OfferedIsWhole
<1>1. IInv => OfferedIsWhole
  BY DEF IInv, RegistryInv, GetInv, OfferedIsWhole
<1>2. QED
  BY <1>1, Invariance, PTL
=============================================================================
