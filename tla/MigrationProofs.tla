-------------------------- MODULE MigrationProofs ---------------------------
(***************************************************************************)
(* Theorems about Migration, for any number of requests, files and         *)
(* accidents.                                                              *)
(***************************************************************************)
EXTENDS Migration, TLAPS

(* Before the answer a request would report a failure, and the receiver    *)
(* does not begin before the source waits for it.                          *)
HandOverInv ==
    \A m \in Requests :
        /\ pc[m] \notin {"remove", "report"} => result[m] = "FAILED"
        /\ Receiving(m) => pc[m] \in {"idle", "await", "remove", "report"}

(* A request is alone while it is under way and nobody else has a          *)
(* goroutine left on either node.                                          *)
AloneInv ==
    \A m \in Requests : alone[m] =>
        /\ Active(m)
        /\ \A n \in Requests : n # m => ~Busy(n)

Extracted(f) ==
    f \notin Links => /\ tree[f] # "none"
                      /\ f \notin {Shared} \cup Huge => tree[f] = "copy"
Whole == \A f \in Files : Extracted(f)

(* Its files are as whole as its receiver believes them to be.             *)
StageInv ==
    \A m \in Requests : alone[m] =>
        /\ pc[m] = "provision" => ~Provisioning(m)
        /\ open[m] \in Files \ {Shared} => intact[m]
        /\ rcv[m] = "extract" => \A f \in Files \ left[m] : Extracted(f)
        /\ rcv[m] = "chown" => Whole

(* From the chown of the receiver on, a request that was alone is settled. *)
Settled(m) ==
    /\ alone[m]
    /\ rcv[m] = "answer" \/ (pc[m] \in {"remove", "report"} /\ result[m] = "DONE")

SettledInv ==
    /\ \A m \in Requests : Settled(m) => Whole
    /\ \A m \in Requests :
           alone[m] /\ pc[m] \in {"remove", "report"} /\ result[m] = "DONE"
               => ~Receiving(m)
    /\ promised => Whole /\ \A m \in Requests : ~Active(m) /\ ~Receiving(m)

(* Either the site's user has its files, or the chown that gives them to   *)
(* it is still to come.                                                    *)
Owned == \A f \in Files \ Links : owner[f] = "site"
ChownToCome ==
    \/ site = "absent"
    \/ site = "user" /\ \A m \in Requests : prov[m] \notin {"env", "report"}

OwnerInv ==
    /\ \A m \in Requests : prov[m] \in {"docroot", "env", "report"} => site # "absent"
    /\ \A m \in Requests : Settled(m) => Owned \/ ChownToCome
    /\ promised => Owned \/ ChownToCome

IInv == TypeOK /\ HandOverInv /\ AloneInv /\ StageInv /\ SettledInv /\ OwnerInv

-----------------------------------------------------------------------------

\* Initially nothing is under way and nothing is promised.
LEMMA InitIInv == Init => IInv
<1> SUFFICES ASSUME Init PROVE IInv
  OBVIOUS
<1> USE MigrationConstants DEF Init
<1>1. StateTypeOK
  BY DEF StateTypeOK, Archives
<1>2. FlagTypeOK /\ OpenInUse
  BY DEF FlagTypeOK, OpenInUse, Archives
<1>3. HandOverInv /\ AloneInv /\ StageInv
  BY DEF HandOverInv, AloneInv, StageInv
<1>4. SettledInv /\ OwnerInv
  BY DEF SettledInv, OwnerInv, Settled
<1>5. QED
  BY <1>1, <1>2, <1>3, <1>4 DEF IInv, TypeOK

\* A request comes in.
LEMMA RequestIInv ==
    ASSUME IInv, NEW m \in Requests, Request(m)
    PROVE  IInv'
<1> USE MigrationConstants
    DEF IInv, TypeOK, StateTypeOK, FlagTypeOK, OpenInUse, HandOverInv, AloneInv,
        StageInv, SettledInv, OwnerInv,
        Active, Busy, Provisioning, Receiving, Settled, Archives, Whole, Extracted,
        Owned, ChownToCome, openVars, provVars, rcvVars, treeVars
<1>1. StateTypeOK'
  BY DEF Request
<1>2. FlagTypeOK'
  BY DEF Request
<1>3. OpenInUse'
  BY DEF Request
<1>4. HandOverInv' /\ AloneInv'
  BY DEF Request
<1>5. StageInv' /\ SettledInv' /\ OwnerInv'
  BY DEF Request
<1>6. QED
  BY <1>1, <1>2, <1>3, <1>4, <1>5 DEF IInv, TypeOK

\* A step of MigrateSite.
LEMMA SourceStepIInv ==
    ASSUME IInv, NEW m \in Requests, SourceStep(m)
    PROVE  IInv'
<1> USE MigrationConstants
    DEF IInv, TypeOK, StateTypeOK, FlagTypeOK, OpenInUse, HandOverInv, AloneInv,
        StageInv, SettledInv, OwnerInv,
        Active, Busy, Provisioning, Receiving, Settled, Archives, Whole, Extracted,
        Owned, ChownToCome, sourceVars, openVars, provVars, rcvVars, treeVars, history,
        Goes, Returns, Close, Truncate, OpenToRead, Gone
<1>1. CASE ProvisionOnTarget(m)
  BY <1>1 DEF ProvisionOnTarget
<1>2. CASE CreateArchive(m)
  BY <1>2 DEF CreateArchive
<1>3. CASE PackArchive(m)
  <2>1. PICK now \in WrittenBy(m, "whole", archive) :
            archive' = IF open[m] = "archive" THEN now ELSE archive
    BY <1>3, Zenon DEF PackArchive
  <2>2. now \in {"whole", archive}
    BY <2>1 DEF WrittenBy
  <2>3. StateTypeOK'
    BY <1>3, <2>1, <2>2 DEF PackArchive
  <2>4. FlagTypeOK'
    BY <1>3 DEF PackArchive
  <2>5. OpenInUse'
    BY <1>3, <2>1, <2>2 DEF PackArchive
  <2>6. HandOverInv' /\ AloneInv'
    BY <1>3 DEF PackArchive
  <2>7. StageInv'
    BY <1>3 DEF PackArchive
  <2>8. SettledInv'
    BY <1>3 DEF PackArchive
  <2>9. OwnerInv'
    BY <1>3 DEF PackArchive
  <2>10. QED
    BY <2>3, <2>4, <2>5, <2>6, <2>7, <2>8, <2>9 DEF IInv, TypeOK
<1>4. CASE OpenArchive(m)
  BY <1>4 DEF OpenArchive
<1>5. CASE ArchiveGone(m)
  BY <1>5 DEF ArchiveGone
<1>6. CASE SendArchive(m)
  <2>1. StateTypeOK'
    <3>1. PICK got \in IF intact[m] THEN {"whole"} ELSE Torn(m) :
              upload' = [upload EXCEPT ![m] = got]
      BY <1>6, Zenon DEF SendArchive
    <3>2. got \in {"partial", "whole"}
      BY <3>1 DEF Torn
    <3>3. QED
      BY <1>6, <3>1, <3>2 DEF SendArchive
  <2>2. FlagTypeOK'
    BY <1>6 DEF SendArchive
  <2>3. OpenInUse'
    BY <1>6 DEF SendArchive
  <2>4. HandOverInv' /\ AloneInv'
    BY <1>6 DEF SendArchive
  <2>5. StageInv'
    BY <1>6 DEF SendArchive
  <2>6. SettledInv'
    BY <1>6 DEF SendArchive
  <2>7. OwnerInv'
    BY <1>6 DEF SendArchive
  <2>8. QED
    BY <2>1, <2>2, <2>3, <2>4, <2>5, <2>6, <2>7 DEF IInv, TypeOK
<1>7. CASE RemoveArchive(m)
  BY <1>7 DEF RemoveArchive
<1>8. CASE Report(m)
  BY <1>8 DEF Report
<1>9. QED
  BY <1>1, <1>2, <1>3, <1>4, <1>5, <1>6, <1>7, <1>8 DEF SourceStep

\* A step of runProvision.
LEMMA ProvisionStepIInv ==
    ASSUME IInv, NEW m \in Requests, ProvisionStep(m)
    PROVE  IInv'
<1> USE MigrationConstants
    DEF IInv, TypeOK, StateTypeOK, FlagTypeOK, OpenInUse, HandOverInv, AloneInv,
        StageInv, SettledInv, OwnerInv,
        Active, Busy, Provisioning, Receiving, Settled, Archives, Whole, Extracted,
        Owned, ChownToCome, sourceVars, openVars, rcvVars, treeVars, history,
        ProvAt, Chowned, CreatedAsRoot
<1>1. CASE CreateSystemUser(m)
  BY <1>1 DEF CreateSystemUser
<1>2. CASE CreateDocumentRoot(m)
  BY <1>2 DEF CreateDocumentRoot
<1>3. CASE WriteEnv(m)
  BY <1>3 DEF WriteEnv
<1>4. CASE ReportProvision(m)
  BY <1>4 DEF ReportProvision
<1>5. QED
  BY <1>1, <1>2, <1>3, <1>4 DEF ProvisionStep

\* A step of ReceiveHandler.
LEMMA ReceiveStepIInv ==
    ASSUME IInv, NEW m \in Requests, ReceiveStep(m)
    PROVE  IInv'
<1> USE MigrationConstants
    DEF IInv, TypeOK, StateTypeOK, FlagTypeOK, OpenInUse, HandOverInv, AloneInv,
        StageInv, SettledInv, OwnerInv,
        Active, Busy, Provisioning, Receiving, Settled, Archives, Whole, Extracted,
        Owned, ChownToCome, sourceVars, openVars, provVars, rcvVars, treeVars, history,
        Answer, Returns, Close, Truncate, Chowned, CreatedAsRoot
<1>1. ASSUME NEW f \in Files, ExtractOpen(m, f) PROVE IInv'
  <2>1. StateTypeOK'
    BY <1>1 DEF ExtractOpen
  <2>2. FlagTypeOK'
    BY <1>1 DEF ExtractOpen
  <2>3. OpenInUse'
    BY <1>1 DEF ExtractOpen
  <2>4. HandOverInv' /\ AloneInv'
    BY <1>1 DEF ExtractOpen
  <2>5. StageInv'
    BY <1>1 DEF ExtractOpen
  <2>6. SettledInv'
    BY <1>1 DEF ExtractOpen
  <2>7. OwnerInv'
    BY <1>1 DEF ExtractOpen
  <2>8. QED
    BY <2>1, <2>2, <2>3, <2>4, <2>5, <2>6, <2>7 DEF IInv, TypeOK
<1>2. CASE ExtractWrite(m)
  <2>1. PICK now \in WrittenBy(m, Copied(open[m]), Holed(open[m])) :
            tree' = [tree EXCEPT ![open[m]] = now]
    BY <1>2, Zenon DEF ExtractWrite
  <2>2. open[m] \in Files
    BY <1>2 DEF ExtractWrite
  <2>3. /\ now \in {"torn", "cut", "copy"}
        /\ intact[m] /\ open[m] \notin Huge => now = "copy"
    BY <2>1 DEF WrittenBy, Copied, Holed
  <2>4. StateTypeOK'
    <3>1. left' \in [Requests -> SUBSET Files]
      BY <1>2 DEF ExtractWrite
    <3>2. QED
      BY <1>2, <2>1, <2>2, <2>3, <3>1 DEF ExtractWrite
  <2>5. FlagTypeOK'
    BY <1>2 DEF ExtractWrite
  <2>6. OpenInUse'
    BY <1>2 DEF ExtractWrite
  <2>7. HandOverInv' /\ AloneInv'
    BY <1>2 DEF ExtractWrite
  <2>8. StageInv'
    BY <1>2, <2>1, <2>2, <2>3 DEF ExtractWrite
  <2>9. SettledInv'
    BY <1>2, <2>1, <2>2, <2>3 DEF ExtractWrite
  <2>10. OwnerInv'
    BY <1>2, <2>1, <2>2, <2>3 DEF ExtractWrite
  <2>11. QED
    BY <2>4, <2>5, <2>6, <2>7, <2>8, <2>9, <2>10 DEF IInv, TypeOK
<1>3. CASE ExtractEnds(m)
  <2>1. StateTypeOK'
    BY <1>3 DEF ExtractEnds
  <2>2. FlagTypeOK'
    BY <1>3 DEF ExtractEnds
  <2>3. OpenInUse'
    BY <1>3 DEF ExtractEnds
  <2>4. HandOverInv' /\ AloneInv'
    BY <1>3 DEF ExtractEnds
  <2>5. StageInv'
    BY <1>3 DEF ExtractEnds
  <2>6. SettledInv'
    BY <1>3 DEF ExtractEnds
  <2>7. OwnerInv'
    BY <1>3 DEF ExtractEnds
  <2>8. QED
    BY <2>1, <2>2, <2>3, <2>4, <2>5, <2>6, <2>7 DEF IInv, TypeOK
<1>4. CASE FixOwnership(m)
  BY <1>4 DEF FixOwnership
<1>5. CASE AnswerOK(m)
  BY <1>5 DEF AnswerOK
<1>6. CASE AnswerError(m)
  BY <1>6 DEF AnswerError
<1>7. QED
  BY <1>1, <1>2, <1>3, <1>4, <1>5, <1>6 DEF ReceiveStep

\* An accident of one goroutine.
LEMMA FaultIInv ==
    ASSUME IInv, NEW m \in Requests, Fault(m)
    PROVE  IInv'
<1> USE MigrationConstants
    DEF IInv, TypeOK, StateTypeOK, FlagTypeOK, OpenInUse, HandOverInv, AloneInv,
        StageInv, SettledInv, OwnerInv,
        Active, Busy, Provisioning, Receiving, Settled, Archives, Whole, Extracted,
        Owned, ChownToCome, sourceVars, openVars, provVars, rcvVars, treeVars, history,
        Accident, Goes, Returns, Close, Gone, Answer
<1>1. CASE SourceFails(m)
  BY <1>1 DEF SourceFails
<1>2. CASE PackCutShort(m)
  BY <1>2 DEF PackCutShort
<1>3. CASE UploadBreaks(m)
  BY <1>3 DEF UploadBreaks
<1>4. CASE AnswerLost(m)
  BY <1>4 DEF AnswerLost
<1>5. CASE ReportLost(m)
  BY <1>5 DEF ReportLost
<1>6. CASE ProvisionFails(m)
  BY <1>6 DEF ProvisionFails
<1>7. CASE ExtractFails(m)
  BY <1>7 DEF ExtractFails
<1>8. QED
  BY <1>1, <1>2, <1>3, <1>4, <1>5, <1>6, <1>7 DEF Fault

\* A crash of either node.
LEMMA CrashIInv ==
    ASSUME IInv, SourceCrash \/ TargetCrash
    PROVE  IInv'
<1> USE MigrationConstants
    DEF IInv, TypeOK, StateTypeOK, FlagTypeOK, OpenInUse, HandOverInv, AloneInv,
        StageInv, SettledInv, OwnerInv,
        Active, Busy, Provisioning, Receiving, Settled, Archives, Whole, Extracted,
        Owned, ChownToCome, provVars, rcvVars, treeVars, history, Accident
<1>1. CASE SourceCrash
  <2>1. StateTypeOK'
    BY <1>1 DEF SourceCrash
  <2>2. FlagTypeOK'
    BY <1>1 DEF SourceCrash
  <2>3. OpenInUse'
    BY <1>1 DEF SourceCrash
  <2>4. HandOverInv' /\ AloneInv'
    BY <1>1 DEF SourceCrash
  <2>5. StageInv'
    BY <1>1 DEF SourceCrash
  <2>6. SettledInv'
    BY <1>1 DEF SourceCrash
  <2>7. OwnerInv'
    BY <1>1 DEF SourceCrash
  <2>8. QED
    BY <2>1, <2>2, <2>3, <2>4, <2>5, <2>6, <2>7 DEF IInv, TypeOK
<1>2. CASE TargetCrash
  <2>1. StateTypeOK'
    BY <1>2 DEF TargetCrash
  <2>2. FlagTypeOK'
    BY <1>2 DEF TargetCrash
  <2>3. OpenInUse'
    BY <1>2 DEF TargetCrash
  <2>4. HandOverInv' /\ AloneInv'
    BY <1>2 DEF TargetCrash
  <2>5. StageInv'
    BY <1>2 DEF TargetCrash
  <2>6. SettledInv'
    BY <1>2 DEF TargetCrash
  <2>7. OwnerInv'
    BY <1>2 DEF TargetCrash
  <2>8. QED
    BY <2>1, <2>2, <2>3, <2>4, <2>5, <2>6, <2>7 DEF IInv, TypeOK
<1>3. QED
  BY <1>1, <1>2

\* Every step keeps the inductive invariant.
LEMMA NextIInv == IInv /\ [Next]_vars => IInv'
<1> SUFFICES ASSUME IInv, [Next]_vars PROVE IInv'
  OBVIOUS
<1>1. ASSUME NEW m \in Requests, Request(m) PROVE IInv'
  BY <1>1, RequestIInv
<1>2. ASSUME NEW m \in Requests, SourceStep(m) PROVE IInv'
  BY <1>2, SourceStepIInv
<1>3. ASSUME NEW m \in Requests, ProvisionStep(m) PROVE IInv'
  BY <1>3, ProvisionStepIInv
<1>4. ASSUME NEW m \in Requests, ReceiveStep(m) PROVE IInv'
  BY <1>4, ReceiveStepIInv
<1>5. ASSUME NEW m \in Requests, Fault(m) PROVE IInv'
  BY <1>5, FaultIInv
<1>6. CASE SourceCrash \/ TargetCrash
  BY <1>6, CrashIInv
<1>7. CASE UNCHANGED vars
  BY <1>7
  DEF IInv, TypeOK, StateTypeOK, FlagTypeOK, OpenInUse, HandOverInv, AloneInv,
      StageInv, SettledInv, OwnerInv,
      Active, Busy, Provisioning, Receiving, Settled, Whole, Extracted, Owned,
      ChownToCome,
      vars, sourceVars, openVars, provVars, rcvVars, treeVars, history
<1>8. QED
  BY <1>1, <1>2, <1>3, <1>4, <1>5, <1>6, <1>7 DEF Next

-----------------------------------------------------------------------------

\* The inductive invariant holds in every reachable state.
THEOREM Invariance == Spec => []IInv
<1>1. QED
  BY InitIInv, NextIInv, PTL DEF Spec

\* Every variable of a migration keeps its type, and no file stays open.
THEOREM TypeCorrect == Spec => []TypeOK
<1>1. IInv => TypeOK
  BY DEF IInv
<1>2. QED
  BY <1>1, Invariance, PTL

\* A migration that was alone and is DONE has moved every regular file of up to
\* 4 GiB: the receiver drops symbolic links and cuts larger files, and answers
\* that it has succeeded all the same.
THEOREM MigratedIsWholeHolds == Spec => []MigratedIsWhole
<1>1. IInv => MigratedIsWhole
  BY DEF IInv, SettledInv, Whole, Extracted, MigratedIsWhole
<1>2. QED
  BY <1>1, Invariance, PTL

\* And what has arrived is the site's once provisioning is through.
THEOREM MigratedIsOwnedHolds == Spec => []MigratedIsOwned
<1>1. IInv => MigratedIsOwned
  BY DEF IInv, OwnerInv, Owned, ChownToCome, MigratedIsOwned
<1>2. QED
  BY <1>1, Invariance, PTL
=============================================================================
