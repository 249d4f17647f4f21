----------------------------- MODULE Migration ------------------------------
(***************************************************************************)
(* The move of one site to another node. On the source a goroutine per     *)
(* request asks the target to provision the site, packs the site's         *)
(* directory into an archive, uploads it and waits for the answer. On the  *)
(* target the provisioning runs in a goroutine of its own, started and not *)
(* waited for, beside the handler that extracts the upload. Both report to *)
(* the control plane under one job id.                                     *)
(*                                                                         *)
(* Requests are neither queued nor counted: two of them run side by side   *)
(* and share the name of the archive on the source and the directory on    *)
(* the target. The site's own files do not change during the move, so all  *)
(* uploads carry the same bytes: the harm two of them can do to each other *)
(* is to truncate. One file stands for those that provisioning writes too, *)
(* .env and .db_credentials; what it builds besides is left out. A symbolic *)
(* link is packed without its target and passed over by the receiver; of a *)
(* file above 4 GiB it keeps the first 4 GiB. Neither is an error.         *)
(***************************************************************************)
EXTENDS Integers, FiniteSets

CONSTANTS
    Requests,    \* names for the requests under way
    Files,       \* the files of the site
    Place,       \* in which order the archive has them
    Shared,      \* the one that provisioning writes as well
    Links,       \* those that are no regular files: symbolic links
    Huge,        \* those above the 4 GiB that the receiver reads of a file
    MaxFaults    \* bound: crashes, failed steps, lost reports

\* What a request can have open on the source: the archive, or one that has
\* been removed under it.
Archives == {"archive", "unlinked"}

ASSUME MigrationConstants ==
    /\ MaxFaults \in Nat /\ Shared \in Files
    /\ Place \in [Files -> Nat]
    /\ Links \subseteq Files \ {Shared} /\ Huge \subseteq Files \ ({Shared} \cup Links)
    /\ Files \cap (Archives \cup {"nothing"}) = {}

VARIABLES
    pc,          \* source: where MigrateSite is
    result,      \* what it is going to report
    archive,     \* what is in /tmp/migrate-<site>-files.tar.gz
    open,        \* the file a request has open, on the source or on the target
    intact,      \* nobody has truncated it since
    prov,        \* target: where runProvision is
    site,        \* what provisioning has made of the site
    rcv,         \* where ReceiveHandler is
    upload,      \* the archive it has received
    left,        \* what it has not yet extracted
    tree,        \* the site's files
    owner,       \* and whose they are
    alone,       \* no other request has overlapped with this one
    promised,    \* the last request was DONE and there was no other
    faults       \* accidents so far

sourceVars == <<pc, result, archive>>
openVars == <<open, intact>>
provVars == <<prov, site>>
rcvVars == <<rcv, upload, left>>
treeVars == <<tree, owner>>
history == <<alone, promised>>
vars == <<sourceVars, openVars, provVars, rcvVars, treeVars, history, faults>>

Active(m) == pc[m] # "idle"
Provisioning(m) == prov[m] # "idle"
Receiving(m) == rcv[m] # "idle"
Busy(m) == Active(m) \/ Provisioning(m) \/ Receiving(m)

\* Who has a file open is at work on it.
OpenInUse ==
    \A m \in Requests :
        /\ open[m] \in Archives <=> pc[m] \in {"pack", "send"}
        /\ open[m] = "archive" => archive # "none"
        /\ open[m] \in Files => rcv[m] = "extract" /\ open[m] \in left[m]

StateTypeOK ==
    /\ pc \in [Requests -> {"idle", "provision", "create", "pack", "open", "send",
                            "await", "remove", "report"}]
    /\ result \in [Requests -> {"DONE", "FAILED"}]
    /\ archive \in {"none", "partial", "whole"}
    /\ open \in [Requests -> Archives \cup Files \cup {"nothing"}]
    /\ prov \in [Requests -> {"idle", "user", "docroot", "env", "report"}]
    /\ site \in {"absent", "user", "provisioned"}
    /\ rcv \in [Requests -> {"idle", "extract", "chown", "answer"}]
    /\ upload \in [Requests -> {"partial", "whole"}]
    /\ left \in [Requests -> SUBSET Files]
    /\ tree \in [Files -> {"none", "torn", "cut", "copy", "own"}]
    /\ owner \in [Files -> {"root", "site"}]
    /\ faults \in 0..MaxFaults

FlagTypeOK ==
    intact \in [Requests -> BOOLEAN] /\ alone \in [Requests -> BOOLEAN] /\ promised \in BOOLEAN

TypeOK == StateTypeOK /\ FlagTypeOK /\ OpenInUse

Init ==
    /\ pc = [m \in Requests |-> "idle"] /\ result = [m \in Requests |-> "FAILED"]
    /\ archive = "none"
    /\ open = [m \in Requests |-> "nothing"] /\ intact = [m \in Requests |-> TRUE]
    /\ prov = [m \in Requests |-> "idle"] /\ site = "absent"
    /\ rcv = [m \in Requests |-> "idle"] /\ upload = [m \in Requests |-> "partial"]
    /\ left = [m \in Requests |-> {}]
    /\ tree = [f \in Files |-> "none"] /\ owner = [f \in Files |-> "root"]
    /\ alone = [m \in Requests |-> FALSE] /\ promised = FALSE
    /\ faults = 0

-----------------------------------------------------------------------------
(* Files. Opening one for writing truncates it for all who have it open.   *)

Truncate(m, x) ==
    /\ open' = [open EXCEPT ![m] = x]
    /\ intact' = [n \in Requests |-> n = m \/ (intact[n] /\ open[n] # x)]

OpenToRead(m, x, whole) ==
    /\ open' = [open EXCEPT ![m] = x]
    /\ intact' = [intact EXCEPT ![m] = whole]

Close(m) ==
    /\ open' = [open EXCEPT ![m] = "nothing"]
    /\ intact' = [intact EXCEPT ![m] = TRUE]

\* What a file may hold when a writer is through with it: the hole another
\* writer has made may still be open.
WrittenBy(m, whole, hole) == IF intact[m] THEN {whole} ELSE {whole, hole}

-----------------------------------------------------------------------------
(* HandleMigrateSite and MigrateSite, on the source.                       *)

Request(m) ==
    LET others == {n \in Requests \ {m} : Busy(n)} IN
    /\ ~Busy(m)
    /\ pc' = [pc EXCEPT ![m] = "provision"]
    /\ alone' = [n \in Requests |-> n = m /\ others = {}]
    /\ promised' = FALSE
    /\ UNCHANGED <<result, archive, openVars, provVars, rcvVars, treeVars, faults>>

Goes(m, here, there) == pc[m] = here /\ pc' = [pc EXCEPT ![m] = there]
Returns(m, there, outcome) ==
    pc' = [pc EXCEPT ![m] = there] /\ result' = [result EXCEPT ![m] = outcome]

\* The target answers RUNNING and starts its goroutine.
ProvisionOnTarget(m) ==
    /\ Goes(m, "provision", "create")
    /\ prov' = [prov EXCEPT ![m] = "user"]
    /\ UNCHANGED <<result, archive, openVars, site, rcvVars, treeVars, history, faults>>

\* A file of that name is truncated where it is.
CreateArchive(m) ==
    /\ Goes(m, "create", "pack")
    /\ archive' = "partial" /\ Truncate(m, "archive")
    /\ UNCHANGED <<result, provVars, rcvVars, treeVars, history, faults>>

\* The dump that follows never finds the site's database under the name it
\* looks for: there is no second part.
PackArchive(m) ==
    /\ Goes(m, "pack", "open")
    /\ \E now \in WrittenBy(m, "whole", archive) :
          archive' = IF open[m] = "archive" THEN now ELSE archive
    /\ Close(m)
    /\ UNCHANGED <<result, provVars, rcvVars, treeVars, history, faults>>

OpenArchive(m) ==
    /\ archive # "none" /\ Goes(m, "open", "send")
    /\ OpenToRead(m, "archive", archive = "whole")
    /\ UNCHANGED <<result, archive, provVars, rcvVars, treeVars, history, faults>>

\* Another request has removed it.
ArchiveGone(m) ==
    /\ archive = "none" /\ pc[m] = "open"
    /\ Returns(m, "remove", "FAILED")
    /\ UNCHANGED <<archive, openVars, provVars, rcvVars, treeVars, history, faults>>

\* What arrives of an archive that is truncated or written while it is read.
Torn(m) == {"partial", IF open[m] = "archive" THEN archive ELSE "whole"}

\* The target has the whole form before it looks at it.
SendArchive(m) ==
    /\ Goes(m, "send", "await")
    /\ \E got \in IF intact[m] THEN {"whole"} ELSE Torn(m) :
          upload' = [upload EXCEPT ![m] = got]
    /\ rcv' = [rcv EXCEPT ![m] = "extract"]
    /\ left' = [left EXCEPT ![m] = Files]
    /\ Close(m)
    /\ UNCHANGED <<result, archive, provVars, treeVars, history, faults>>

\* The deferred removal takes the file of that name, whoever has written it.
RemoveArchive(m) ==
    /\ Goes(m, "remove", "report")
    /\ archive' = "none"
    /\ open' = [n \in Requests |-> IF open[n] = "archive" THEN "unlinked" ELSE open[n]]
    /\ UNCHANGED <<result, intact, provVars, rcvVars, treeVars, history, faults>>

\* A goroutine that is no more.
Gone(m) ==
    /\ result' = [result EXCEPT ![m] = "FAILED"]
    /\ alone' = [alone EXCEPT ![m] = FALSE]

Report(m) ==
    /\ Goes(m, "report", "idle") /\ Gone(m)
    /\ promised' = (promised \/ (result[m] = "DONE" /\ alone[m]))
    /\ UNCHANGED <<archive, openVars, provVars, rcvVars, treeVars, faults>>

-----------------------------------------------------------------------------
(* runProvision, on the target: the user, the directory and all that is in *)
(* it made the user's, the files it writes there, the rest of the site.    *)

ProvAt(m, here, there) == prov[m] = here /\ prov' = [prov EXCEPT ![m] = there]

CreateSystemUser(m) ==
    /\ ProvAt(m, "user", "docroot")
    /\ site' = IF site = "absent" THEN "user" ELSE site
    /\ UNCHANGED <<sourceVars, openVars, rcvVars, treeVars, history, faults>>

Chowned == [f \in Files |-> IF tree[f] = "none" THEN owner[f] ELSE "site"]

\* A file that exists keeps its owner when it is written again.
CreatedAsRoot(f) == [owner EXCEPT ![f] = IF tree[f] = "none" THEN "root" ELSE @]

CreateDocumentRootAlone(m) ==                               \* defective variant
    /\ ProvAt(m, "docroot", "env")
    /\ UNCHANGED <<sourceVars, openVars, site, rcvVars, treeVars, history, faults>>
CreateDocumentRoot(m) ==
    /\ ProvAt(m, "docroot", "env")
    /\ owner' = Chowned
    /\ UNCHANGED <<sourceVars, openVars, site, rcvVars, tree, history, faults>>

WriteEnv(m) ==
    /\ ProvAt(m, "env", "report")
    /\ tree' = [tree EXCEPT ![Shared] = "own"]
    /\ owner' = CreatedAsRoot(Shared)
    /\ intact' = [n \in Requests |-> intact[n] /\ open[n] # Shared]
    /\ UNCHANGED <<sourceVars, open, site, rcvVars, history, faults>>

\* The report itself, under the job id of the migration, is left out.
ReportProvision(m) ==
    /\ ProvAt(m, "report", "idle")
    /\ site' = "provisioned"
    /\ UNCHANGED <<sourceVars, openVars, rcvVars, treeVars, history, faults>>

-----------------------------------------------------------------------------
(* ReceiveHandler, on the target. It goes on when the source is gone.      *)

\* Only directories and regular files are made.
ExtractOpen(m, f) ==
    /\ rcv[m] = "extract" /\ open[m] = "nothing"
    /\ f \in left[m] \ Links /\ \A g \in left[m] \ Links : Place[f] <= Place[g]
    /\ Truncate(m, f)
    /\ tree' = [tree EXCEPT ![f] = "torn"]
    /\ owner' = CreatedAsRoot(f)
    /\ UNCHANGED <<sourceVars, provVars, rcvVars, history, faults>>

\* What the receiver copies of a file, and what a hole at its start leaves.
Copied(f) == IF f \in Huge THEN "cut" ELSE "copy"
Holed(f) == IF tree[f] = Copied(f) THEN tree[f] ELSE "torn"

ExtractWrite(m) ==
    LET f == open[m] IN
    /\ rcv[m] = "extract" /\ f # "nothing"
    /\ \E now \in WrittenBy(m, Copied(f), Holed(f)) : tree' = [tree EXCEPT ![f] = now]
    /\ left' = [left EXCEPT ![m] = @ \ {f}]
    /\ Close(m)
    /\ UNCHANGED <<sourceVars, provVars, rcv, upload, owner, history, faults>>

\* The rest of the archive has been passed over without an error.
ExtractEnds(m) ==
    /\ rcv[m] = "extract" /\ open[m] = "nothing" /\ left[m] \subseteq Links
    /\ upload[m] = "whole"
    /\ rcv' = [rcv EXCEPT ![m] = "chown"]
    /\ UNCHANGED <<sourceVars, openVars, provVars, upload, left, treeVars, history, faults>>

\* Its error is dropped: with no such user nothing changes.
FixOwnership(m) ==
    /\ rcv[m] = "chown"
    /\ owner' = IF site = "absent" THEN owner ELSE Chowned
    /\ rcv' = [rcv EXCEPT ![m] = "answer"]
    /\ UNCHANGED <<sourceVars, openVars, provVars, upload, left, tree, history, faults>>

\* The handler returns, and MigrateSite with it if it is still waiting.
Answer(m, outcome) ==
    /\ rcv' = [rcv EXCEPT ![m] = "idle"]
    /\ upload' = [upload EXCEPT ![m] = "partial"]
    /\ left' = [left EXCEPT ![m] = {}]
    /\ Close(m)
    /\ IF pc[m] = "await" THEN Returns(m, "remove", outcome) ELSE UNCHANGED <<pc, result>>
    /\ UNCHANGED <<archive>>

AnswerOK(m) ==
    /\ rcv[m] = "answer" /\ Answer(m, "DONE")
    /\ UNCHANGED <<provVars, treeVars, history, faults>>

AnswerNotExamined(m) ==                                     \* defective variant
    /\ rcv[m] = "extract" /\ upload[m] = "partial" /\ Answer(m, "DONE")
    /\ UNCHANGED <<provVars, treeVars, history, faults>>

\* An archive that is cut ends the extraction before its end.
AnswerError(m) ==
    /\ rcv[m] = "extract" /\ upload[m] = "partial" /\ Answer(m, "FAILED")
    /\ UNCHANGED <<provVars, treeVars, history, faults>>

-----------------------------------------------------------------------------
(* Accidents.                                                              *)

Accident == faults < MaxFaults /\ faults' = faults + 1

SourceFailsUnclosed(m) ==                                   \* defective variant
    /\ Accident /\ pc[m] \in {"provision", "create", "pack"}
    /\ Returns(m, "report", "FAILED")
    /\ UNCHANGED <<archive, openVars, provVars, rcvVars, treeVars, history>>

\* The target does not answer, or packing stops half way: then nothing
\* removes the archive.
SourceFails(m) ==
    /\ Accident /\ pc[m] \in {"provision", "create", "pack"}
    /\ Returns(m, "report", "FAILED") /\ Close(m)
    /\ UNCHANGED <<archive, provVars, rcvVars, treeVars, history>>

\* The errors of closing the archive are dropped.
PackCutShort(m) ==
    /\ Accident /\ Goes(m, "pack", "open") /\ Close(m)
    /\ UNCHANGED <<result, archive, provVars, rcvVars, treeVars, history>>

\* The connection breaks before the target has the form.
UploadBreaks(m) ==
    /\ Accident /\ pc[m] = "send"
    /\ Returns(m, "remove", "FAILED") /\ Close(m)
    /\ UNCHANGED <<archive, provVars, rcvVars, treeVars, history>>

\* It breaks after that, or the thirty minutes are over.
AnswerLost(m) ==
    /\ Accident /\ pc[m] = "await"
    /\ Returns(m, "remove", "FAILED")
    /\ UNCHANGED <<archive, openVars, provVars, rcvVars, treeVars, history>>

ReportLost(m) ==
    /\ Accident /\ Goes(m, "report", "idle") /\ Gone(m)
    /\ UNCHANGED <<archive, openVars, provVars, rcvVars, treeVars, promised>>

ProvisionFails(m) ==
    /\ Accident /\ Provisioning(m)
    /\ prov' = [prov EXCEPT ![m] = "idle"]
    /\ UNCHANGED <<sourceVars, openVars, site, rcvVars, treeVars, history>>

ExtractFails(m) ==
    /\ Accident /\ rcv[m] = "extract" /\ Answer(m, "FAILED")
    /\ UNCHANGED <<provVars, treeVars, history>>

SourceCrash ==
    /\ Accident /\ \E m \in Requests : Active(m)
    /\ pc' = [m \in Requests |-> "idle"]
    /\ result' = [m \in Requests |-> "FAILED"]
    /\ alone' = [m \in Requests |-> FALSE]
    /\ open' = [m \in Requests |-> IF Receiving(m) THEN open[m] ELSE "nothing"]
    /\ intact' = [m \in Requests |-> IF Receiving(m) THEN intact[m] ELSE TRUE]
    /\ UNCHANGED <<archive, provVars, rcvVars, treeVars, promised>>

TargetCrash ==
    /\ Accident /\ \E m \in Requests : Receiving(m) \/ Provisioning(m)
    /\ prov' = [m \in Requests |-> "idle"] /\ rcv' = [m \in Requests |-> "idle"]
    /\ upload' = [m \in Requests |-> "partial"] /\ left' = [m \in Requests |-> {}]
    /\ open' = [m \in Requests |-> IF Receiving(m) THEN "nothing" ELSE open[m]]
    /\ intact' = [m \in Requests |-> IF Receiving(m) THEN TRUE ELSE intact[m]]
    /\ pc' = [m \in Requests |-> IF pc[m] = "await" THEN "remove" ELSE pc[m]]
    /\ UNCHANGED <<result, archive, site, treeVars, history>>

-----------------------------------------------------------------------------
SourceStep(m) ==
    \/ ProvisionOnTarget(m) \/ CreateArchive(m) \/ PackArchive(m)
    \/ OpenArchive(m) \/ ArchiveGone(m) \/ SendArchive(m)
    \/ RemoveArchive(m) \/ Report(m)

ProvisionStep(m) ==
    CreateSystemUser(m) \/ CreateDocumentRoot(m) \/ WriteEnv(m) \/ ReportProvision(m)

ReceiveStep(m) ==
    \/ \E f \in Files : ExtractOpen(m, f)
    \/ ExtractWrite(m) \/ ExtractEnds(m) \/ FixOwnership(m)
    \/ AnswerOK(m) \/ AnswerError(m)

Fault(m) ==
    \/ SourceFails(m) \/ PackCutShort(m) \/ UploadBreaks(m) \/ AnswerLost(m)
    \/ ReportLost(m) \/ ProvisionFails(m) \/ ExtractFails(m)

Next ==
    \/ \E m \in Requests :
          Request(m) \/ SourceStep(m) \/ ProvisionStep(m) \/ ReceiveStep(m) \/ Fault(m)
    \/ SourceCrash \/ TargetCrash

Spec == Init /\ [][Next]_vars

-----------------------------------------------------------------------------
(* Properties.                                                             *)

\* A migration reported DONE, alone from its request to its report, has left
\* every regular file of up to 4 GiB on the target as it was on the source, but
\* for those that provisioning may still write: no archive that is cut, no
\* leftover of an earlier try, no crash of either node passes for a site that
\* has moved. The exceptions are the code's: a DONE says nothing of a symbolic
\* link, which is lost, nor of a larger file, which is cut.
MigratedIsWhole ==
    promised => \A f \in Files \ ({Shared} \cup Links \cup Huge) : tree[f] = "copy"

\* And once provisioning is through, before the upload or after it, the site's
\* user owns all that has arrived: the chown that fails before the user exists
\* is made up for by the one that follows the creation of the user.
MigratedIsOwned ==
    promised /\ site = "provisioned" => \A f \in Files \ Links : owner[f] = "site"
=============================================================================
