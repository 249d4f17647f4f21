---------------------------- MODULE SiteContent -----------------------------
(***************************************************************************)
(* What is in a WordPress site and how it travels: the installation, the   *)
(* copy of a site to its staging site, the push of a staging site over its *)
(* production site, and the import of an archive made elsewhere. A site is *)
(* a directory and a database; which database it shows is written in the   *)
(* directory (wp-config.php), and so is the account the warden opens it    *)
(* with (.db_credentials). A copy of the directory copies both.            *)
(*                                                                         *)
(* Provisioners, imports and web servers go by a name they make of the id: *)
(* its first 15 characters for the directory, and for the database one     *)
(* without hyphens. Clone and push go by the whole id. With a short id the *)
(* two are the same; with a UUID, which is what ids are, clone and push    *)
(* look in another directory (Named) and for a database nobody makes.      *)
(***************************************************************************)
EXTENDS Integers, Sequences, FiniteSets

CONSTANTS
    Sites,         \* sites, and the directories they are served from
    Directories,   \* all directories
    Named,         \* the directory that has the whole id of a site as its name
    None,
    Edits,         \* changes customers make, each once
    Ready,         \* sites that were imported before, without wp-config.php
    Workers,       \* names for the goroutines that run jobs
    Orders,        \* what the control plane wants done, each sent until DONE
    MaxFaults      \* bound: failed commands, crashes

Contents == {"empty", "old", "fresh", "archive", "part"} \cup Edits

Order == [id : Nat, request : {"install", "clone", "push", "import"},
          from : Sites, to : Sites, db : BOOLEAN,
          after : SUBSET Nat]

ASSUME ContentConstants ==
    /\ Orders \subseteq Order /\ Ready \subseteq Sites
    /\ Sites \subseteq Directories /\ Named \in [Sites -> Directories]
    /\ \A s, t \in Sites : Named[s] \in {t, Named[t]} => s = t
    /\ MaxFaults \in Nat
    /\ None \notin Sites \cup Contents
    /\ \A o \in Orders : o.from = o.to <=> o.request \in {"install", "import"}

VARIABLES
    wpcli,      \* /usr/local/bin/wp: "none", "part" of it, or "whole"
    account,    \* sites whose database and database account exist
    files,      \* content of a directory's document root, None without one
    keys,       \* .db_credentials: whose account, and is the password right
    config,     \* wp-config.php: whose database, and is the password right
    db,         \* content of the database, and whose address is in it
    stray,      \* databases an abandoned mysql process still writes to
    job,        \* what each goroutine is doing
    done,       \* the orders reported DONE
    promise,    \* what the last copy onto the site was reported to be
    edited,     \* the edits made
    faults      \* accidents so far

siteVars == <<files, keys, config>>
dbVars == <<account, db, stray>>
vars == <<wpcli, siteVars, dbVars, job, done, promise, edited, faults>>

-----------------------------------------------------------------------------
(* Jobs.                                                                   *)

CopyFiles == <<"mkdir", "rsync", "copied">>
CopyBoth == <<"mkdir", "rsync", "copied", "dump", "wait dump", "wait load">>
PushBoth == <<"mkdir", "rsync", "copied", "dump", "wait dump", "wait load", "replace">>
Install == <<"provision", "wp-cli", "open wp-cli", "fill wp-cli", "core", "read",
             "config", "install">>
ImportFiles == <<"extract", "extracted">>
ImportBoth == <<"read", "load", "loaded", "extract", "extracted", "replace">>

Chain == [o \in Orders |->
    CASE o.request = "install" -> Install
      [] o.request = "clone" -> IF o.db THEN CopyBoth ELSE CopyFiles
      [] o.request = "push" -> IF o.db THEN PushBoth ELSE CopyFiles
      [] o.request = "import" -> IF o.db THEN ImportBoth ELSE ImportFiles]

Link == [site : Sites, right : BOOLEAN]
Addresses == Sites \cup {None, "elsewhere"}
Database == [data : Contents, url : Addresses]
Nothing == [data |-> "empty", url |-> None]
ProcessStates == {"no", "runs", "ok", "failed"}

Idle == [step |-> 0]
Job == [order : Orders, step : 1..9, clean : BOOLEAN, link : Link \cup {None},
        seen : Contents \cup {None}, snap : Database,
        large : BOOLEAN, dump : ProcessStates, load : ProcessStates \cup {"writes"}]
Promise == [files : Contents, data : Contents \cup {None}, from : Sites]

Active(w) == job[w] # Idle
From(w) == job[w].order.from
To(w) == job[w].order.to
Source(w) == Named[From(w)]
Target(w) == Named[To(w)]
Done(w) == job[w].step > Len(Chain[job[w].order])
At(w, name) == Active(w) /\ ~Done(w) /\ Chain[job[w].order][job[w].step] = name

TypeOK ==
    /\ wpcli \in {"none", "part", "whole"}
    /\ account \subseteq Sites /\ stray \subseteq Sites
    /\ files \in [Directories -> Contents \cup {None}]
    /\ keys \in [Directories -> Link \cup {None}]
    /\ config \in [Directories -> Link \cup {None}]
    /\ db \in [Sites -> Database]
    /\ job \in [Workers -> Job \cup {Idle}]
    /\ done \subseteq Orders
    /\ promise \in [Sites -> Promise \cup {None}]
    /\ edited \subseteq Edits /\ faults \in 0..MaxFaults

Init ==
    /\ wpcli = "none" /\ account = Ready /\ stray = {}
    /\ files = [d \in Directories |-> IF d \in Ready THEN "old" ELSE None]
    /\ keys = [d \in Directories |->
                  IF d \in Ready THEN [site |-> d, right |-> TRUE] ELSE None]
    /\ config = [d \in Directories |-> None]
    /\ db = [s \in Sites |->
                IF s \in Ready THEN [data |-> "old", url |-> "elsewhere"] ELSE Nothing]
    /\ job = [w \in Workers |-> Idle]
    /\ done = {} /\ promise = [s \in Sites |-> None]
    /\ edited = {} /\ faults = 0

\* A job is clean while no other job or customer changes what it reads or
\* writes, and as long as it has overlooked no error. The database it writes may
\* be the one that an import of another site, whose directory is a copy, fills.
Touches(o) == {o.from, o.to}
Spoilt(touched, written) ==
    [w \in Workers |->
        IF Active(w) /\ (Touches(job[w].order) \cap touched # {} \/ To(w) \in written)
        THEN [job[w] EXCEPT !.clean = FALSE] ELSE job[w]]
Withdrawn(S) == [s \in Sites |-> IF s \in S THEN None ELSE promise[s]]
Filled == {job[w].link.site : w \in {x \in Workers : At(x, "loaded")}}

Start(w, o) ==
    LET alone == /\ \A x \in Workers : Active(x) => Touches(job[x].order) \cap Touches(o) = {}
                 /\ o.to \notin stray \cup Filled
        new == [order |-> o, step |-> 1, clean |-> alone, link |-> None,
                seen |-> None, snap |-> Nothing, large |-> FALSE,
                dump |-> "no", load |-> "no"]
    IN
    /\ o \notin done /\ \A x \in Workers : Active(x) => job[x].order # o
    /\ o.after \subseteq {p.id : p \in done}
    /\ ~Active(w) /\ w = CHOOSE x \in Workers : ~Active(x)
    /\ job' = [Spoilt(Touches(o), {}) EXCEPT ![w] = new]
    /\ promise' = Withdrawn({o.to})
    /\ UNCHANGED <<wpcli, siteVars, dbVars, done, edited, faults>>

Advance(w) ==
    /\ job' = [job EXCEPT ![w].step = @ + 1]
    /\ UNCHANGED <<done, promise, edited, faults>>

Outcome(w) ==
    IF job[w].clean /\ job[w].order.request \in {"clone", "push"}
    THEN [files |-> job[w].seen, from |-> From(w),
          data |-> IF job[w].order.db THEN job[w].snap.data ELSE None]
    ELSE None

Finish(w) ==
    /\ Active(w) /\ Done(w)
    /\ job' = [job EXCEPT ![w] = Idle]
    /\ done' = done \cup {job[w].order}
    /\ promise' = [promise EXCEPT ![To(w)] = Outcome(w)]
    /\ UNCHANGED <<wpcli, siteVars, dbVars, edited, faults>>

Fails(w) ==
    /\ job' = [job EXCEPT ![w] = Idle]
    /\ UNCHANGED <<wpcli, siteVars, account, db, done, promise, edited>>

\* What a command needs; without it the job is FAILED.
Opens(link) == link # None /\ link.right /\ link.site \in account
Lacks(w) ==
    \/ At(w, "rsync") /\ files[Source(w)] = None
    \/ At(w, "core") /\ files[To(w)] \in {None, "empty", "part"} /\ wpcli # "whole"
    \/ At(w, "read") /\ keys[To(w)] = None
    \/ At(w, "config") /\ config[To(w)] = None /\ wpcli # "whole"
    \/ At(w, "install") /\ (wpcli # "whole" \/ ~Opens(config[To(w)]) \/ files[To(w)] = "part")
    \/ At(w, "load") /\ ~Opens(job[w].link)

Refused(w) == Lacks(w) /\ Fails(w) /\ UNCHANGED <<stray, faults>>

\* A command fails, a download breaks off, the report of the result is lost.
Piping(w) == At(w, "wait dump") \/ At(w, "wait load")
Accident(w) ==
    /\ Active(w) /\ ~Piping(w) /\ ~At(w, "replace")
    /\ faults < MaxFaults /\ faults' = faults + 1
    /\ Fails(w) /\ UNCHANGED stray

\* The commands of a warden that is killed die with it.
Crash ==
    /\ faults < MaxFaults /\ \E w \in Workers : Active(w)
    /\ job' = [w \in Workers |-> Idle] /\ stray' = {}
    /\ faults' = faults + 1
    /\ UNCHANGED <<wpcli, siteVars, account, db, done, promise, edited>>

-----------------------------------------------------------------------------
(* Installing WordPress.                                                   *)

\* ProvisionSite, whose steps are those of SiteLifecycle: a site that has an
\* account already gets a file with a password that does not open it.
Provision(w) ==
    /\ At(w, "provision") /\ Advance(w)
    /\ account' = account \cup {To(w)}
    /\ keys' = [keys EXCEPT ![To(w)] = [site |-> To(w), right |-> To(w) \notin account]]
    /\ files' = [files EXCEPT ![To(w)] = IF @ = None THEN "empty" ELSE @]
    /\ UNCHANGED <<wpcli, config, db, stray>>

\* ensureWPCLI is content with a file of that name.
FindWPCLI(w) ==
    /\ At(w, "wp-cli")
    /\ job' = [job EXCEPT ![w].step = IF wpcli = "none" THEN @ + 1 ELSE @ + 3]
    /\ UNCHANGED <<wpcli, siteVars, dbVars, done, promise, edited, faults>>

OpenWPCLI(w) ==
    /\ At(w, "open wp-cli") /\ Advance(w)
    /\ wpcli' = "part"
    /\ UNCHANGED <<siteVars, dbVars>>

FillWPCLI(w) ==
    /\ At(w, "fill wp-cli") /\ Advance(w)
    /\ wpcli' = "whole"
    /\ UNCHANGED <<siteVars, dbVars>>

\* An index.php is taken for the whole of WordPress: a part may have one.
KeepCore(w) ==
    /\ At(w, "core") /\ files[To(w)] \notin {None, "empty"} /\ Advance(w)
    /\ UNCHANGED <<wpcli, siteVars, dbVars>>

DownloadCore(w) ==
    /\ At(w, "core") /\ files[To(w)] \in {"empty", "part"} /\ wpcli = "whole"
    /\ files' = [files EXCEPT ![To(w)] = "fresh"]
    /\ Advance(w)
    /\ UNCHANGED <<wpcli, keys, config, dbVars>>

DownloadCut(w) ==
    /\ At(w, "core") /\ files[To(w)] = "empty" /\ wpcli = "whole"
    /\ faults < MaxFaults /\ faults' = faults + 1
    /\ files' = [files EXCEPT ![To(w)] = "part"]
    /\ job' = [job EXCEPT ![w] = Idle]
    /\ UNCHANGED <<wpcli, keys, config, dbVars, done, promise, edited>>

\* parseDBCreds, readDBCredentials.
ReadCredentials(w) ==
    /\ At(w, "read") /\ keys[To(w)] # None
    /\ job' = [job EXCEPT ![w].step = @ + 1, ![w].link = keys[To(w)]]
    /\ UNCHANGED <<wpcli, siteVars, dbVars, done, promise, edited, faults>>

DatabaseOnly(w) == job[w].link.site                         \* defective variant
Configured(w) == IF config[To(w)] = None THEN job[w].link ELSE config[To(w)]
ConfigureWP(w) ==
    /\ At(w, "config") /\ (config[To(w)] # None \/ wpcli = "whole")
    /\ config' = [config EXCEPT ![To(w)] = Configured(w)]
    /\ Advance(w)
    /\ UNCHANGED <<wpcli, files, keys, dbVars>>

\* wp core install leaves a database alone that has WordPress's tables; in one
\* that was imported or installed in part it may find them or not.
InstallCore(w) ==
    /\ At(w, "install") /\ wpcli = "whole" /\ Opens(config[To(w)])
    /\ LET d == config[To(w)].site IN
       /\ db[d].data \in {"empty", "part"}
       /\ db' = [db EXCEPT ![d] = [data |-> "fresh", url |-> To(w)]]
       /\ job' = [Spoilt({}, {d}) EXCEPT ![w] = [job[w] EXCEPT !.step = @ + 1]]
       /\ promise' = Withdrawn({d})
    /\ UNCHANGED <<wpcli, siteVars, account, stray, done, edited, faults>>

InstallCut(w) ==
    /\ At(w, "install") /\ wpcli = "whole" /\ Opens(config[To(w)])
    /\ faults < MaxFaults /\ faults' = faults + 1
    /\ LET d == config[To(w)].site IN
       /\ db[d].data \in {"empty", "part"}
       /\ db' = [db EXCEPT ![d].data = "part"]
       /\ job' = [Spoilt({}, {d}) EXCEPT ![w] = Idle]
       /\ promise' = Withdrawn({d})
    /\ UNCHANGED <<wpcli, siteVars, account, stray, done, edited>>

TablesAreAnError(w) ==                                      \* defective variant
    /\ At(w, "install") /\ wpcli = "whole" /\ Opens(config[To(w)])
    /\ db[config[To(w)].site].data # "empty"
    /\ Fails(w) /\ UNCHANGED <<stray, faults>>
KeepTables(w) ==
    /\ At(w, "install") /\ wpcli = "whole" /\ Opens(config[To(w)])
    /\ db[config[To(w)].site].data # "empty"
    /\ Advance(w)
    /\ UNCHANGED <<wpcli, siteVars, dbVars>>

-----------------------------------------------------------------------------
(* Copying the directory, for clone and push.                              *)

\* A clone makes the directory before it knows whether there is a source, and
\* leaves it empty when there is none. A push has no such step.
MakeDirectory(w) ==
    /\ At(w, "mkdir") /\ Advance(w)
    /\ files' = IF job[w].order.request = "clone" /\ files[Target(w)] = None
                THEN [files EXCEPT ![Target(w)] = "empty"] ELSE files
    /\ UNCHANGED <<wpcli, keys, config, dbVars>>

\* rsync --delete: for a while the destination is a mixture.
BeginRsync(w) ==
    /\ At(w, "rsync") /\ files[Source(w)] # None
    /\ job' = [job EXCEPT ![w].step = @ + 1, ![w].seen = files[Source(w)]]
    /\ files' = [files EXCEPT ![Target(w)] = "part"]
    /\ UNCHANGED <<wpcli, keys, config, dbVars, done, promise, edited, faults>>

EndRsync(w) ==
    /\ At(w, "copied") /\ Advance(w)
    /\ files' = [files EXCEPT ![Target(w)] =
                    IF files[Source(w)] = job[w].seen THEN job[w].seen ELSE "part"]
    /\ keys' = [keys EXCEPT ![Target(w)] = keys[Source(w)]]
    /\ config' = [config EXCEPT ![Target(w)] = config[Source(w)]]
    /\ UNCHANGED <<wpcli, dbVars>>

-----------------------------------------------------------------------------
(* mysqldump db_<from> | mysql db_<to>: two processes, and the job, which  *)
(* waits for the first and then for the second.                            *)

\* There is a database of the name that clone and push give it.
HasDatabase(s) == s \in account /\ Named[s] = s

StartPipe(w) ==
    /\ At(w, "dump")
    /\ \E large \in BOOLEAN :
           job' = [job EXCEPT ![w].step = @ + 1, ![w].snap = db[From(w)],
                              ![w].large = large, ![w].dump = "runs", ![w].load = "runs"]
    /\ UNCHANGED <<wpcli, siteVars, dbVars, done, promise, edited, faults>>

Piped == UNCHANGED <<wpcli, siteVars, account, stray, done, promise, edited>>
Dumps(w, state) == job' = [job EXCEPT ![w].dump = state] /\ Piped
Loads(w, state) == job' = [job EXCEPT ![w].load = state] /\ Piped

LoadBegins(w) ==
    /\ Active(w) /\ job[w].load = "runs"
    /\ HasDatabase(To(w)) /\ HasDatabase(From(w)) /\ job[w].dump # "failed"
    /\ Loads(w, "writes")
    /\ db' = [db EXCEPT ![To(w)].data = "part"]
    /\ UNCHANGED faults

\* A large dump is written as long as somebody reads it, another fits into the
\* pipe. The warden has the pipe open itself: no broken pipe ends a dump nobody reads.
NeedsReader(w) == job[w].load = "writes"                    \* defective variant
DumpFits(w) == job[w].large => job[w].load = "writes"
DumpEnds(w) ==
    /\ At(w, "wait dump") /\ job[w].dump = "runs"
    /\ HasDatabase(From(w)) /\ DumpFits(w)
    /\ Dumps(w, "ok")
    /\ UNCHANGED <<db, faults>>

LoadEnds(w) ==
    /\ Active(w) /\ HasDatabase(To(w))
    /\ \/ job[w].load = "writes" /\ job[w].dump \in {"ok", "failed"}
       \/ job[w].load = "runs" /\ job[w].dump = "failed"
    /\ Loads(w, "ok")
    /\ db' = [db EXCEPT ![To(w)] = IF job[w].dump = "ok" THEN job[w].snap ELSE @]
    /\ UNCHANGED faults

\* Without its database each of the two exits with an error, or by accident.
NoDatabase(w) ==
    /\ Active(w)
    /\ \/ job[w].dump = "runs" /\ ~HasDatabase(From(w)) /\ Dumps(w, "failed")
       \/ job[w].load = "runs" /\ ~HasDatabase(To(w)) /\ Loads(w, "failed")
    /\ UNCHANGED <<db, faults>>

ProcessFails(w) ==
    /\ Active(w) /\ faults < MaxFaults /\ faults' = faults + 1
    /\ \/ job[w].dump = "runs" /\ Dumps(w, "failed")
       \/ job[w].load \in {"runs", "writes"} /\ Loads(w, "failed")
    /\ UNCHANGED db

\* When the dump has failed nobody waits for the import, which goes on.
WaitDump(w) ==
    /\ At(w, "wait dump") /\ job[w].dump = "ok" /\ Advance(w)
    /\ UNCHANGED <<wpcli, siteVars, dbVars>>

DumpFailed(w) ==
    /\ At(w, "wait dump") /\ job[w].dump = "failed"
    /\ stray' = IF job[w].load \in {"runs", "writes"} /\ HasDatabase(To(w))
                THEN stray \cup {To(w)} ELSE stray
    /\ Fails(w) /\ UNCHANGED faults

DumpIsEnough(w) == job[w].load # "failed"                   \* defective variant
ImportIsDone(w) == job[w].load = "ok"
WaitLoad(w) ==
    /\ At(w, "wait load") /\ ImportIsDone(w)
    /\ job' = [job EXCEPT ![w].step = @ + 1, ![w].dump = "no", ![w].load = "no"]
    /\ UNCHANGED <<wpcli, siteVars, dbVars, done, promise, edited, faults>>

LoadFailed(w) ==
    /\ At(w, "wait load") /\ job[w].load = "failed"
    /\ Fails(w) /\ UNCHANGED <<stray, faults>>

StrayWrites(s) ==
    /\ s \in stray
    /\ db' = [db EXCEPT ![s].data = "part"]
    /\ job' = Spoilt({}, {s}) /\ promise' = Withdrawn({s})
    /\ UNCHANGED <<wpcli, siteVars, account, stray, done, edited, faults>>

StrayEnds(s) ==
    /\ s \in stray
    /\ stray' = stray \ {s}
    /\ UNCHANGED <<wpcli, siteVars, account, db, job, done, promise, edited, faults>>

-----------------------------------------------------------------------------
(* Importing an archive, and moving a database to its new address.         *)

\* The dump is streamed from the control plane into whatever database the
\* credentials file names.
BeginLoad(w) ==
    /\ At(w, "load") /\ Opens(job[w].link)
    /\ LET d == job[w].link.site IN
       /\ db' = [db EXCEPT ![d].data = "part"]
       /\ job' = [Spoilt({}, {d}) EXCEPT ![w] = [job[w] EXCEPT !.step = @ + 1]]
       /\ promise' = Withdrawn({d})
    /\ UNCHANGED <<wpcli, siteVars, account, stray, done, edited, faults>>

EndLoad(w) ==
    /\ At(w, "loaded") /\ Advance(w)
    /\ db' = [db EXCEPT ![job[w].link.site] = [data |-> "archive", url |-> "elsewhere"]]
    /\ UNCHANGED <<wpcli, siteVars, account, stray>>

\* tar overwrites what it finds; the archive has no wp-config.php.
BeginExtract(w) ==
    /\ At(w, "extract") /\ Advance(w)
    /\ files' = [files EXCEPT ![To(w)] = "part"]
    /\ UNCHANGED <<wpcli, keys, config, dbVars>>

EndExtract(w) ==
    /\ At(w, "extracted") /\ Advance(w)
    /\ files' = [files EXCEPT ![To(w)] = "archive"]
    /\ UNCHANGED <<wpcli, keys, config, dbVars>>

\* wp search-replace works on the database wp-config.php names, and replaces
\* the address the content is known to come from. Its failure is only logged.
OldAddress(w) == IF job[w].order.request = "push" THEN From(w) ELSE "elsewhere"
WordPressOf(w) == IF job[w].order.request = "push" THEN Target(w) ELSE To(w)
SearchReplace(w) ==
    /\ At(w, "replace") /\ Advance(w)
    /\ LET c == config[WordPressOf(w)] IN
       db' = IF wpcli = "whole" /\ Opens(c) /\ db[c.site].url = OldAddress(w)
             THEN [db EXCEPT ![c.site].url = To(w)] ELSE db
    /\ UNCHANGED <<wpcli, siteVars, account, stray>>

ReplaceFails(w) ==
    /\ At(w, "replace")
    /\ faults < MaxFaults /\ faults' = faults + 1
    /\ job' = [job EXCEPT ![w].step = @ + 1, ![w].clean = FALSE]
    /\ UNCHANGED <<wpcli, siteVars, dbVars, done, promise, edited>>

-----------------------------------------------------------------------------
(* Customers change their sites while all this goes on.                    *)

EditFiles(s, e) ==
    /\ e \notin edited /\ files[s] \notin {None, "part"}
    /\ files' = [files EXCEPT ![s] = e]
    /\ job' = Spoilt({s}, {}) /\ promise' = Withdrawn({s})
    /\ edited' = edited \cup {e}
    /\ UNCHANGED <<wpcli, keys, config, dbVars, done, faults>>

EditData(s, e) ==
    /\ e \notin edited /\ Opens(config[s])
    /\ LET d == config[s].site IN
       /\ db[d].data \notin {"empty", "part"}
       /\ db' = [db EXCEPT ![d].data = e]
       /\ job' = Spoilt({}, {d}) /\ promise' = Withdrawn({d})
    /\ edited' = edited \cup {e}
    /\ UNCHANGED <<wpcli, siteVars, account, stray, done, faults>>

-----------------------------------------------------------------------------
InstallStep(w) ==
    \/ Provision(w) \/ FindWPCLI(w) \/ OpenWPCLI(w) \/ FillWPCLI(w) \/ KeepCore(w)
    \/ DownloadCore(w) \/ ReadCredentials(w) \/ ConfigureWP(w) \/ InstallCore(w)
    \/ KeepTables(w)

CopyStep(w) ==
    \/ MakeDirectory(w) \/ BeginRsync(w) \/ EndRsync(w) \/ StartPipe(w) \/ LoadBegins(w) \/ DumpEnds(w)
    \/ LoadEnds(w) \/ NoDatabase(w) \/ WaitDump(w) \/ DumpFailed(w) \/ WaitLoad(w) \/ LoadFailed(w)

ImportStep(w) ==
    \/ BeginLoad(w) \/ EndLoad(w) \/ BeginExtract(w) \/ EndExtract(w) \/ SearchReplace(w)

JobStep(w) ==
    /\ Active(w)
    /\ \/ InstallStep(w) \/ CopyStep(w) \/ ImportStep(w) \/ Refused(w) \/ Finish(w)

Fault(w) ==
    \/ Accident(w) \/ DownloadCut(w) \/ InstallCut(w) \/ ProcessFails(w) \/ ReplaceFails(w)

Next ==
    \/ \E w \in Workers, o \in Orders : Start(w, o)
    \/ \E w \in Workers : JobStep(w) \/ Fault(w)
    \/ \E s \in Sites : StrayWrites(s) \/ StrayEnds(s)
    \/ \E s \in Sites, e \in Edits : EditFiles(s, e) \/ EditData(s, e)
    \/ Crash

Spec == Init /\ [][Next]_vars

\* Goroutines and commands go on, an order is sent until it is DONE and waits in
\* line for one of the slots, and an import that nobody waits for ends.
FairSpec ==
    /\ Spec
    /\ \A w \in Workers : WF_vars(JobStep(w))
    /\ \A o \in Orders : SF_vars(\E w \in Workers : Start(w, o))
    /\ \A s \in Sites : WF_vars(StrayEnds(s))

-----------------------------------------------------------------------------
(* Properties.                                                             *)

\* After a clone or a push reported DONE that nobody disturbed, the directory
\* named after the target is that of the source as rsync found it and the
\* database, if it was asked for, is the source's as the dump found it: never a
\* part of one, although DONE comes from two processes, and although an import
\* of a failed attempt may live on. Without databases of the names it goes by
\* no copy of a database is DONE.
CopyIsWhole ==
    \A t \in Sites : promise[t] # None =>
        /\ files[Named[t]] = promise[t].files
        /\ promise[t].data # None => Named[t] = t /\ db[t].data = promise[t].data

\* handlers_clone.go: "rsyncs staging files to production". When a push that nobody
\* disturbed is about to be reported DONE, the production site is served with
\* what the staging site is.
PushReachesProduction ==
    \A w \in Workers :
        Active(w) /\ Done(w) /\ job[w].order.request = "push" /\ job[w].clean
            => files[To(w)] = files[From(w)]

\* The import exited first and the dump waits for a reader it does not have.
Hung(w) ==
    /\ At(w, "wait dump") /\ job[w].dump = "runs" /\ job[w].load = "failed"
    /\ job[w].large

\* However the two processes of a pipe end, a job ends too, with one exception:
\* a large dump whose import exited before it had read everything.
EndsOrHangs == \A w \in Workers : []<>(~Active(w) \/ Hung(w))

\* What no retry repairs: a file of wp-cli that was cut short is taken for the
\* whole, so is a part of WordPress that has an index.php, and a wp-config.php
\* with a password that opens nothing is kept.
BeyondRetry(s) ==
    \/ wpcli = "part"
    \/ files[s] = "part"
    \/ config[s] # None /\ ~config[s].right

\* An installation is DONE in the end, whatever failed attempts left and other
\* jobs put into the site, unless one of these three stays for ever.
InstallConverges ==
    \A o \in Orders : o.request = "install" =>
        <>(o \in done) \/ <>[]BeyondRetry(o.to)
=============================================================================
