----------------------------- MODULE EdgeVhosts -----------------------------
(***************************************************************************)
(* The jobs that work on the part of the Nginx configuration that belongs  *)
(* to no site of this node: CDN edge vhosts with the certificate each one  *)
(* needs, and the firewall rules. Every job rewrites its file in place and *)
(* reloads one Nginx, whose configuration is accepted or rejected whole:   *)
(* a file of one job decides whether the jobs of all others succeed.       *)
(*                                                                         *)
(* A file is known by its key: the domain of an edge vhost, or Rules.      *)
(***************************************************************************)
EXTENDS Integers, Sequences, FiniteSets

CONSTANTS
    Domains,      \* customer domains
    Rules,        \* the key of modsecurity/dnsfox/dnsfox.conf
    NoFile,       \* the key of a job that rewrites no file
    Contents,     \* what a file is about: an origin IP, a version of the rules
    Workers,      \* names for the goroutines that run jobs
    Orders,       \* what the control plane wants done, each sent until DONE
    MaxFaults     \* bound: crashes, failed commands, files Nginx rejects

Keys == Domains \cup {Rules}
Kinds == {"create", "delete", "sync", "issue", "reload"}
Order == [kind : Kinds, key : Keys \cup {NoFile}, content : Contents]

ASSUME EdgeConstants ==
    /\ Orders \subseteq Order
    /\ MaxFaults \in Nat
    /\ Rules \notin Domains /\ NoFile \notin Keys
    /\ Contents \cap {"none", "torn", "rejected", "unknown"} = {}
    /\ \A o \in Orders :
          /\ o.kind \in {"create", "delete"} <=> o.key \in Domains
          /\ o.kind = "sync" <=> o.key = Rules

VARIABLES
    fullchain,    \* /etc/ssl/dnsfox/<domain>/fullchain.pem
    privkey,      \* /etc/ssl/dnsfox/<domain>/privkey.pem
    disk,         \* the configuration files
    live,         \* what of them the running Nginx has loaded
    siteBad,      \* a site of this node has a vhost Nginx rejects
    job,          \* what each goroutine is doing
    done,         \* the orders reported DONE
    promise,      \* what the last job on a file has made of it
    faults        \* accidents so far

certVars == <<fullchain, privkey>>
nginxVars == <<disk, live, siteBad>>
vars == <<certVars, nginxVars, job, done, promise, faults>>

-----------------------------------------------------------------------------
(* The handlers as chains of steps, in the order of the source. A download *)
(* or a command that has no effect when it fails is part of the step that  *)
(* follows it.                                                             *)

CreateEdgeVhost ==
    <<"certificate", "fullchain", "privkey", "open", "fill", "test", "reload">>
DeleteWithoutReload == <<"remove">>                         \* defective variant
DeleteEdgeVhost == <<"remove", "reload">>
SyncWafRules == <<"open", "fill", "reload">>
IssueCertificate == <<"try reload">>

Chain == [
    create |-> CreateEdgeVhost, delete |-> DeleteEdgeVhost,
    sync |-> SyncWafRules, issue |-> IssueCertificate, reload |-> <<"reload">> ]

Idle == [step |-> 0]
Job == [order : Orders, step : 1..8, alone : BOOLEAN]

Active(w) == job[w] # Idle
Key(w) == job[w].order.key
Steps(w) == Chain[job[w].order.kind]
Over(w) == job[w].step > Len(Steps(w))
At(w, name) == Active(w) /\ ~Over(w) /\ Steps(w)[job[w].step] = name
Working(k) == {w \in Workers : Active(w) /\ Key(w) = k}

Pem == {"none", "torn", "whole"}
File == Contents \cup {"none", "torn"}

TypeOK ==
    /\ fullchain \in [Domains -> Pem] /\ privkey \in [Domains -> Pem]
    /\ disk \in [Keys -> File] /\ live \in [Keys -> File]
    /\ siteBad \in BOOLEAN
    /\ job \in [Workers -> Job \cup {Idle}]
    /\ done \subseteq Orders
    /\ promise \in [Keys -> Contents \cup {"none", "rejected", "unknown"}]
    /\ faults \in 0..MaxFaults

Init ==
    /\ fullchain = [d \in Domains |-> "none"]
    /\ privkey = [d \in Domains |-> "none"]
    /\ disk = [k \in Keys |-> "none"] /\ live = [k \in Keys |-> "none"]
    /\ siteBad = FALSE
    /\ job = [w \in Workers |-> Idle] /\ done = {}
    /\ promise = [k \in Keys |-> "unknown"]
    /\ faults = 0

-----------------------------------------------------------------------------
(* Starting, advancing and ending a job.                                   *)

Start(w, o) ==
    LET others == Working(o.key) \ {w} IN
    /\ ~Active(w) /\ o \notin done
    /\ \A x \in Workers : Active(x) => job[x].order # o
    /\ job' = [x \in Workers |->
                  IF x = w THEN [order |-> o, step |-> 1, alone |-> others = {}]
                  ELSE IF x \in others THEN [job[x] EXCEPT !.alone = FALSE]
                  ELSE job[x]]
    /\ promise' = [k \in Keys |-> IF k = o.key THEN "unknown" ELSE promise[k]]
    /\ UNCHANGED <<certVars, nginxVars, done, faults>>

Advance(w) ==
    /\ job' = [job EXCEPT ![w].step = @ + 1]
    /\ UNCHANGED <<done, promise, faults>>

\* Nobody else has worked on the file while the job did.
Promised(w, what) ==
    promise' = [k \in Keys |->
                   IF k = Key(w) /\ job[w].alone THEN what ELSE promise[k]]

Outcome(o) == IF o.kind = "delete" THEN "none" ELSE o.content

\* DONE is reported.
Finish(w) ==
    /\ Active(w) /\ Over(w)
    /\ job' = [job EXCEPT ![w] = Idle]
    /\ done' = done \cup {job[w].order}
    /\ Promised(w, Outcome(job[w].order))
    /\ UNCHANGED <<certVars, nginxVars, faults>>

-----------------------------------------------------------------------------
(* Nginx. The test and the reload read all files and the certificates they *)
(* name. A file that is half written is accepted or rejected, by where it  *)
(* ends; a certificate without its key never is accepted.                  *)

PairWhole(d) == fullchain[d] = "whole" /\ privkey[d] = "whole"
Torn(k) == disk[k] = "torn"
Bad(k) == k \in Domains /\ disk[k] \in Contents /\ ~PairWhole(k)

MayAccept == ~siteBad /\ \A k \in Keys : ~Bad(k)
MayReject == siteBad \/ \E k \in Keys : Bad(k) \/ Torn(k)

\* Certificates of live vhosts are left out of what is loaded: they are
\* written once.
TestAccepts(w) ==
    /\ At(w, "test") /\ MayAccept /\ Advance(w)
    /\ UNCHANGED <<certVars, nginxVars>>

KeptAfterRejection(k) == disk[k]                            \* defective variant
EmptiedAfterRejection(k) == "empty"                         \* defective variant
AfterRejection(k) == "none"

\* WriteEdgeVhost removes what it has written, FAILED is reported.
TestRejects(w) ==
    /\ At(w, "test") /\ MayReject
    /\ disk' = [disk EXCEPT ![Key(w)] = AfterRejection(Key(w))]
    /\ job' = [job EXCEPT ![w] = Idle]
    /\ Promised(w, "rejected")
    /\ UNCHANGED <<certVars, live, siteBad, done, faults>>

Reload(w) ==
    /\ At(w, "reload") \/ At(w, "try reload")
    /\ MayAccept /\ Advance(w)
    /\ live' = disk
    /\ UNCHANGED <<certVars, disk, siteBad>>

ReloadFails(w) ==
    /\ At(w, "reload") /\ MayReject
    /\ job' = [job EXCEPT ![w] = Idle]
    /\ UNCHANGED <<certVars, nginxVars, done, promise, faults>>

\* handleIssueCertificate logs the error and reports DONE.
ReloadOverlooked(w) ==
    /\ At(w, "try reload") /\ MayReject /\ Advance(w)
    /\ UNCHANGED <<certVars, nginxVars>>

-----------------------------------------------------------------------------
(* handleCreateEdgeVhost and handleDeleteEdgeVhost.                        *)

CertificateMissing(d) == fullchain[d] = "none"

\* The presence test looks at the chain only.
CertificateFound(w) ==
    /\ At(w, "certificate") /\ ~CertificateMissing(Key(w))
    /\ job' = [job EXCEPT ![w].step = @ + 3]
    /\ UNCHANGED <<certVars, nginxVars, done, promise, faults>>

FetchCertificate(w) ==
    /\ At(w, "certificate") /\ CertificateMissing(Key(w))
    /\ Advance(w)
    /\ UNCHANGED <<certVars, nginxVars>>

WriteFullchain(w) ==
    /\ At(w, "fullchain") /\ Advance(w)
    /\ fullchain' = [fullchain EXCEPT ![Key(w)] = "whole"]
    /\ UNCHANGED <<privkey, nginxVars>>

WritePrivkey(w) ==
    /\ At(w, "privkey") /\ Advance(w)
    /\ privkey' = [privkey EXCEPT ![Key(w)] = "whole"]
    /\ UNCHANGED <<fullchain, nginxVars>>

\* The file is truncated where it is, then written.
OpenFile(w) ==
    /\ At(w, "open") /\ Advance(w)
    /\ disk' = [disk EXCEPT ![Key(w)] = "torn"]
    /\ UNCHANGED <<certVars, live, siteBad>>

FillFile(w) ==
    /\ At(w, "fill") /\ Advance(w)
    /\ disk' = [disk EXCEPT ![Key(w)] = job[w].order.content]
    /\ UNCHANGED <<certVars, live, siteBad>>

MustExist(k) == disk[k] # "none"                            \* defective variant
Removable(k) == disk[k] \in File

RemoveEdgeVhost(w) ==
    /\ At(w, "remove") /\ Removable(Key(w)) /\ Advance(w)
    /\ disk' = [disk EXCEPT ![Key(w)] = "none"]
    /\ UNCHANGED <<certVars, live, siteBad>>

-----------------------------------------------------------------------------
(* Accidents.                                                              *)

Accident == faults < MaxFaults /\ faults' = faults + 1

\* A step fails with no effect: the API does not answer, certbot fails, a
\* file cannot be opened, the report is lost.
StepFails(w) ==
    /\ Accident /\ Active(w)
    /\ job' = [job EXCEPT ![w] = Idle]
    /\ UNCHANGED <<certVars, nginxVars, done, promise>>

\* A write ends half way: the disk is full, the download breaks off.
WriteCutShort(w) ==
    /\ Accident
    /\ job' = [job EXCEPT ![w] = Idle]
    /\ \/ /\ At(w, "fullchain")
          /\ fullchain' = [fullchain EXCEPT ![Key(w)] = "torn"]
          /\ UNCHANGED <<privkey, disk>>
       \/ /\ At(w, "privkey")
          /\ privkey' = [privkey EXCEPT ![Key(w)] = "torn"]
          /\ UNCHANGED <<fullchain, disk>>
       \/ /\ At(w, "fill")
          /\ disk' = [disk EXCEPT ![Key(w)] = "torn"]
          /\ UNCHANGED certVars
    /\ UNCHANGED <<live, siteBad, done, promise>>

Crash ==
    /\ Accident /\ \E w \in Workers : Active(w)
    /\ job' = [w \in Workers |-> Idle]
    /\ UNCHANGED <<certVars, nginxVars, done, promise>>

\* What SiteLifecycle does to the same Nginx.
SiteRejected ==
    /\ Accident /\ ~siteBad /\ siteBad' = TRUE
    /\ UNCHANGED <<certVars, disk, live, job, done, promise>>

SiteRepaired ==
    /\ siteBad /\ siteBad' = FALSE
    /\ UNCHANGED <<certVars, disk, live, job, done, promise, faults>>

-----------------------------------------------------------------------------
JobStep(w) ==
    \/ TestAccepts(w) \/ TestRejects(w)
    \/ Reload(w) \/ ReloadFails(w) \/ ReloadOverlooked(w)
    \/ CertificateFound(w) \/ FetchCertificate(w) \/ WriteFullchain(w) \/ WritePrivkey(w)
    \/ OpenFile(w) \/ FillFile(w) \/ RemoveEdgeVhost(w)
    \/ Finish(w)

Next ==
    \/ \E w \in Workers, o \in Orders : Start(w, o)
    \/ \E w \in Workers : JobStep(w) \/ StepFails(w) \/ WriteCutShort(w)
    \/ Crash \/ SiteRejected \/ SiteRepaired

Spec == Init /\ [][Next]_vars

\* The only half written files are those of jobs that are writing them.
Settled == \A k \in Keys : Torn(k) => Working(k) # {}
Serves(w, o) == Active(w) /\ job[w].order = o

\* A goroutine goes on, an order is sent again until it is DONE, the vhost of
\* a site is repaired. Not every single test or reload of an order falls into
\* the moment in which another job has its file half written.
FairSpec ==
    /\ Spec
    /\ \A w \in Workers : WF_vars(JobStep(w))
    /\ WF_vars(SiteRepaired)
    /\ \A o \in Orders :
          /\ SF_vars(\E w \in Workers : Start(w, o))
          /\ o.kind = "create" =>
                SF_vars(\E w \in Workers : Serves(w, o) /\ Settled /\ TestAccepts(w))
          /\ o.kind # "issue" =>
                SF_vars(\E w \in Workers : Serves(w, o) /\ Settled /\ Reload(w))

-----------------------------------------------------------------------------
(* Properties.                                                             *)

\* What was reported DONE is what Nginx serves: an edge vhost with its origin,
\* a deleted one not at all, the rules that were synchronised. It stays so
\* whatever the jobs on other files do, and also when they fail half way.
DoneIsLoaded ==
    \A k \in Keys : promise[k] \in Contents \cup {"none"} => live[k] = promise[k]

\* An edge job that ended by itself, DONE or rejected, leaves no file that
\* makes Nginx reject the configuration of everybody else.
EdgeBlocksNobody ==
    \A d \in Domains : promise[d] # "unknown" => ~Bad(d) /\ ~Torn(d)

BrokenPair(d) == ~CertificateMissing(d) /\ ~PairWhole(d)

\* Whatever accidents leave behind, an order that is sent until it is DONE is
\* DONE in the end, with one exception: a certificate that was cut short between
\* its two files stays so, its vhost is never DONE and is in everybody's way.
OrdersConverge ==
    \A o \in Orders : <>[](o \in done \/ \E d \in Domains : BrokenPair(d))
=============================================================================
