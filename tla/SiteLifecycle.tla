---------------------------- MODULE SiteLifecycle ----------------------------
(***************************************************************************)
(* What the jobs of a PHP site do to the host: the system user, the        *)
(* document root, the PHP-FPM configuration, unit and service, the Nginx   *)
(* vhost, the slice, the database account and its credentials file.        *)
(*                                                                         *)
(* A job is a chain of steps. No chain rolls anything back: a step that    *)
(* fails leaves what the earlier ones did. Jobs of different sites, and    *)
(* retried jobs of one site, interleave step by step, and all of them      *)
(* share one Nginx, whose configuration is accepted or rejected whole.     *)
(***************************************************************************)
EXTENDS Integers, Sequences, FiniteSets

CONSTANTS
    Sites,
    Versions,      \* PHP versions
    Workers,       \* names for the goroutines that run jobs
    None,          \* no version: no unit file, no service
    Orders,        \* what the control plane wants done, each sent until DONE
    LongNames,     \* sites whose domain makes Nginx reject their vhost
    MaxFaults      \* bound: crashes and commands that fail by accident

RequestKinds == {"provision", "direct", "switch", "deprovision",
                 "directDeprovision", "suspend", "suspendUnnamed", "unsuspend"}

Order == [id : Nat, request : RequestKinds, site : Sites, version : Versions]

ASSUME SiteConstants ==
    /\ Orders \subseteq Order
    /\ LongNames \subseteq Sites
    /\ MaxFaults \in Nat
    /\ None \notin Versions

VARIABLES
    user,       \* the Linux user site_<id> exists
    docroot,    \* /var/www/site_<id> exists
    conf,       \* /etc/dnsfox/phpfpm/<id>.conf exists
    unit,       \* version named in dnsfox-phpfpm-<id>.service
    service,    \* version of the PHP-FPM that runs and owns the socket
    vhost,      \* conf.d-v2/dnsfox-<id>.conf
    suspended,  \* conf.d-v2/site_<id>_suspended.conf
    live,       \* the running Nginx serves the site's vhost
    slice,      \* dnsfox-site-<id>.slice exists
    account,    \* the site's MariaDB user exists
    creds,      \* .db_credentials: absent, or does its password open the account
    job,        \* what each goroutine is doing
    done,       \* the orders reported DONE
    promise,    \* what the last job of the site told the control plane
    faults      \* accidents so far

diskVars == <<user, docroot, conf, unit, slice>>
nginxVars == <<vhost, suspended, live>>
dbVars == <<account, creds>>
vars == <<diskVars, service, nginxVars, dbVars, job, done, promise, faults>>

-----------------------------------------------------------------------------
(* The chains of steps, in the order of the source.                        *)

ProvisionWithoutReload ==                                   \* defective variant
    <<"user", "docroot", "conf", "unit", "open vhost", "fill vhost", "test",
      "limits", "database", "credentials", "enable", "socket">>
ProvisionSite ==
    <<"user", "docroot", "conf", "unit", "open vhost", "fill vhost", "test",
      "limits", "database", "credentials", "enable", "socket", "reload">>
SwitchPHPVersion == <<"conf", "unit", "restart", "socket">>
DeprovisionSite ==
    <<"stop", "drop conf", "drop vhost", "try reload", "drop limits",
      "drop database", "drop user">>
DeprovisionNodeKeepsDatabase ==                             \* defective variant
    <<"drop vhost", "drop limits", "drop user", "try reload">>
DeprovisionNodeJS ==
    <<"drop vhost", "drop limits", "drop database", "drop user", "try reload">>

Chain == [
    provision |-> ProvisionSite, switch |-> SwitchPHPVersion,
    deprovision |-> DeprovisionSite, nodeDeprovision |-> DeprovisionNodeJS,
    suspend |-> <<"suspend", "reload">>, unsuspend |-> <<"unsuspend", "reload">> ]

Teardown == {"deprovision", "nodeDeprovision"}
Promises == {"unknown", "serving", "suspended", "gone"}
Idle == [chain |-> "idle"]
Password == {"none", "right", "wrong"}
Job == [chain : DOMAIN Chain, order : Orders, step : 1..14, pw : Password,
        was : Promises, clean : BOOLEAN]

Active(w) == job[w] # Idle
Site(w) == job[w].order.site
Working(s) == {w \in Workers : Active(w) /\ Site(w) = s}
Done(w) == job[w].step > Len(Chain[job[w].chain])
At(w, name) ==
    Active(w) /\ ~Done(w) /\ Chain[job[w].chain][job[w].step] = name

\* detectPHPVersion reads the unit file; a site with none is taken for a
\* Node.js site. Only the direct RPCs look before they act.
Detected(s) == unit[s]
Route(request, s, v) ==
    CASE request = "direct" ->
             IF Detected(s) \in {None, v} THEN "provision" ELSE "switch"
      [] request = "directDeprovision" ->
             IF Detected(s) = None THEN "nodeDeprovision" ELSE "deprovision"
      [] request = "suspendUnnamed" -> "suspend"
      [] OTHER -> request

-----------------------------------------------------------------------------
TypeOK ==
    /\ user \in [Sites -> BOOLEAN] /\ docroot \in [Sites -> BOOLEAN]
    /\ conf \in [Sites -> BOOLEAN] /\ slice \in [Sites -> BOOLEAN]
    /\ unit \in [Sites -> Versions \cup {None}]
    /\ service \in [Sites -> Versions \cup {None}]
    /\ vhost \in [Sites -> {"none", "torn", "good", "bad"}]
    /\ suspended \in [Sites -> {"none", "good", "bad"}]
    /\ live \in [Sites -> BOOLEAN]
    /\ account \in [Sites -> BOOLEAN] /\ creds \in [Sites -> Password]
    /\ done \subseteq Orders
    /\ job \in [Workers -> Job \cup {Idle}]
    /\ promise \in [Sites -> Promises]
    /\ faults \in 0..MaxFaults

Init ==
    /\ user = [s \in Sites |-> FALSE] /\ docroot = [s \in Sites |-> FALSE]
    /\ conf = [s \in Sites |-> FALSE] /\ slice = [s \in Sites |-> FALSE]
    /\ unit = [s \in Sites |-> None] /\ service = [s \in Sites |-> None]
    /\ vhost = [s \in Sites |-> "none"] /\ suspended = [s \in Sites |-> "none"]
    /\ live = [s \in Sites |-> FALSE]
    /\ account = [s \in Sites |-> FALSE] /\ creds = [s \in Sites |-> "none"]
    /\ done = {}
    /\ job = [w \in Workers |-> Idle]
    /\ promise = [s \in Sites |-> "unknown"]
    /\ faults = 0

-----------------------------------------------------------------------------
(* Starting, advancing and ending a job.                                   *)

\* The control plane does not tear a site down while another job of the site
\* is under way: nothing in the warden would stop it.
Admissible(chain, s) ==
    /\ chain \in Teardown => Working(s) = {}
    /\ \A w \in Working(s) : job[w].chain \notin Teardown

\* A job is clean as long as it is alone on its site and no error was dropped.
Start(w, o) ==
    LET s == o.site
        chain == Route(o.request, s, o.version)
        new == [chain |-> chain, order |-> o, step |-> 1, pw |-> "none",
                was |-> promise[s], clean |-> Working(s) = {}]
    IN
    /\ o \notin done /\ \A x \in Working(s) : job[x].order # o
    /\ ~Active(w) /\ Admissible(chain, s)
    /\ job' = [x \in Workers |->
                  IF x = w THEN new
                  ELSE IF x \in Working(s) THEN [job[x] EXCEPT !.clean = FALSE]
                  ELSE job[x]]
    /\ promise' = [promise EXCEPT ![s] = "unknown"]
    /\ UNCHANGED <<diskVars, service, nginxVars, dbVars, done, faults>>

Advance(w) ==
    /\ job' = [job EXCEPT ![w].step = @ + 1]
    /\ UNCHANGED <<done, promise, faults>>

Outcome(w) ==
    LET j == job[w] IN
    CASE j.clean /\ j.chain = "provision" -> "serving"
      [] j.clean /\ j.chain = "switch" -> j.was
      [] j.clean /\ j.chain = "suspend" -> "suspended"
      [] j.clean /\ j.chain \in Teardown -> "gone"
      [] OTHER -> "unknown"

\* DONE is reported.
Finish(w) ==
    /\ Active(w) /\ Done(w)
    /\ job' = [job EXCEPT ![w] = Idle]
    /\ done' = done \cup {job[w].order}
    /\ promise' = [promise EXCEPT ![Site(w)] = Outcome(w)]
    /\ UNCHANGED <<diskVars, service, nginxVars, dbVars, faults>>

\* nginx -t and the reload read every file of the directory. A file that is
\* half written at that moment is accepted or rejected, by where it ends.
BadFile(s) == vhost[s] = "bad" \/ suspended[s] = "bad"
NginxMayAccept == \A s \in Sites : ~BadFile(s)
NginxMayReject == \E s \in Sites : BadFile(s) \/ vhost[s] = "torn"

\* createSystemUser has nothing to do for a user that exists.
UserMustBeNew(s) == ~user[s]                                \* defective variant
UserAccepted(s) == user[s] \in BOOLEAN

Startable(s) == user[s] /\ conf[s] /\ unit[s] # None

\* What a step needs of the host, beside its own command.
CanRun(name, s) ==
    CASE name = "user" -> UserAccepted(s)
      [] name \in {"docroot", "conf"} -> user[s]
      [] name \in {"test", "reload"} -> NginxMayAccept
      [] name = "credentials" -> docroot[s]
      [] name = "enable" -> Startable(s)
      [] name = "socket" -> service[s] # None
      [] OTHER -> TRUE
MayRefuse(name, s) ==
    IF name \in {"test", "reload"} THEN NginxMayReject ELSE ~CanRun(name, s)

Tolerant == {"restart", "stop", "drop conf", "drop vhost", "try reload",
             "drop limits", "drop database", "drop user"}
Step(w) == Chain[job[w].chain][job[w].step]
Runs(w, name) == At(w, name) /\ CanRun(name, Site(w))

\* A step returns an error and the job is reported FAILED.
Refused(w) ==
    /\ Active(w) /\ ~Done(w)
    /\ Step(w) \notin Tolerant /\ MayRefuse(Step(w), Site(w))
    /\ job' = [job EXCEPT ![w] = Idle]
    /\ UNCHANGED <<diskVars, service, nginxVars, dbVars, done, promise, faults>>

Accident(w) ==
    /\ faults < MaxFaults
    /\ Active(w) /\ ~Done(w) /\ Step(w) \notin Tolerant
    /\ job' = [job EXCEPT ![w] = Idle]
    /\ faults' = faults + 1
    /\ UNCHANGED <<diskVars, service, nginxVars, dbVars, done, promise>>

\* ReportJobResult fails: the job has run, the order will be sent again.
ReportLost(w) ==
    /\ faults < MaxFaults /\ Active(w) /\ Done(w)
    /\ job' = [job EXCEPT ![w] = Idle]
    /\ faults' = faults + 1
    /\ UNCHANGED <<diskVars, service, nginxVars, dbVars, done, promise>>

\* The process dies with all its jobs; the services and the files stay.
Crash ==
    /\ faults < MaxFaults /\ \E w \in Workers : Active(w)
    /\ job' = [w \in Workers |-> Idle]
    /\ faults' = faults + 1
    /\ UNCHANGED <<diskVars, service, nginxVars, dbVars, done, promise>>

-----------------------------------------------------------------------------
(* The steps of ProvisionSite and SwitchPHPVersion.                        *)

CreateUser(w) ==
    /\ Runs(w, "user") /\ Advance(w)
    /\ user' = [user EXCEPT ![Site(w)] = TRUE]
    /\ UNCHANGED <<docroot, conf, unit, slice, service, nginxVars, dbVars>>

CreateDocumentRoot(w) ==
    /\ Runs(w, "docroot") /\ Advance(w)
    /\ docroot' = [docroot EXCEPT ![Site(w)] = TRUE]
    /\ UNCHANGED <<user, conf, unit, slice, service, nginxVars, dbVars>>

WriteSiteConfig(w) ==
    /\ Runs(w, "conf") /\ Advance(w)
    /\ conf' = [conf EXCEPT ![Site(w)] = TRUE]
    /\ UNCHANGED <<user, docroot, unit, slice, service, nginxVars, dbVars>>

WriteServiceUnit(w) ==
    /\ Runs(w, "unit") /\ Advance(w)
    /\ unit' = [unit EXCEPT ![Site(w)] = job[w].order.version]
    /\ UNCHANGED <<user, docroot, conf, slice, service, nginxVars, dbVars>>

\* os.Create truncates the file Nginx may be told to read, then the template
\* is written into it.
OpenVhost(w) ==
    /\ Runs(w, "open vhost") /\ Advance(w)
    /\ vhost' = [vhost EXCEPT ![Site(w)] = "torn"]
    /\ UNCHANGED <<diskVars, service, suspended, live, dbVars>>

FillVhost(w) ==
    /\ Runs(w, "fill vhost") /\ Advance(w)
    /\ vhost' = [vhost EXCEPT ![Site(w)] =
                    IF Site(w) \in LongNames THEN "bad" ELSE "good"]
    /\ UNCHANGED <<diskVars, service, suspended, live, dbVars>>

TestConfig(w) ==
    /\ Runs(w, "test") /\ Advance(w)
    /\ UNCHANGED <<diskVars, service, nginxVars, dbVars>>

ApplyLimits(w) ==
    /\ Runs(w, "limits") /\ Advance(w)
    /\ slice' = [slice EXCEPT ![Site(w)] = TRUE]
    /\ UNCHANGED <<user, docroot, conf, unit, service, nginxVars, dbVars>>

\* Every call generates a password nobody has. CREATE USER IF NOT EXISTS
\* gives it to a new account and leaves an old account its own.
PasswordMatches(s) == IF account[s] THEN "wrong" ELSE "right"

CreateSiteDatabase(w) ==
    /\ Runs(w, "database")
    /\ account' = [account EXCEPT ![Site(w)] = TRUE]
    /\ job' = [job EXCEPT ![w].step = @ + 1, ![w].pw = PasswordMatches(Site(w))]
    /\ UNCHANGED <<diskVars, service, nginxVars, creds, done, promise, faults>>

WriteCredentials(w) ==
    /\ Runs(w, "credentials") /\ Advance(w)
    /\ creds' = [creds EXCEPT ![Site(w)] = job[w].pw]
    /\ UNCHANGED <<diskVars, service, nginxVars, account>>

\* systemctl enable --now does nothing to a service that is running.
EnableService(w) ==
    /\ Runs(w, "enable") /\ Advance(w)
    /\ service' = [service EXCEPT ![Site(w)] =
                      IF @ = None THEN unit[Site(w)] ELSE @]
    /\ UNCHANGED <<diskVars, nginxVars, dbVars>>

WaitForSocket(w) ==
    /\ Runs(w, "socket") /\ Advance(w)
    /\ UNCHANGED <<diskVars, service, nginxVars, dbVars>>

\* The error of systemctl restart is ignored: the old process is stopped, the
\* new one starts or does not.
RestartService(w) ==
    /\ Runs(w, "restart") /\ Advance(w)
    /\ LET s == Site(w) IN
       service' = [service EXCEPT ![s] = IF Startable(s) THEN unit[s] ELSE None]
    /\ UNCHANGED <<diskVars, nginxVars, dbVars>>

RestartLeavesDown(w) ==
    /\ faults < MaxFaults /\ Runs(w, "restart")
    /\ service' = [service EXCEPT ![Site(w)] = None]
    /\ job' = [job EXCEPT ![w].step = @ + 1] /\ faults' = faults + 1
    /\ UNCHANGED <<diskVars, nginxVars, dbVars, done, promise>>

Loaded == [s \in Sites |-> vhost[s] = "good"]

ReloadNginx(w) ==
    /\ Runs(w, "reload") /\ Advance(w)
    /\ live' = Loaded
    /\ UNCHANGED <<diskVars, service, vhost, suspended, dbVars>>

-----------------------------------------------------------------------------
(* The steps of DeprovisionSite and DeprovisionNodeJS. An error is dropped *)
(* and the next step follows; the job keeps a note that it was not clean.  *)

Noted(w) == job' = [job EXCEPT ![w].step = @ + 1, ![w].clean = FALSE]

\* A command of a tolerant step that fails by accident, with no effect.
Overlooked(w) ==
    /\ faults < MaxFaults
    /\ Active(w) /\ ~Done(w) /\ Step(w) \in Tolerant \ {"restart"}
    /\ Noted(w) /\ faults' = faults + 1
    /\ UNCHANGED <<diskVars, service, nginxVars, dbVars, done, promise>>

RemoveServiceUnit(w) ==
    /\ Runs(w, "stop") /\ Advance(w)
    /\ service' = [service EXCEPT ![Site(w)] = None]
    /\ unit' = [unit EXCEPT ![Site(w)] = None]
    /\ UNCHANGED <<user, docroot, conf, slice, nginxVars, dbVars>>

\* systemctl disable --now fails, the unit file is removed nevertheless.
OrphanService(w) ==
    /\ faults < MaxFaults /\ Runs(w, "stop")
    /\ unit' = [unit EXCEPT ![Site(w)] = None]
    /\ Noted(w) /\ faults' = faults + 1
    /\ UNCHANGED <<user, docroot, conf, slice, service, nginxVars, dbVars, done, promise>>

RemoveSiteConfig(w) ==
    /\ Runs(w, "drop conf") /\ Advance(w)
    /\ conf' = [conf EXCEPT ![Site(w)] = FALSE]
    /\ UNCHANGED <<user, docroot, unit, slice, service, nginxVars, dbVars>>

VhostDisabled == "disabled"                                 \* defective variant
VhostRemoved == "none"

RemoveVhost(w) ==
    /\ Runs(w, "drop vhost") /\ Advance(w)
    /\ vhost' = [vhost EXCEPT ![Site(w)] = VhostRemoved]
    /\ UNCHANGED <<diskVars, service, suspended, live, dbVars>>

TryReload(w) ==
    /\ Runs(w, "try reload") /\ NginxMayAccept /\ Advance(w)
    /\ live' = Loaded
    /\ UNCHANGED <<diskVars, service, vhost, suspended, dbVars>>

ReloadRejected(w) ==
    /\ Runs(w, "try reload") /\ NginxMayReject
    /\ Noted(w)
    /\ UNCHANGED <<diskVars, service, nginxVars, dbVars, done, promise, faults>>

\* Stopping a slice stops what runs in it (the unit's Slice= line).
RemoveLimits(w) ==
    /\ Runs(w, "drop limits") /\ Advance(w)
    /\ slice' = [slice EXCEPT ![Site(w)] = FALSE]
    /\ service' = [service EXCEPT ![Site(w)] = None]
    /\ UNCHANGED <<user, docroot, conf, unit, nginxVars, dbVars>>

DropSiteDatabase(w) ==
    /\ Runs(w, "drop database") /\ Advance(w)
    /\ account' = [account EXCEPT ![Site(w)] = FALSE]
    /\ creds' = [creds EXCEPT ![Site(w)] = IF @ = "none" THEN @ ELSE "wrong"]
    /\ UNCHANGED <<diskVars, service, nginxVars>>

\* userdel refuses while a process of the user runs. It does not touch
\* /var/www: useradd was given no home directory.
RemoveSystemUser(w) ==
    /\ Runs(w, "drop user") /\ service[Site(w)] = None /\ Advance(w)
    /\ user' = [user EXCEPT ![Site(w)] = FALSE]
    /\ UNCHANGED <<docroot, conf, unit, slice, service, nginxVars, dbVars>>

UserBusy(w) ==
    /\ Runs(w, "drop user") /\ service[Site(w)] # None
    /\ Noted(w)
    /\ UNCHANGED <<diskVars, service, nginxVars, dbVars, done, promise, faults>>

-----------------------------------------------------------------------------
(* Suspending. The handlers look for site_<id>.conf, a name no provisioner *)
(* writes: the vhost is not found, so it is neither renamed nor read, and  *)
(* with no domain in the payload server_name is left without an argument.  *)

SuspendedPage(request) == IF request = "suspendUnnamed" THEN "bad" ELSE "good"

WriteSuspended(w) ==
    /\ Runs(w, "suspend") /\ Advance(w)
    /\ suspended' = [suspended EXCEPT ![Site(w)] = SuspendedPage(job[w].order.request)]
    /\ UNCHANGED <<diskVars, service, vhost, live, dbVars>>

RemoveSuspended(w) ==
    /\ Runs(w, "unsuspend") /\ Advance(w)
    /\ suspended' = [suspended EXCEPT ![Site(w)] = "none"]
    /\ UNCHANGED <<diskVars, service, vhost, live, dbVars>>

-----------------------------------------------------------------------------
ProvisionStep(w) ==
    \/ CreateUser(w) \/ CreateDocumentRoot(w) \/ WriteSiteConfig(w)
    \/ WriteServiceUnit(w) \/ OpenVhost(w) \/ FillVhost(w) \/ TestConfig(w)
    \/ ApplyLimits(w) \/ CreateSiteDatabase(w) \/ WriteCredentials(w)
    \/ EnableService(w) \/ WaitForSocket(w) \/ RestartService(w) \/ ReloadNginx(w)

TeardownStep(w) ==
    \/ RemoveServiceUnit(w) \/ RemoveSiteConfig(w) \/ RemoveVhost(w)
    \/ TryReload(w) \/ ReloadRejected(w) \/ RemoveLimits(w)
    \/ DropSiteDatabase(w) \/ RemoveSystemUser(w) \/ UserBusy(w)

Fault(w) ==
    \/ Accident(w) \/ RestartLeavesDown(w) \/ Overlooked(w)
    \/ OrphanService(w) \/ ReportLost(w)

JobStep(w) ==
    \/ ProvisionStep(w) \/ TeardownStep(w)
    \/ WriteSuspended(w) \/ RemoveSuspended(w) \/ Refused(w) \/ Finish(w)

Next ==
    \/ \E w \in Workers, o \in Orders : Start(w, o)
    \/ \E w \in Workers : JobStep(w) \/ Fault(w)
    \/ Crash

Spec == Init /\ [][Next]_vars

\* A goroutine goes on. The control plane sends an order again as long as it
\* gets no DONE. A vhost that is half written is not caught so at every single
\* test, nor at every single reload.
FairSpec ==
    /\ Spec
    /\ \A w \in Workers : WF_vars(JobStep(w))
    /\ \A o \in Orders : WF_vars(\E w \in Workers : Start(w, o))
    /\ SF_vars(\E w \in Workers : TestConfig(w))
    /\ SF_vars(\E w \in Workers : ReloadNginx(w))

-----------------------------------------------------------------------------
(* Properties.                                                             *)

Serving(s) ==
    /\ user[s] /\ docroot[s] /\ conf[s] /\ slice[s]
    /\ unit[s] # None /\ service[s] # None
    /\ vhost[s] = "good" /\ live[s]
    /\ account[s] /\ creds[s] # "none"

\* A site whose last job was a provisioning reported DONE (or a version switch
\* of such a site) is served, and stays so whatever the jobs of other sites
\* do, fail at, or leave behind when the process dies.
ProvisionedIsServed == \A s \in Sites : promise[s] = "serving" => Serving(s)

Gone(s) ==
    /\ ~user[s] /\ ~slice[s] /\ ~live[s]
    /\ unit[s] = None /\ service[s] = None
    /\ vhost[s] = "none" /\ ~account[s]

\* A teardown none of whose commands failed leaves nothing that serves the
\* site, also when it resumes one a crash cut short and is then routed as if
\* the site were a Node.js site.
CleanTeardownIsGone == \A s \in Sites : promise[s] = "gone" => Gone(s)

\* Whatever crashes, failed steps and other jobs of the site leave behind, an
\* order that is sent until it is DONE is DONE in the end.
RetriesConverge == \A o \in Orders : <>(o \in done)

\* mariadb.go: "Credentials are written to /var/www/<username>/.db_credentials".
\* The password in the file of a provisioned site is that of its account.
CredentialsWork == \A s \in Sites : promise[s] = "serving" => creds[s] = "right"
==============================================================================
