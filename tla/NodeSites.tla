----------------------------- MODULE NodeSites ------------------------------
(***************************************************************************)
(* Node.js sites: each is a systemd service of its own that listens on a   *)
(* port of the host, behind an Nginx vhost that forwards to that port. The *)
(* port is chosen once per provisioning and written to two places, .env    *)
(* (read by the process whenever it starts) and the vhost (read by Nginx   *)
(* whenever anybody reloads it); nothing else remembers it. The variables  *)
(* a customer sets come after it in .env, and a PORT among them wins.      *)
(*                                                                         *)
(* A job is a chain of steps that rolls nothing back, as in SiteLifecycle. *)
(***************************************************************************)
EXTENDS Integers, Sequences, FiniteSetsExt

CONSTANTS
    Sites,
    GitSites,      \* sites whose files come from a git repository
    Ports,         \* the range allocatePort searches
    Workers,       \* names for the goroutines that run jobs
    Orders,        \* what the control plane wants done, each sent until DONE
    MaxFaults      \* bound: crashes, failed steps, processes that die

\* own is the PORT among the customer's variables in the payload, 0 without.
Order == [id : Nat, request : {"provision", "deprovision"}, site : Sites, own : Nat]
OwnPorts(s) == {o.own : o \in {o \in Orders : o.site = s}}
Numbers == Ports \cup {o.own : o \in Orders} \cup {0}

\* A host has more ports in the range than sites.
ASSUME NodeConstants ==
    /\ GitSites \subseteq Sites
    /\ Orders \subseteq Order
    /\ MaxFaults \in Nat
    /\ Ports \subseteq Nat \ {0} /\ Cardinality(Ports) > Cardinality(Sites)

VARIABLES
    has,        \* what exists on the host for the site
    env,        \* PORT in /var/www/site_<id>/.env, 0 without the file
    vhost,      \* port in conf.d-v2/dnsfox-<id>.conf, 0 without one in it
    live,       \* port the running Nginx forwards the site's domain to
    up,         \* systemd keeps the service running
    listens,    \* port the site's process has bound, 0 while it has none
    job,        \* what each goroutine is doing
    done,       \* the orders reported DONE
    twice,      \* ports given out while assigned to a site that had not bound them
    promise,    \* what the last job of the site told the control plane
    faults      \* accidents so far

nginxVars == <<vhost, live>>
processVars == <<up, listens>>
hostVars == <<has, env, nginxVars, processVars>>
vars == <<hostVars, job, done, twice, promise, faults>>

-----------------------------------------------------------------------------
(* The chains of steps, in the order of the source.                        *)

Resources == {"user", "docroot", "slice", "account", "files", "unit"}

ProvisionWithoutReload ==                                   \* defective variant
    <<"user", "docroot", "slice", "account", "port", "env", "clone", "build",
      "unit", "open vhost", "fill vhost", "test", "enable">>
ProvisionNodeJS ==
    <<"user", "docroot", "slice", "account", "port", "env", "clone", "build",
      "unit", "open vhost", "fill vhost", "test", "enable", "reload">>
ReloadBeforeRemoval ==                                      \* defective variant
    <<"disable", "drop unit", "try reload", "drop vhost", "drop slice",
      "drop account", "drop user">>
DeprovisionNodeJS ==
    <<"disable", "drop unit", "drop vhost", "drop slice",
      "drop account", "drop user", "try reload">>

Chain == [o \in Orders |->
    IF o.request = "provision" THEN ProvisionNodeJS ELSE DeprovisionNodeJS]

\* "wired": its process was started on the port its vhost has; "stale": the
\* process was running before, on whatever port it has; "diverted": its .env
\* has the customer's PORT, whatever port its vhost has.
Promises == {"unknown", "wired", "stale", "diverted", "gone"}
Idle == [step |-> 0]
Job == [order : Orders, step : 1..15, port : Ports \cup {0},
        clean : BOOLEAN, found : BOOLEAN]

Active(w) == job[w] # Idle
Site(w) == job[w].order.site
Working(s) == {w \in Workers : Active(w) /\ Site(w) = s}
Done(w) == job[w].step > Len(Chain[job[w].order])
Step(w) == Chain[job[w].order][job[w].step]
At(w, name) == Active(w) /\ ~Done(w) /\ Step(w) = name

TypeOK ==
    /\ has \in [Sites -> SUBSET Resources]
    /\ env \in [Sites -> Numbers]
    /\ vhost \in [Sites -> Ports \cup {0}]
    /\ live \in [Sites -> Ports \cup {0}]
    /\ up \in [Sites -> BOOLEAN]
    /\ listens \in [Sites -> Numbers]
    /\ job \in [Workers -> Job \cup {Idle}]
    /\ done \subseteq Orders /\ twice \subseteq Ports
    /\ promise \in [Sites -> Promises]
    /\ faults \in 0..MaxFaults

Init ==
    /\ has = [s \in Sites |-> {}]
    /\ env = [s \in Sites |-> 0]
    /\ vhost = [s \in Sites |-> 0] /\ live = [s \in Sites |-> 0]
    /\ up = [s \in Sites |-> FALSE] /\ listens = [s \in Sites |-> 0]
    /\ job = [w \in Workers |-> Idle]
    /\ done = {} /\ twice = {}
    /\ promise = [s \in Sites |-> "unknown"]
    /\ faults = 0

-----------------------------------------------------------------------------
(* Starting, advancing and ending a job.                                   *)

\* The control plane does not tear a site down while another job of the site
\* is under way: nothing in the warden would stop it.
Admissible(o) ==
    /\ o.request = "deprovision" => Working(o.site) = {}
    /\ \A w \in Working(o.site) : job[w].order.request = "provision"

\* A job is clean as long as it is alone on its site and no error was dropped.
Start(w, o) ==
    LET new == [order |-> o, step |-> 1, port |-> 0,
                clean |-> Working(o.site) = {}, found |-> FALSE]
    IN
    /\ o \notin done /\ \A x \in Workers : Active(x) => job[x].order # o
    /\ ~Active(w) /\ Admissible(o)
    /\ job' = [x \in Workers |->
                  IF x = w THEN new
                  ELSE IF x \in Working(o.site) THEN [job[x] EXCEPT !.clean = FALSE]
                  ELSE job[x]]
    /\ promise' = [promise EXCEPT ![o.site] = "unknown"]
    /\ UNCHANGED <<hostVars, done, twice, faults>>

Advance(w) ==
    /\ job' = [job EXCEPT ![w].step = @ + 1]
    /\ UNCHANGED <<done, twice, promise, faults>>

Outcome(w) ==
    IF ~job[w].clean THEN "unknown"
    ELSE IF job[w].order.request = "deprovision" THEN "gone"
    ELSE IF job[w].order.own # 0 THEN "diverted"
    ELSE IF job[w].found THEN "stale" ELSE "wired"

\* DONE is reported.
Finish(w) ==
    /\ Active(w) /\ Done(w)
    /\ job' = [job EXCEPT ![w] = Idle]
    /\ done' = done \cup {job[w].order}
    /\ promise' = [promise EXCEPT ![Site(w)] = Outcome(w)]
    /\ UNCHANGED <<hostVars, twice, faults>>

\* git clones into an empty directory only: files of an earlier attempt are
\* in the way for ever. (Everything else is made again, or kept.)
Refused(w) ==
    /\ At(w, "clone") /\ Site(w) \in GitSites /\ "files" \in has[Site(w)]
    /\ job' = [job EXCEPT ![w] = Idle]
    /\ UNCHANGED <<hostVars, done, twice, promise, faults>>

\* A step fails and the job is FAILED, or its report is lost; enable --now
\* and the commands of a teardown cannot fail the job.
Tolerant == {"enable"} \cup {DeprovisionNodeJS[i] : i \in DOMAIN DeprovisionNodeJS}
Accident(w) ==
    /\ faults < MaxFaults
    /\ Active(w) /\ \A name \in Tolerant : ~At(w, name)
    /\ job' = [job EXCEPT ![w] = Idle]
    /\ faults' = faults + 1
    /\ UNCHANGED <<hostVars, done, twice, promise>>

\* The error of a command is dropped: the chain goes on without its effect.
Overlooked(w) ==
    /\ faults < MaxFaults
    /\ Active(w) /\ ~Done(w) /\ Step(w) \in Tolerant
    /\ job' = [job EXCEPT ![w].step = @ + 1, ![w].clean = FALSE]
    /\ faults' = faults + 1
    /\ UNCHANGED <<hostVars, done, twice, promise>>

\* The warden dies with all its jobs; the services and the files stay.
Crash ==
    /\ faults < MaxFaults /\ \E w \in Workers : Active(w)
    /\ job' = [w \in Workers |-> Idle]
    /\ faults' = faults + 1
    /\ UNCHANGED <<hostVars, done, twice, promise>>

-----------------------------------------------------------------------------
(* The steps of ProvisionNodeJS.                                           *)

\* useradd, mkdir, the slice, the account, git clone, and the unit file are
\* made, or found made.
Makes(w, step, resource) ==
    /\ At(w, step) /\ Advance(w)
    /\ has' = [has EXCEPT ![Site(w)] = @ \cup {resource}]
    /\ UNCHANGED <<env, nginxVars, processVars>>

UserMustBeNew(w) ==                                         \* defective variant
    Makes(w, "user", "user") /\ "user" \notin has[Site(w)]
CreateSystemUser(w) == Makes(w, "user", "user")
CreateDocumentRoot(w) == Makes(w, "docroot", "docroot")
ApplyLimits(w) == Makes(w, "slice", "slice")
CreateSiteDatabase(w) == Makes(w, "account", "account")
CloneRepo(w) ==
    Makes(w, "clone", "files") /\ Site(w) \in GitSites /\ "files" \notin has[Site(w)]
WriteSystemdUnit(w) == Makes(w, "unit", "unit")

\* Where the port of a site is written, or about to be.
Given(s) == {vhost[s], live[s]} \cup {job[x].port : x \in Working(s)}
Assigned(s) == {env[s]} \cup Given(s)

\* The lowest port of the range that can be bound is bound and given back.
AnyPort == Ports                                            \* defective variant
FreePorts == Ports \ {listens[s] : s \in Sites}
AllocatePort(w) ==
    /\ At(w, "port") /\ FreePorts # {}
    /\ job' = [job EXCEPT ![w].step = @ + 1, ![w].port = Min(FreePorts)]
    /\ twice' = IF \E s \in Sites \ {Site(w)} :
                      Min(FreePorts) \in Assigned(s) /\ listens[s] # Min(FreePorts)
                THEN twice \cup {Min(FreePorts)} ELSE twice
    /\ UNCHANGED <<hostVars, done, promise, faults>>

PortBelow(w) == job[w].port - 1                             \* defective variant
KeepEnvFile(w) == IF env[Site(w)] = 0 THEN job[w].port ELSE env[Site(w)] \* defective variant
\* systemd takes the last PORT of the file, which is the customer's.
PortWritten(w) == IF job[w].order.own = 0 THEN job[w].port ELSE job[w].order.own
WriteEnvFile(w) ==
    /\ At(w, "env") /\ Advance(w)
    /\ env' = [env EXCEPT ![Site(w)] = PortWritten(w)]
    /\ UNCHANGED <<has, nginxVars, processVars>>

NoRepo(w) ==
    /\ At(w, "clone") /\ Site(w) \notin GitSites /\ Advance(w)
    /\ UNCHANGED hostVars

\* npm install and the build command run as the site's user.
Build(w) ==
    /\ At(w, "build") /\ Advance(w)
    /\ UNCHANGED hostVars

\* WriteProxyVhost truncates the file, writes it and tests the configuration;
\* when the test fails the file stays. (Half of a file is SiteLifecycle's.)
OpenProxyVhost(w) ==
    /\ At(w, "open vhost") /\ Advance(w)
    /\ vhost' = [vhost EXCEPT ![Site(w)] = 0]
    /\ UNCHANGED <<has, env, live, processVars>>

FillProxyVhost(w) ==
    /\ At(w, "fill vhost") /\ Advance(w)
    /\ vhost' = [vhost EXCEPT ![Site(w)] = job[w].port]
    /\ UNCHANGED <<has, env, live, processVars>>

TestConfig(w) ==
    /\ At(w, "test") /\ Advance(w)
    /\ UNCHANGED hostVars

\* daemon-reload and enable --now: a service that runs already is left alone.
EnableService(w) ==
    /\ At(w, "enable")
    /\ job' = [job EXCEPT ![w].step = @ + 1, ![w].found = up[Site(w)]]
    /\ up' = [up EXCEPT ![Site(w)] = TRUE]
    /\ UNCHANGED <<has, env, nginxVars, listens, done, twice, promise, faults>>

\* A reload is for every site of the host.
ReloadNginx(w) ==
    /\ At(w, "reload") \/ At(w, "try reload")
    /\ Advance(w)
    /\ live' = vhost
    /\ UNCHANGED <<has, env, vhost, processVars>>

-----------------------------------------------------------------------------
(* The steps of DeprovisionNodeJS. It leaves /var/www/site_<id> behind.    *)

DisableService(w) ==
    /\ At(w, "disable") /\ Advance(w)
    /\ up' = [up EXCEPT ![Site(w)] = FALSE]
    /\ listens' = [listens EXCEPT ![Site(w)] = 0]
    /\ UNCHANGED <<has, env, nginxVars>>

Drops(w, step, resource) ==
    /\ At(w, step) /\ Advance(w)
    /\ has' = [has EXCEPT ![Site(w)] = @ \ {resource}]
    /\ UNCHANGED <<env, nginxVars, processVars>>

RemoveUnit(w) == Drops(w, "drop unit", "unit")
RemoveLimits(w) == Drops(w, "drop slice", "slice")
DropSiteDatabase(w) == Drops(w, "drop account", "account")

RemoveVhost(w) ==
    /\ At(w, "drop vhost") /\ Advance(w)
    /\ vhost' = [vhost EXCEPT ![Site(w)] = 0]
    /\ UNCHANGED <<has, env, live, processVars>>

\* userdel refuses while a process of the user runs.
RemoveSystemUser(w) == Drops(w, "drop user", "user") /\ ~up[Site(w)]
UserBusy(w) ==
    /\ At(w, "drop user") /\ up[Site(w)]
    /\ job' = [job EXCEPT ![w].step = @ + 1, ![w].clean = FALSE]
    /\ UNCHANGED <<hostVars, done, twice, promise, faults>>

-----------------------------------------------------------------------------
(* The site's own process, under Restart=always.                           *)

\* It reads .env when it starts, and exits and starts again, five seconds
\* later, as long as another process has its port.
Bind(s) ==
    /\ up[s] /\ listens[s] = 0 /\ env[s] # 0
    /\ \A t \in Sites : listens[t] # env[s]
    /\ listens' = [listens EXCEPT ![s] = env[s]]
    /\ UNCHANGED <<has, env, nginxVars, up, job, done, twice, promise, faults>>

ProcessDies(s) ==
    /\ faults < MaxFaults /\ listens[s] # 0
    /\ listens' = [listens EXCEPT ![s] = 0]
    /\ faults' = faults + 1
    /\ UNCHANGED <<has, env, nginxVars, up, job, done, twice, promise>>

-----------------------------------------------------------------------------
ProvisionStep(w) ==
    \/ CreateSystemUser(w) \/ CreateDocumentRoot(w) \/ ApplyLimits(w)
    \/ CreateSiteDatabase(w) \/ AllocatePort(w) \/ WriteEnvFile(w)
    \/ CloneRepo(w) \/ NoRepo(w) \/ Build(w) \/ WriteSystemdUnit(w)
    \/ OpenProxyVhost(w) \/ FillProxyVhost(w) \/ TestConfig(w)
    \/ EnableService(w) \/ ReloadNginx(w)

TeardownStep(w) ==
    \/ DisableService(w) \/ RemoveUnit(w) \/ RemoveVhost(w) \/ RemoveLimits(w)
    \/ DropSiteDatabase(w) \/ RemoveSystemUser(w) \/ UserBusy(w)

JobStep(w) == ProvisionStep(w) \/ TeardownStep(w) \/ Refused(w) \/ Finish(w)

Next ==
    \/ \E w \in Workers, o \in Orders : Start(w, o)
    \/ \E w \in Workers : JobStep(w) \/ Accident(w) \/ Overlooked(w)
    \/ Crash
    \/ \E s \in Sites : Bind(s) \/ ProcessDies(s)

Spec == Init /\ [][Next]_vars

\* Goroutines go on, orders are sent until they are DONE, and systemd starts
\* again a process that exits; the customer's program is taken to bind.
FairSpec ==
    /\ Spec
    /\ \A w \in Workers : WF_vars(JobStep(w))
    /\ \A o \in Orders : WF_vars(\E w \in Workers : Start(w, o))
    /\ \A s \in Sites : WF_vars(Bind(s))

-----------------------------------------------------------------------------
(* Properties.                                                             *)

\* A provisioning reported DONE, alone on its site, leaves the vhost and the
\* running Nginx with one port, and .env with the same one unless the customer
\* set PORT, whatever earlier attempts left and other sites do; if it also
\* started the process, that has the port of .env or none yet. (A process that
\* an earlier attempt started keeps its old port; a PORT of the customer's own
\* is what the program gets, and nothing tells Nginx.)
DoneIsWired ==
    \A s \in Sites : promise[s] \in {"wired", "stale", "diverted"} =>
        /\ vhost[s] # 0 /\ vhost[s] = live[s] /\ up[s]
        /\ {"user", "slice", "account", "unit"} \subseteq has[s]
        /\ promise[s] # "diverted" => env[s] = vhost[s]
        /\ promise[s] = "wired" => listens[s] \in {0, env[s]}

\* A teardown none of whose commands failed leaves nothing that runs or that
\* Nginx forwards to: the port can be given to another site.
TornDownIsGone ==
    \A s \in Sites : promise[s] = "gone" =>
        /\ ~up[s] /\ listens[s] = 0 /\ vhost[s] = 0 /\ live[s] = 0
        /\ has[s] \subseteq {"docroot", "files"}

\* An order of a site without a repository is DONE in the end, whatever its
\* failed attempts left and however the ports are taken meanwhile.
RetriesConverge ==
    \A o \in Orders : o.site \notin GitSites => <>(o \in done)

\* A site whose process a provisioning started, and whose customer left PORT
\* alone, is reached through its domain in the end, unless another site's
\* process has taken its port.
WiredIsServed ==
    \A s \in Sites :
        promise[s] = "wired" ~>
            \/ promise[s] # "wired"
            \/ listens[s] = live[s]
            \/ \E t \in Sites \ {s} : listens[t] = env[s]

\* Nginx forwards a domain to the program of another site only at a port that
\* was given out again while a site it was assigned to had not bound it (before
\* its process started, while it was down, or left over from a teardown), or
\* that the other site's customer set as its PORT.
OwnProgram ==
    \A s, t \in Sites :
        live[s] # 0 /\ t # s /\ listens[t] = live[s] =>
            live[s] \in twice \cup OwnPorts(t)
=============================================================================
