# Verification of warden

`warden` is the agent that runs on every hosting node. It beats to the control
plane (the v2 API), takes jobs from the answers and from RPCs, and turns them
into users, PHP-FPM services, Nginx vhosts, slices, databases and archives on
the node. This directory holds TLA+ modules translated from its Go source, the
TLC configurations that check them on small instances, and proofs for TLAPS.

Parse with `tlasany M.tla`, check with `tlc -config X.cfg M`, prove with
`tlapm M.tla`. `PROJECT.json` is the machine-readable index: components, runs,
the mutant that breaks each property, the source lines of each definition,
findings, hazards, theorems.

## 1. Inventory

### 1.1 Components

| Component (under `src/`) | State it keeps | Operations | What makes it correct |
|---|---|---|---|
| Job executor, `internal/jobs/executor.go` | `activeJobs` under a mutex, a semaphore of 4 | `ProcessJobs`, `executeJob`, `ActiveJobCount` | an id runs once at a time; the table and the semaphore count exactly; every queued job is reported |
| Job handlers, `internal/jobs/handlers*.go` | none of their own | 20 job types: provision, deprovision, suspend, switch PHP, cache purge, WAF, certificates, edge, clone, backup, scan | each one's effect on the node, below |
| Heartbeat, `internal/heartbeat` | last directive | `Run`, `sendHeartbeat` | a lost beat loses no job |
| Self-updater, `internal/updater` | the binary on disk | `CheckAndUpdate` | installs only when nothing is active; the newest version runs in the end |
| Tracker and report, `main.go` | results by id, evicted after an hour | `record`, `get`, `reportJobResultToAPI` | what is answered later is what was reported |
| Direct RPC executor, `internal/executor` | none: unbounded goroutines | provision, deprovision, migrate | routes by what is on the node; not counted by the updater |
| PHP site provisioner, `internal/provisioning`, `internal/phpfpm` | user, document root, FPM configuration, unit, service | `ProvisionSite`, `SwitchPHPVersion`, `DeprovisionSite` | DONE means served; a retry converges; a teardown leaves nothing |
| Nginx manager, `internal/nginx` | vhosts in `conf.d-v2`, the cache | `WriteVhost`, `RemoveVhost`, `WriteProxyVhost`, `WriteEdgeVhost`, `PurgeCache` | one configuration shared by all sites stays loadable |
| Slices, `internal/cgroups` | slice units | `ApplyLimits`, `RemoveLimits` | exist exactly for live sites |
| MariaDB, `internal/mariadb` | account, database, `.db_credentials` | `CreateSiteDatabase`, `DropSiteDatabase` | the file opens the account |
| Node.js sites, `internal/nodejs` | port, env file, unit | `ProvisionNodeJS`, `DeprovisionNodeJS` | distinct ports; the vhost proxies to the port the service listens on |
| File archives, `internal/archive` | registry under a mutex, temporary files | build, download, sweep, scrub | one download at most; no file outlives its entry for ever |
| CDN cache log, `internal/cdncache` | offset in the log | `collect`, `push` | each log line is counted once |
| Terminal sessions, `internal/pty` | session table, child process | `Start`, `Close`, two pumps, two timeouts | closed once, the child is reaped |
| Credentials, `internal/credsstore` | database and storage credentials | set by directives, read by managers | what a manager uses is what the last directive said |
| Migration, `internal/migration` | archives in `/tmp`, the target's tree | send, receive | a target is complete or reported failed |
| Clone, push, import, `internal/jobs/handlers_clone.go` | the directory and the database of a site | three handlers, each a chain of commands | a DONE copy is whole; a push reaches the site that is served |
| WordPress, `internal/wordpress` | wp-cli, the core files, `wp-config.php`, the tables | `ProvisionWordPress` | a retry completes what an earlier try left |
| Site usage, `internal/siteusage` | last CPU counter per site | `seedCPUSamples`, `report` | no CPU is reported that was not used |
| Backup and restore, `internal/backup` | objects in a bucket, the site's tree | backup, restore | a failed restore is reported |
| Malware scan, Redis flush, file manager, metrics, namespaces | none between calls | single commands | their own result |
| Scripts, `scripts/` | - | run once by hand | - |

### 1.2 How they interact

* The heartbeat goroutine calls the updater and then, in the same goroutine, the
  loop of `ProcessJobs` over the jobs of the response. Each job becomes a
  goroutine that waits for one of four slots, runs its handler, records the
  status in the tracker, reports it to the API (best effort), returns the slot
  and removes its id: in that order.
* The RPC server starts one goroutine per provisioning, deprovisioning or
  migration request. They share no table with the heartbeat's jobs, only the
  node.
* All jobs of all sites share one Nginx: `nginx -t` and the reload read the
  whole directory, so a file of one site can fail the job of another.
* systemd restarts the process: after a crash, an operator's stop or the
  updater's own `systemctl restart`. The server loop is never told to stop, so a
  stop always ends in SIGKILL. Nothing is persisted about jobs; the control
  plane keeps a job pending until it gets a result.

### 1.3 What is hard

Jobs delivered twice (a response composed before a report arrives; a report that
is lost); a count read before a two-minute download and used after it; a process
that dies between two steps of a chain that rolls nothing back; retries on top of
what is left; files truncated and rewritten in place while another job tests
them; errors dropped in teardowns; routing decided by files an earlier job left.
`PROJECT.json` lists them under `hazards`, each at its line.

## 2. Plan

| Order | Module | Subject | State |
|---|---|---|---|
| 1 | `JobService` | abstract: what the control plane is promised about jobs | done |
| 2 | `JobDispatch` | heartbeat, executor, tracker, updater, direct RPCs; implements `JobService` | done |
| 3 | `JobDispatchProofs` | three invariants and eight theorems, one of them the refinement | done |
| 4 | `SiteLifecycle` | what the jobs of PHP sites do to a node, step by step | done |
| 5 | `Archive` | the file manager's archives: builders, downloads, janitor, crashes | done |
| 6 | `ArchiveProofs` | inductive invariant and three theorems | done |
| 7 | `EdgeVhosts` | edge vhosts, certificates and WAF rules over one Nginx | done |
| 8 | `Migration` | the move of a site between two nodes | done |
| 9 | `MigrationProofs` | inductive invariant and three theorems | done |
| 10 | `NodeSites` | Node.js sites: port, env file, unit, process, proxy vhost | done |
| 11 | `Metering` | the cache log's offset and the CPU deltas, across rotations and restarts | done |
| 12 | `MeteringProofs` | no CPU is charged that was not used | done |
| 13 | `SiteContent` | what is in a WordPress site: installation, clone, push, import | done |
| 14 | `NodeSitesProofs` | inductive invariant and four theorems | done |
| 15 | `EdgeVhostsProofs` | inductive invariant and three theorems | done |
| 16 | `SiteLifecycleProofs` | inductive invariant and three theorems | done |
| 17 | `SiteContentProofs` | inductive invariant and two theorems | done |
| | `Backup` | a restore that fails half way | planned |
| | `PtySession` | two pumps, two timeouts, one close | planned |
| | `Credentials` | directives against managers built before them | planned |

Every invariant that a passing run checks is also a theorem. Abstract specifications
worth stating next: `SiteService` (a site is absent, serving or unknown) implemented by
`SiteLifecycle`.

## 3. JobDispatch

| Model | Code |
|---|---|
| `api`, `advertised` and the `Api...` actions | the control plane (external) |
| `hb`: idle, awaiting, answered, downloading, dispatching, stopped | the heartbeat goroutine, `Run` and `sendHeartbeat`, `CheckAndUpdate`, the loop of `ProcessJobs` |
| `inbox`, `directive` | the response in hand |
| `activeJobs`, `slots` | `Executor.activeJobs`, the tokens in `Executor.semaphore` |
| `gpc`, `gjob`, `gres` | the goroutine of each job: queued, running, finished, reporting, releasing, clearing |
| `tracker` | `jobTracker.get` of each id, RUNNING when there is no entry |
| `direct` | goroutines of the RPC executor |
| `installed`, `running`, `shutdown` | the binary, the process's version, a SIGTERM received |
| `restarts`, `reruns` | a bound, and a history of dispatches of reported jobs |

`ProcessJobs` runs over a slice; here the inbox is a set, taken in any order,
which includes the slice's. The test and the set of `activeJobs` are one action
because they are one critical section; the release of the slot and the removal
from the table are two, because they are two statements of the deferred function.
`InstallBinary` stays in the same beat: the result of `CheckAndUpdate` is ignored
and the jobs of the response are dispatched, restarted or not.

Runs:

* `dispatch_safety` - two handled jobs, one direct id, two goroutines, one slot,
  two versions, one crash or stop. Two jobs and one slot make one wait while the
  other runs; two goroutines are what a redelivered id needs to run twice; one
  restart is enough to lose every kind of state and start again from what the
  control plane knows. The only unbounded quantity, `reruns`, is bounded by the
  property itself.
* `dispatch_liveness` - a job with a handler and one of an unknown type, no direct
  ones, one slot, one crash or stop besides the self-update's own restart. Lost
  beats and lost reports are unbounded. With one slot the second job waits for the
  first, and a handler that never returns holds everything up: the run covers the
  handlers that return before, after and across the crash, and `EveryJobReported`
  and `EventuallyUpdated` name the ones that do not. `Evictable` is empty here: nothing
  the properties speak of reads the tracker.

Fairness (`FairSpec`). The Go scheduler runs runnable goroutines: WF of each
goroutine and of the heartbeat loop, except of a goroutine inside a handler
(`InHandler`). The heartbeat's jobs run under `context.Background()`
(`main.go:294`) and no handler is given a limit of time, so that nothing justifies
assuming that one returns; `SiteContent` has one that does not (section 10). A
network and a download that are not always down: SF of the answer, of the delivery
of a job's report, of the installation. systemd kills what does not stop: WF of
`KillAfterStop`. A process that crashes for ever converges to nothing: `MaxRestarts`
bounds the crashes, and they fall anywhere.

A handler that hangs has two consequences the code does nothing against, and both
are named exceptions of the properties: its job is never reported, and its id stays in
`activeJobs`, so that `updater.go:34` defers every self-update until somebody restarts
the warden by hand.

## 4. SiteLifecycle

Every job is a chain of named steps, `Chain`, in the order of the source; a
worker holds its chain, its position and the password it has generated. Each
step is an action that changes the part of the node the code changes. The names
in `TypeOK` correspond to files and services as commented there.

| Step | Code |
|---|---|
| user, docroot, conf, unit | `createSystemUser`, `createDocumentRoot`, `WriteSiteConfig`, `WriteServiceUnit` |
| open vhost, fill vhost, test | `WriteVhost`: `os.Create` truncates, the template is written, `nginx -t` |
| limits, database, credentials | `ApplyLimits`, `CreateSiteDatabase` |
| enable, socket, reload | `systemctl enable --now`, `waitForSocket`, `reloadNginx` |
| restart | `SwitchPHPVersion`'s restart, whose error is ignored |
| stop, drop ..., try reload | the steps of `DeprovisionSite` and `DeprovisionNodeJS`: an error is logged and the next one follows |
| suspend, unsuspend | the two handlers; they write a second file, and reload |

The legacy global pool files that the provisioner also removes, the workers
assigned to cores, and every template's text are left out. `Route` is
`detectPHPVersion` with the choice the RPC executor makes on it.

Assumptions about what is not in `src/`:

* `Admissible`: the control plane sends no teardown of a site while another job
  of that site is under way, nor the reverse. The warden does not enforce it:
  heartbeat jobs and direct RPCs of one site run side by side. Builds, switches
  and suspensions of one site do overlap in the model.
* Nginx accepts the directory when no complete file is bad and may reject it when
  one is bad or half written; both are open when a file is half written.
* `userdel` fails while a process of the user runs; stopping a slice stops what
  runs in it; a service starts when its user, configuration and unit exist.
* A report of a job may be lost (`ReportLost`): the order is sent again on top of a
  finished job.
* `promise` is a history variable: what the last job of a site that was alone on
  it and dropped no error told the control plane.

Runs:

* `site_safety` - one site provisioned and torn down by a direct RPC, beside one
  whose vhost Nginx rejects (its domain is too long) and that is suspended with
  no domain in the payload; two workers, two accidents or crashes. Two accidents
  are what it takes to cut a job and then its retry. The two workers are
  interchangeable (symmetry).
* `site_retries` - a provisioning order and a direct one that name different
  versions, so that the second is routed to a switch or to a full provisioning,
  beside an unsuspension; one accident at any step. Checks convergence.
* `site_credentials` - violation, see 12.

Deadlock is not checked in these runs: when every order is DONE the system stops.
Between them the two passing runs fire every action.

Fairness: a goroutine goes on (WF of `JobStep`); the control plane sends an order
again until it is DONE (WF of starting it); a file being rewritten is not caught
half written by every test and every reload for ever (SF of `TestConfig` and of
`ReloadNginx`): the writer finishes and each retry is a new chance.

`ProvisionedIsServed` relates one site's promise to eight parts of the node while
other jobs run, fail and reload; `CleanTeardownIsGone` holds although a teardown
cut short by a crash is routed as a Node.js site's when it is sent again:
what `DeprovisionNodeJS` does happens to cover what is left.

## 5. Archive

| Model | Code |
|---|---|
| `file`, `mtimeAge` | the file of a token in `ArchiveDir` and the age of its last write |
| `build` | where `buildArchive` is: writing, closed, done |
| `registry`, `entryAge` | `reg.entries`, and the age that `expiresAt` is computed from |
| `get`, `token`, `opened` | the goroutines of `DownloadHandler`; a history of openings |
| `sweep`, `expired`, `stray`, `names` | `sweep` of the janitor: the time it took at its beginning, what that time makes expired, what `ReadDir` returned |

The deferred removal of `DownloadHandler` is part of every end of a download
(`GetEnds`). The path walk and the two formats are data: what counts is that the
file is half written until the writer is closed. A crash empties the registry and
leaves the files. Time is a clock of ticks; an age stops growing one tick after
the last limit it is compared with, so the state space is finite with no bound on
time.

One assumption: `MaxStall <= MaxAge`, a build writes more often than archives
expire. A build that stalls for twice the expiry time has its file removed by the
scrub while it is written, and then registers a token for nothing.

`archive`: two tokens, two clients racing for them, one crash, an expiry of two
ticks, so that the stray limit (four) and the expiry differ by more than the
stall. `FairSpec` asks that the janitor runs, that time passes and that a build
ends; it asks nothing of the clients, which may stop reading for ever:
`NoFileForEver` holds because the scrub takes the file away under them.

## 6. EdgeVhosts

Every job is a chain of steps as in `SiteLifecycle`. A file is known by its key,
the domain of an edge vhost or `Rules`.

| Model | Code |
|---|---|
| `fullchain`, `privkey` | the two files `fetchAndInstallCert` writes, none, torn or whole |
| `disk`, `live` | the configuration files, and what of them the running Nginx has loaded |
| `siteBad` | a vhost of a site that Nginx rejects: what `SiteLifecycle` does to the same Nginx |
| certificate, fullchain, privkey | `handleCreateEdgeVhost`'s test, `fetchAndInstallCert` |
| open, fill, test | `WriteEdgeVhost`: truncate, render, `nginx -t`; a rejection removes the file |
| remove | `RemoveEdgeVhost`, which a missing file does not disturb |
| reload, try reload | `ReloadNginx`; `handleIssueCertificate` only logs its error |
| `StepFails`, `WriteCutShort`, `Crash` | an error return at any step, a write that ends half way, the death of the process |

A download or a `certbot` call changes nothing on the node when it fails and is
part of the step that follows it. Certificates are not part of what `live` holds:
they are written once. `promise` is a history: what the last job of a file, when
no other worked on the same file, has told the control plane.

`edge`: one domain ordered and deleted, the rules synchronised and a certificate
issued, two workers, one accident. One domain is enough for its rejection to hit
the rules and the other way round, and two workers for a test to meet another
job's half written file. `OrdersConverge` has an exception: it is stated as "DONE
in the end, or a certificate cut short", so the run also shows that this is the
only state retries do not leave (section 12).

Fairness: a goroutine goes on, an order is sent again until DONE, the vhost of a
site is repaired in the end. Strong fairness of a test and of a reload is asked
per order, in moments when no file is half written except by a job that is
writing it: not every retry meets another job in the middle of its write.

What the model shows and no property forbids: a rejected edge vhost is removed
with the good one it replaced (`promise` "rejected"), so when a vhost of a site is
bad, or the rules are half written, a renewed order takes a working domain off
at the next reload.

## 7. Migration

One site, moved by one or more requests; nothing in the code keeps two of them
apart.

| Model | Code |
|---|---|
| `pc`, `result` | the goroutine of `HandleMigrateSite` on the source: provision, create, pack, open, send, await, remove, report |
| `archive` | what is in `/tmp/migrate-<site>-files.tar.gz`, which a second request truncates or removes |
| `open`, `intact` | the file a goroutine has open (`unlinked`: removed under it), and that nobody has truncated it since: the hole of a truncation may or may not be filled by who writes on |
| `prov`, `site` | `runProvision` on the target, started by `HandleProvisionSite` and not waited for: user, directory with its recursive chown, the files it writes, the rest |
| `rcv`, `upload`, `left` | `ReceiveHandler`: it has parsed the whole form before it extracts, and goes on when the source is gone |
| `tree`, `owner` | the site's files on the target |
| `alone`, `promised` | history: no other request, nor what is left of one, has overlapped with this one; the last request was DONE and alone |

`Files` are the files of the site that do not change while it moves, in the order
`Place` in which the archive has them. `Links` are symbolic links and whatever
else is no regular file: `createTarGz` packs a header without a target, and
`extractTarGz` has a case for directories and one for regular files only. `Huge`
are those above the 4 GiB that its `LimitReader` lets through: they arrive as
`cut`. Neither is an error, and the move is DONE. `Shared` is
one of them that stands for `.env` and `.db_credentials`, which the target's
provisioning writes too: that write is one small `os.WriteFile` and one step.
There is no database: `packageSite` looks for a name with the hyphens of the site
id, which `mariadb.go` never gives to one, so the dump always fails, the failure
is logged and the files move alone. What a build leaves in the directory is left
out, and so is `detectPHPVersion`, which looks for pool files that are no longer
written and takes PHP sites for Node.js sites: both branches of `runProvision`
make the user and the directory in the same order.

`migration`: two requests; one file, the shared one, a link and a large one; one
accident on either node: a failed step, a crash, a connection that breaks before or after the target
has the form, a lost answer or report. Two requests are what it takes to truncate
or remove each other's files, or to work on what an earlier one left; the second
regular file makes a torn tree possible. The two requests are interchangeable (symmetry).
The run has 2.3 million states and is safety only: two requests that are sent
again for ever can truncate each other's files for ever, so nothing is promised
to arrive.

`MigratedIsWhole` excepts `Links` and `Huge`, which the code loses or cuts, and
`Shared`: whichever of the two writers is last, either the customer's variables
are lost or the port of the source is served on the target.
`MigratedIsOwned` relies on two chowns: the receiver's fails, unnoticed, when the
user does not exist yet, and then provisioning's is still to come. It is a
property of states in which provisioning is through: when it fails between the
user and the chown nothing is said.

Two more things the model shows and no property forbids: an archive whose packing
fails is never removed, and the target's provisioning reports DONE to the control
plane under the job id of the migration.

## 8. NodeSites

A job is a chain of steps as in `SiteLifecycle`, on a host with a range of ports.

| Model | Code |
|---|---|
| `has` | what was made for the site: user, directory, slice, account, files from git, unit |
| `env`, `vhost`, `live` | the port in `.env`, in `conf.d-v2/dnsfox-<id>.conf`, and in what Nginx has loaded |
| `up`, `listens` | the service under `Restart=always`, and the port its process has bound |
| `job[w].port` | the port `allocatePort` returned, in the hands of a goroutine until it is written twice |
| `found` | the service ran before `enable --now`, which then leaves it alone |
| `own` of an order | the PORT among the customer's variables in the payload, 0 without one |
| `Bind`, `ProcessDies` | external: the process reads `.env` when it starts |
| `twice` | history: ports given out while they were assigned to another site that had not bound them |
| `promise` | history: what the last job of a site that was alone and dropped no error told the control plane |

`allocatePort` binds the lowest free port, releases it and returns it: between that
and the start of the service, which may be a build of many minutes later, every
other provisioning is given the same port. `writeEnvFile` writes the customer's
variables after its own, `blockedEnvKeys` lets PORT pass, and systemd takes the last
assignment of an `EnvironmentFile`: a customer who sets PORT moves the program, not
the vhost (`PortWritten`). `OwnProgram` says that these two, with a process that is
down and a port a teardown left in a file, are the only ways for a domain to lead
to another site's program. `DoneIsWired` says that vhost and Nginx agree after a
DONE, and `.env` with them unless the customer set PORT ("diverted"); of the process it
speaks only when the job started it, because `enable --now` leaves one from an
earlier attempt on its old port ("stale"). `WiredIsServed` is about neither of the two.

`node`: one site without a repository is provisioned and torn down beside one with
whose customer has set PORT to a port of the range, three ports, two workers, one accident: a failed step, a dropped error, a crash, a
process that dies. Two sites are what it takes to be given one port; with three
ports both can also be served. `WriteProxyVhost` truncates, writes and tests: a test that
fails leaves the vhost, and a reload for another site in the middle loads none; that
half a file, or one Nginx rejects, blocks other sites is `SiteLifecycle`'s subject. Overlapping provisionings of one site do not happen
here (each site has one provisioning order, and `Admissible` keeps the teardown
apart); a cut one and its retry do. Both kinds of site share one chain: the step of the
clone is passed over by a site without a repository (`NoRepo`). `RetriesConverge` is about sites without a
repository: git refuses a directory that is not empty, so a site whose
provisioning stopped after its clone never becomes DONE. Fairness: goroutines go
on, orders are sent again, the program binds its port when it can.

Left out: sites of kind html, whose port is in the unit; what npm and the build do
(they may fail the job, in `Accident`). A teardown leaves `/var/www/site_<id>`:
`userdel -r` removes the home of an account that was made without one.

## 9. Metering

The cache collector and the usage reporter share nothing but the process, whose
restart both have to survive; they are one module because a restart hits both.

| Model | Code |
|---|---|
| `rotated`, `size` | the log as Nginx and logrotate make it: entries are numbered through |
| `offset`, `batch` | `Collector.offset`, in entries; what was read and is being pushed |
| `counted`, `read`, `turned`, `skipped` | history: what the API has counted, what was read, a rotation not yet looked at, and that a log had then outgrown the old offset |
| `active`, `usage`, `used` | a slice, its `usage_usec`, and a history of all its CPU |
| `sample`, `todo`, `phase`, `delta` | `prev.samples`, the sites of the round, the reporter's goroutine, the round's figures |
| `charged`, `misread` | history: what the API was told, and the sites whose counter could not be read while seeding |

A report carries a percentage, the delta over the time between two samples; the
model keeps the delta, which is what the percentage multiplied by the interval
gives back. Discovery and reading are apart, so a slice can stop or start again
between them. Memory and disk are read once for each report and are data; so are
domains and statuses of the log. The cgroup path is cached, but the cache is
confirmed on every use.

`metering`: four entries, one site, three units of CPU, two accidents. Two
accidents are what it takes to rotate twice, or to rotate and restart, or to
restart a slice and the warden; sites do not interact. `EveryEntryRead` names the
one case of a log that is not read although it is there: it was rotated and had
outgrown the old offset by the next tick, so the rotation is not noticed and its
beginning is skipped. `UsageNotOverstated` excepts misread sites: the seed drops the
error of a read and takes the counter for zero, and the first report charges the
whole life of the slice. What a failed push or report carried is lost; no property
forbids it. Fairness: the collector's ticker ticks.

## 10. SiteContent

A site is a directory and a database. Which database a site shows is written in its
directory (`wp-config.php`), and so is the account the warden opens it with
(`.db_credentials`): whoever copies the directory copies both.

| Model | Code |
|---|---|
| `wpcli` | `/usr/local/bin/wp`, shared by all sites: none, part or whole |
| `files`, `keys`, `config` | the document root, `.db_credentials`, `wp-config.php` of a directory: whose database, and whether the password opens it |
| `Named` | which directory has a site's whole id in its name |
| `account`, `db` | databases with their accounts, and what each holds: the content and the address in it |
| `job[w].dump`, `job[w].load` | the processes `mysqldump` and `mysql` at the two ends of a pipe |
| `stray` | databases into which a `mysql` writes that its job no longer waits for |
| `snap`, `seen`, `promise` | history: the database as the dump found it, the files as rsync found them, what a clean DONE promised |

Provisioning, import and web server go by `SiteUsername`, the first 15 characters of
the id (`provisioning.go:246-252`), and by a database name without hyphens. Clone and
push go by the whole id, for the directory and for the database
(`handlers_clone.go:36-37,58-59,142-143,157-158`). A site in the model is the directory
it is served from; `Named[s]` is the directory clone and push use for it, `s` itself for an id
of up to 15 characters without hyphens and another one for a UUID. The collector takes
UUIDs for the only real ids (`siteusage/collector.go:203-207`), the tests of the
provisioning use short ones; no code in this repository makes an id. A database of the
name clone and push use exists only for a short id (`HasDatabase`). `Named` may be any
function that gives no site the directory of another: the theorems hold for all of
them, the two runs take one of each.

The contents are a few values: old, fresh, an archive, each edit of a customer, and
`part`, a mixture or a half. `SearchReplace` changes the address in the database that
`wp-config.php` names, which after a copy of the directory is the source's.

A clone first makes the directory of its target (`MakeDirectory`; a push has no such
step, its `mkdir` does nothing). An rsync whose source is missing fails and is taken to
make nothing. A dump may be larger than a pipe holds or not; the model chooses. The job
waits for the dump first. When `mysql` exits early a small dump ends and the job fails; a
large one blocks, for the warden itself holds the reading end and no SIGPIPE comes:
`Hung`, the exception of `EndsOrHangs`. When the dump fails the job ends and nobody
waits for `mysql`, which may write on while the job is tried again; `CopyIsWhole` holds
only of copies that no such import, no other job and no edit disturbed (`clean`).

An import disturbs more than its own site: it streams into the database that the
credentials file names. When that is the database of another site, a copy to that site
that starts during the stream is not clean either (`Filled`). It takes three sites to
tell this from two jobs of one site (s1 is cloned to s2, an archive is imported into s2,
s3 is pushed over s1), one more than the run has: the proof asked for it (section 11).

`content`: s1 was imported before, files and database, and has no `wp-config.php`. s2
is installed, s1 is pushed over s2, and after the push (`after`) an archive is imported
into s2; two workers, one edit, one accident. Installation, push and import write to
the same site in any order and overlap. One accident is a failed command, a download or
a pipe cut short, or a crash. The ids are short: with UUIDs the databases clone and push
ask for are not there, both processes fail at once, and neither the pipe nor a copied
database would be seen. 200,000 states, two minutes. `content_push`: s1 and s2 with UUIDs, a
clone of s1 to s2 and a push back, without databases, one edit and no accident, a
violation (section 12); with short ids the same run passes.

`FairSpec`: goroutines and commands go on, an order is sent again until it is DONE and
gets a goroutine when goroutines get free again and again (strong fairness: jobs wait
at the semaphore, a channel that serves them in the order they came, `executor.go:96`),
a stray import ends. A hung pipe keeps its goroutine for ever; there is one more.

`InstallConverges` has three exceptions. A `wp` that was cut short passes for the whole
one (`os.Stat`), for every site of the host. A `wp-config.php` with a password that
opens nothing is never replaced: the finding `site_credentials` carried on. And a part
of WordPress with an `index.php` passes for the whole (`wordpress.go:194`) when a job
that was copying or extracting into the site broke off and does not come back; the
installation is refused for ever. The run needs all three: TLC finds a counterexample
when any one of them is dropped. That they suffice is shown for these orders and one
accident.

Assumptions: the replacement at the end of a clone is left out: it takes the old domain
from `site_<id>.conf`, a file that nothing writes. The archive of an import is taken to
have no `wp-config.php` of its own. Redis, mail and salts in `wp-config.php`, the plugins
and the modes of the files are left out: their errors are only logged, and no step reads
what they write.

What the model shows and no property forbids: where ids are short, the staging site
runs on the production database after a clone, because it has production's
`wp-config.php`; a push with its database then overwrites production's with the copy
made at the clone, and an archive imported into the clone is streamed into the database
of the site it was cloned from, whose `.db_credentials` came along. A retried
installation that generates the administrator's password reports a new one, while
`wp core install` leaves the tables with the old.

## 11. What is proved

`JobDispatchProofs` holds for any jobs, goroutines, capacity and bounds, from
`ConstantsOK` alone (a positive capacity, finitely many goroutine names, NoJob not a job).

The inductive invariant is `IInv == TypeOK /\ ExecInv /\ Drained`. `ExecInv` puts
together `SingleExecution`, `ActiveJobsExact`, `SemaphoreExact` and that a live
goroutine has a job: none is inductive alone. `Clear` removes one id from the table
and keeps `ActiveJobsExact` only when no other goroutine has that id; `Release`
keeps `slots` non-negative only because a token is held; `DispatchStart` keeps
`SingleExecution` only because the table covers every live goroutine. `Drained`
says that nothing is active during a download: it holds because the only action
that adds to the table is in the goroutine that downloads, and it gives
`InstallIsDrained`.

`RedispatchBounded` needs a second invariant, `RedeliveryInv`: a reported job in
the inbox has not been dispatched again yet, and the next response is composed
without it. `Implements` shows that `JobDispatch` implements `JobService` under
the mapping in `JobDispatch`: each step is a step of the service or a stutter;
its lemma `ExecutingBounded` turns the semaphore's count into the service's guard.

`TrackerAgreement` needs `TrackerInv`: a job that was not dispatched again is not yet
reported while its goroutine is at work (`Fresh`), and between the record and the report
the tracker has the goroutine's result or, evicted, none (`Recorded`). Both rest on
`IInv`: only one goroutine works for the id, and the id is one the table covers. The
property says that the tracker and the API agree, or the job was run again: it excepts
nothing else, restarts and evictions included.

`ArchiveProofs` holds for any tokens, clients, expiry and crashes, from
`ArchiveConstants` alone. Its invariant `IInv` has a part per actor. `BuildInv`: the
file of a build is what the build has made of it, and a build has written at most
a stall ago. `RegistryInv`: an entry is at most a stall younger than its file, so
`StrayLimit`, twice the expiry, never catches a file whose offer has not expired:
this is where `MaxStall <= MaxAge` is needed. `GetInv`: a token is in the registry or
in the hands of one download. `SweepInv`: what the janitor decided at the beginning
of its sweep is still true when it acts, because ages only grow once a build has
ended. `StreamedOnceHolds` and `OfferedIsWholeHolds` follow.

`MigrationProofs` holds for any requests, files and accidents, from
`MigrationConstants` alone, with any of the files being links or large. `AloneInv`: a request that is alone is the only one with
a goroutine on either node, so nobody truncates its files. `StageInv`: what the
receiver has extracted is there, and stays, whatever the tree was before.
`SettledInv` carries this from the receiver's answer to the source's report.
`OwnerInv` needs the state of the target's provisioning: the files are the user's,
or the user did not exist when the receiver's chown ran, and then nobody can have
passed the directory's chown yet (`ChownToCome`). `HandOverInv` (no receiver before
the source waits) and `OpenInUse` in `TypeOK` tie the two nodes together.

`MeteringProofs` holds for any sites, any log, any CPU and any accidents, from
`MeteringConstants` alone. `LogInv`: what lies behind the offset in the present log
(behind its beginning, once it was rotated) was neither counted nor read in this
life. It needs that the offset lies within the log unless the log was rotated,
which is why the comparison of size and offset can only err by reading too little.
`UsageInv` adds to what was charged the CPU between sample and counter: together they
never exceed what was used, and a slice that starts again begins below its sample
or at it. Both halves change independently but for `Restart`, so each step needs one
of them.

The other four components are chains of steps over state that all jobs share, and
their invariants have one shape. `Alone`: a job that is clean is the only one of its
site (of its file, in `EdgeVhosts`). `Quiet`: while anything is promised of a site no job
works on it. `Progress`: what a clean job has made of its site, by how far it has come,
one conjunct per step of the chain. `Standing` (or the property itself): what is promised
is the case. A step of a job then needs the part of `Progress` its own step adds and
takes nothing from another site; the end of a job turns the last of `Progress` into the
promise. The lemmas `Places` give, for each name of a step, the position it has in its
chain. What makes each of the four more than this:

* `SiteLifecycleProofs`, any sites, versions, orders, workers and accidents, from
  `SiteConstants`. The reload of any job loads the vhosts of all sites, and the test or
  the half-written file of any site can fail it. A teardown has two chains, and the
  Node.js one is taken only when there is no unit, which `RemovedNode` must know from its
  first step on. A version switch starts on top of a promise: `Switched` says what it
  keeps of a site that was served while its service is down, and that it gets nowhere
  with one that was torn down.
* `EdgeVhostsProofs`, any domains, contents, orders, workers and accidents, from
  `EdgeConstants`. What is promised must be on the disk as well as loaded (`Kept`),
  because a job of another file loads it again; and a rejected or torn file must belong
  to a job that is still there, which gives `NobodyIsBlocked`. That no content is called
  "none", "torn", "rejected" or "unknown" is a naming assumption.
* `NodeSitesProofs`, any sites, ports (more than sites), orders, workers and accidents,
  from `NodeConstants`. `KeptRunning`: only a process systemd keeps running has a port.
  `Separate`: a port that one site has in its vhost, in a goroutine's hands or loaded, and
  another in any place, was given out twice or is the other customer's PORT. It is stronger than `OwnProgram`, which
  speaks of what is loaded and bound: those two come from files and hands, so the
  others must be apart before. `allocatePort` returns the least free port, whose
  existence is a lemma on well-founded sets.
* `SiteContentProofs`, any sites, directories, orders, workers, edits and accidents, from
  `ContentConstants`: no site's directory is named after another site's id, and no two
  ids name one directory (`Apart`). A copy depends on two sites and two processes. `CleanCopy` follows
  them: the source's files are what rsync has seen until it ends, then the destination's
  are; the import has ended well only if the dump ended badly or the database is the
  dump's. `Loading`: an import fills only a database that nothing is promised of and no
  clean copy writes to, whose ever it is. The first version of the model did not have
  this: with three sites a push that started during such a stream counted as undisturbed
  and `CopyIsWhole` was false, as TLC confirmed on an instance with three sites. With
  `Filled` TLC finds no error there, and the theorem holds of any number.

TLC has checked each of these invariants on the instances of the runs before its proof.

What cannot be proved here: liveness under fairness (`EveryJobReported`,
`EventuallyUpdated`, the `RetriesConverge` and `OrdersConverge` of the chains,
`NoFileForEver`, `WiredIsServed`, `EveryEntryRead`, `EndsOrHangs`, `InstallConverges`) is
out of the prover's reach and model-checked only. The two properties that are violated
are of course not theorems.

## 12. Findings

| Run | What a comment says | What the code does |
|---|---|---|
| `site_credentials` | credentials are written to `.db_credentials` | a retry keeps the account's old password and writes a new one to the file |
| `content_push` | push to production "rsyncs staging files to production" | with a UUID for an id clone and push use directories nothing is served from: a failed clone leaves an empty one, and the push of that is DONE |

Met while modelling, and kept as exceptions of properties or as hazards:

* a self-update restarts the warden under the direct jobs, which its count does not
  cover, and under the jobs of the same response, which start after the restart was
  asked for (`updater.go:110`);
* after a version switch cut short between unit and restart, a retry finds the
  requested version in the unit and leaves the old process running (`executor.go:174`);
* a suspension renames `site_<id>.conf`, which no provisioner writes: the vhost is still
  served (`handlers_site.go:148`);
* a certificate chain without its key, or half of one, passes for an installed
  certificate for ever (`handlers_edge.go:41`): the exception of `OrdersConverge`;
* a Node.js site from a repository whose provisioning stopped after the clone is never
  DONE (`nodejs.go:233`): the exception of `RetriesConverge`;
* a PORT among the variables of a Node.js site's customer overrides the allocated one
  in `.env` and not in the vhost (`nodejs.go:342`): the exception of `OwnProgram`,
  `DoneIsWired` and `WiredIsServed`;
* the exceptions of sections 9 and 10: a log that outgrew the old offset, a counter
  misread while seeding, a pipe nobody reads, a `wp` cut short, a part of WordPress with
  an `index.php`.

## 13. What is not modelled

Text of templates, payload formats and decryption (an undecryptable job is an
outcome), authentication, the metrics a beat carries. `AssignWorkers`, which has no
caller. A deprovision job with no PHP version, which stops a unit that does not
exist, changes nothing and reports FAILED. A provisioning with an empty PHP version,
and a unit file that `detectPHPVersion` reads while it is half written.
`handleDeprovisionSite`, a stub nobody reaches. Malware scans, the file manager,
metrics, namespaces and the scripts keep no state between calls. Backup and restore
keep no state between jobs either, and each backup has temporary files of its own;
the dump of a v2 site is always skipped, because it is asked of a database name the
provisioner does not give, and the backup is DONE with no file id for it. The other
components marked not_modelled in `PROJECT.json` are in the plan above.
