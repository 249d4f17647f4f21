-------------------------- MODULE NodeSitesProofs ---------------------------
(***************************************************************************)
(* Theorems about NodeSites, for any sites, ports, orders and goroutines   *)
(* and any number of accidents.                                            *)
(***************************************************************************)
EXTENDS NodeSites, WellFoundedInduction, TLAPS

HostTypes ==
    /\ has \in [Sites -> SUBSET Resources]
    /\ env \in [Sites -> Numbers]
    /\ vhost \in [Sites -> Ports \cup {0}]
    /\ live \in [Sites -> Ports \cup {0}]
    /\ up \in [Sites -> BOOLEAN]
    /\ listens \in [Sites -> Numbers]

JobTypes ==
    /\ job \in [Workers -> Job \cup {Idle}]
    /\ done \subseteq Orders /\ twice \subseteq Ports
    /\ promise \in [Sites -> Promises]
    /\ faults \in 0..MaxFaults

(* Only a process that systemd keeps running has a port.                   *)
KeptRunning == \A s \in Sites : listens[s] # 0 => up[s]

(* A clean job is the only one of its site, and while anything is promised *)
(* of a site no job works on it.                                           *)
Alone == \A w \in Workers : Active(w) /\ job[w].clean => Working(Site(w)) = {w}
Quiet == \A s \in Sites : promise[s] # "unknown" => Working(s) = {}

(* What a clean job has made of its site, by how far it has come.          *)
Provisioned(s, n, port, own, found) ==
    /\ n > 1 => "user" \in has[s]
    /\ n > 3 => "slice" \in has[s]
    /\ n > 4 => "account" \in has[s]
    /\ n > 5 => port # 0
    /\ n > 6 => env[s] = IF own = 0 THEN port ELSE own
    /\ n > 9 => "unit" \in has[s]
    /\ n > 11 => vhost[s] = port
    /\ n > 13 => up[s] /\ (~found => listens[s] \in {0, env[s]})
    /\ n > 14 => live[s] = port

Removed(s, n) ==
    /\ n > 1 => ~up[s]
    /\ n > 2 => "unit" \notin has[s]
    /\ n > 3 => vhost[s] = 0
    /\ n > 4 => "slice" \notin has[s]
    /\ n > 5 => "account" \notin has[s]
    /\ n > 6 => "user" \notin has[s]
    /\ n > 7 => live[s] = 0

CleanJob(w) ==
    IF job[w].order.request = "provision"
    THEN Provisioned(Site(w), job[w].step, job[w].port, job[w].order.own, job[w].found)
    ELSE Removed(Site(w), job[w].step)

Progress == \A w \in Workers : Active(w) /\ job[w].clean => CleanJob(w)

(* A port given to one site is used by another only if it was given out    *)
(* twice or the other's customer asked for it. What a site's process has   *)
(* bound counts too: it may be the port of an earlier attempt.             *)
Uses(s) == Assigned(s) \cup {listens[s]}
Separate ==
    \A s, t \in Sites : s # t =>
        \A p \in Ports : p \in Given(s) /\ p \in Uses(t) => p \in twice \cup OwnPorts(t)

IInv ==
    /\ HostTypes /\ JobTypes /\ KeptRunning /\ Alone /\ Quiet
    /\ Progress /\ DoneIsWired /\ TornDownIsGone /\ Separate

-----------------------------------------------------------------------------
(* Ports, and the places of the steps in their chains.                     *)

\* A nonempty set of numbers has a least one.
LEMMA LeastIn == ASSUME NEW S \in SUBSET Nat, S # {} PROVE Min(S) \in S
<1> DEFINE R == OpToRel(<, Nat)
<1>1. \A a, b \in Nat : a < b => <<a, b>> \in R
  BY Zenon DEF OpToRel
<1>2. IsWellFoundedOn(R, Nat)
  BY NatLessThanWellFounded
<1> HIDE DEF R
<1>3. PICK x \in S : \A y \in S : ~(<<y, x>> \in R)
  BY <1>2, WFMin
<1>4. \A y \in S : x <= y
  <2>1. S \subseteq Nat
    OBVIOUS
  <2>2. \A y \in S : ~(y < x)
    BY <1>1, <1>3, <2>1, Zenon
  <2>3. QED
    BY <2>1, <2>2
<1>5. QED
  BY <1>4 DEF Min

\* The port that is allocated is a free port of the range.
LEMMA LowestIsFree == FreePorts # {} => Min(FreePorts) \in FreePorts
<1>1. FreePorts \in SUBSET Nat
  BY NodeConstants DEF FreePorts
<1>2. QED
  BY <1>1, LeastIn

\* No name occurs twice in a chain, and none in both.
LEMMA ProvisionPlaces ==
    ASSUME NEW n \in 1..14
    PROVE  /\ ProvisionNodeJS[n] = "user" => n = 1
           /\ ProvisionNodeJS[n] = "docroot" => n = 2
           /\ ProvisionNodeJS[n] = "slice" => n = 3
           /\ ProvisionNodeJS[n] = "account" => n = 4
           /\ ProvisionNodeJS[n] = "port" => n = 5
           /\ ProvisionNodeJS[n] = "env" => n = 6
           /\ ProvisionNodeJS[n] = "clone" => n = 7
           /\ ProvisionNodeJS[n] = "build" => n = 8
           /\ ProvisionNodeJS[n] = "unit" => n = 9
           /\ ProvisionNodeJS[n] = "open vhost" => n = 10
           /\ ProvisionNodeJS[n] = "fill vhost" => n = 11
           /\ ProvisionNodeJS[n] = "test" => n = 12
           /\ ProvisionNodeJS[n] = "enable" => n = 13
           /\ ProvisionNodeJS[n] = "reload" => n = 14
           /\ ProvisionNodeJS[n] \notin
                  {"disable", "drop unit", "drop vhost", "drop slice",
                   "drop account", "drop user", "try reload"}
<1>1. \/ n = 1 \/ n = 2 \/ n = 3 \/ n = 4 \/ n = 5 \/ n = 6 \/ n = 7
      \/ n = 8 \/ n = 9 \/ n = 10 \/ n = 11 \/ n = 12 \/ n = 13 \/ n = 14
  OBVIOUS
<1>2. /\ ProvisionNodeJS[1] = "user"
      /\ ProvisionNodeJS[2] = "docroot"
      /\ ProvisionNodeJS[3] = "slice"
      /\ ProvisionNodeJS[4] = "account"
      /\ ProvisionNodeJS[5] = "port"
      /\ ProvisionNodeJS[6] = "env"
      /\ ProvisionNodeJS[7] = "clone"
      /\ ProvisionNodeJS[8] = "build"
      /\ ProvisionNodeJS[9] = "unit"
      /\ ProvisionNodeJS[10] = "open vhost"
      /\ ProvisionNodeJS[11] = "fill vhost"
      /\ ProvisionNodeJS[12] = "test"
      /\ ProvisionNodeJS[13] = "enable"
      /\ ProvisionNodeJS[14] = "reload"
  BY DEF ProvisionNodeJS
<1>3. QED
  BY <1>1, <1>2

\* The same of the other chain.
LEMMA TeardownPlaces ==
    ASSUME NEW n \in 1..7
    PROVE  /\ DeprovisionNodeJS[n] = "disable" => n = 1
           /\ DeprovisionNodeJS[n] = "drop unit" => n = 2
           /\ DeprovisionNodeJS[n] = "drop vhost" => n = 3
           /\ DeprovisionNodeJS[n] = "drop slice" => n = 4
           /\ DeprovisionNodeJS[n] = "drop account" => n = 5
           /\ DeprovisionNodeJS[n] = "drop user" => n = 6
           /\ DeprovisionNodeJS[n] = "try reload" => n = 7
           /\ DeprovisionNodeJS[n] \notin
                  {"user", "docroot", "slice", "account", "port", "env", "clone",
                   "build", "unit", "open vhost", "fill vhost", "test", "enable",
                   "reload"}
<1>1. n = 1 \/ n = 2 \/ n = 3 \/ n = 4 \/ n = 5 \/ n = 6 \/ n = 7
  OBVIOUS
<1>2. /\ DeprovisionNodeJS[1] = "disable"
      /\ DeprovisionNodeJS[2] = "drop unit"
      /\ DeprovisionNodeJS[3] = "drop vhost"
      /\ DeprovisionNodeJS[4] = "drop slice"
      /\ DeprovisionNodeJS[5] = "drop account"
      /\ DeprovisionNodeJS[6] = "drop user"
      /\ DeprovisionNodeJS[7] = "try reload"
  BY DEF DeprovisionNodeJS
<1>3. QED
  BY <1>1, <1>2

OnProvision(w, n) ==
    Active(w) /\ job[w].order.request = "provision" /\ job[w].step = n
OnTeardown(w, n) ==
    Active(w) /\ job[w].order.request = "deprovision" /\ job[w].step = n

\* A job that is under way is a record with an order of a site.
LEMMA JobFacts ==
    ASSUME JobTypes, NEW w \in Workers, Active(w)
    PROVE  /\ job[w] \in Job /\ job[w].order \in Orders /\ Site(w) \in Sites
           /\ job[w].order.request \in {"provision", "deprovision"}
<1>1. job[w] \in Job
  BY DEF JobTypes, Active
<1>2. job[w].order \in Orders
  BY <1>1 DEF Job
<1>3. QED
  BY <1>1, <1>2, NodeConstants DEF Order, Site

\* Which job is at a step, and how far it has come, follows from its name.
LEMMA Places ==
    ASSUME JobTypes, NEW w \in Workers
    PROVE  /\ At(w, "user") => OnProvision(w, 1)
           /\ At(w, "docroot") => OnProvision(w, 2)
           /\ At(w, "slice") => OnProvision(w, 3)
           /\ At(w, "account") => OnProvision(w, 4)
           /\ At(w, "port") => OnProvision(w, 5)
           /\ At(w, "env") => OnProvision(w, 6)
           /\ At(w, "clone") => OnProvision(w, 7)
           /\ At(w, "build") => OnProvision(w, 8)
           /\ At(w, "unit") => OnProvision(w, 9)
           /\ At(w, "open vhost") => OnProvision(w, 10)
           /\ At(w, "fill vhost") => OnProvision(w, 11)
           /\ At(w, "test") => OnProvision(w, 12)
           /\ At(w, "enable") => OnProvision(w, 13)
           /\ At(w, "reload") => OnProvision(w, 14)
           /\ At(w, "disable") => OnTeardown(w, 1)
           /\ At(w, "drop unit") => OnTeardown(w, 2)
           /\ At(w, "drop vhost") => OnTeardown(w, 3)
           /\ At(w, "drop slice") => OnTeardown(w, 4)
           /\ At(w, "drop account") => OnTeardown(w, 5)
           /\ At(w, "drop user") => OnTeardown(w, 6)
           /\ At(w, "try reload") => OnTeardown(w, 7)
<1>1. Len(ProvisionNodeJS) = 14 /\ Len(DeprovisionNodeJS) = 7
  BY DEF ProvisionNodeJS, DeprovisionNodeJS
<1>2. ASSUME Active(w) PROVE job[w].step \in 1..15
  BY <1>2, JobFacts DEF Job
<1>3. ASSUME Active(w)
      PROVE  Chain[job[w].order] =
          IF job[w].order.request = "provision" THEN ProvisionNodeJS ELSE DeprovisionNodeJS
  BY <1>3, JobFacts DEF Chain
<1>4. CASE Active(w) /\ job[w].order.request = "provision"
  <2>1. ASSUME NEW name, At(w, name)
        PROVE  job[w].step \in 1..14 /\ ProvisionNodeJS[job[w].step] = name
    BY <1>1, <1>2, <1>3, <1>4, <2>1 DEF At, Done, Step
  <2>2. CASE job[w].step \in 1..14
    BY <1>4, <2>1, <2>2, ProvisionPlaces DEF OnProvision
  <2>3. CASE job[w].step \notin 1..14
    BY <2>1, <2>3
  <2>4. QED
    BY <2>2, <2>3
<1>5. CASE Active(w) /\ job[w].order.request # "provision"
  <2>1. job[w].order.request = "deprovision"
    BY <1>5, JobFacts
  <2>2. ASSUME NEW name, At(w, name)
        PROVE  job[w].step \in 1..7 /\ DeprovisionNodeJS[job[w].step] = name
    BY <1>1, <1>2, <1>3, <1>5, <2>2 DEF At, Done, Step
  <2>3. CASE job[w].step \in 1..7
    BY <1>5, <2>1, <2>2, <2>3, TeardownPlaces DEF OnTeardown
  <2>4. CASE job[w].step \notin 1..7
    BY <2>2, <2>4
  <2>5. QED
    BY <2>3, <2>4
<1>6. CASE ~Active(w)
  BY <1>6 DEF At
<1>7. QED
  BY <1>4, <1>5, <1>6

\* A job that is not done has at most the last step of the longer chain ahead.
LEMMA NotDone ==
    ASSUME JobTypes, NEW w \in Workers, Active(w), ~Done(w)
    PROVE  job[w].step \in 1..14
<1>1. Len(ProvisionNodeJS) = 14 /\ Len(DeprovisionNodeJS) = 7
  BY DEF ProvisionNodeJS, DeprovisionNodeJS
<1>2. job[w].step \in 1..15
  BY JobFacts DEF Job
<1>3. Chain[job[w].order] \in {ProvisionNodeJS, DeprovisionNodeJS}
  BY JobFacts DEF Chain
<1>4. Len(Chain[job[w].order]) = 7 \/ Len(Chain[job[w].order]) = 14
  BY <1>1, <1>3
<1>5. ~(job[w].step > Len(Chain[job[w].order]))
  BY DEF Done
<1>6. ~(job[w].step > 7) \/ ~(job[w].step > 14)
  BY <1>4, <1>5
<1>7. QED
  BY <1>2, <1>6

-----------------------------------------------------------------------------
(* What all steps of a job have in common.                                 *)

\* No record of a job is the record of having none.
LEMMA JobIsNotIdle == \A j \in Job : j # Idle
BY DEF Job, Idle

Onward(w) ==
    /\ Active(w)
    /\ \E j \in Job :
          /\ job' = [job EXCEPT ![w] = j]
          /\ j.order = job[w].order /\ j.step = job[w].step + 1
          /\ j.clean => job[w].clean
    /\ promise' = promise /\ done' = done

\* A step that only advances its job is one; so are those that also note what
\* port was allocated, what service was found, or that an error was dropped.
LEMMA AdvanceIsOnward ==
    ASSUME JobTypes, NEW w \in Workers, Active(w), ~Done(w), Advance(w)
    PROVE  /\ Onward(w) /\ twice' = twice /\ faults' = faults
           /\ job'[w].port = job[w].port /\ job'[w].found = job[w].found
           /\ job'[w].clean = job[w].clean
<1> DEFINE j == [job[w] EXCEPT !.step = @ + 1]
<1>1. job[w] \in Job /\ job[w].step \in 1..14
  BY JobFacts, NotDone
<1>2. j \in Job
  BY <1>1 DEF Job
<1>3. job' = [job EXCEPT ![w] = j]
  BY DEF Advance
<1>4. /\ j.order = job[w].order /\ j.step = job[w].step + 1
      /\ j.clean = job[w].clean /\ j.port = job[w].port /\ j.found = job[w].found
  BY <1>1 DEF Job
<1> HIDE DEF j
<1>5. job'[w] = j
  BY <1>3 DEF JobTypes
<1>6. QED
  BY <1>2, <1>3, <1>4, <1>5 DEF Onward, Advance

\* A step leaves every other job, and who works on what, as it was.
LEMMA OnwardKeeps ==
    ASSUME JobTypes, Alone, Quiet, NEW w \in Workers, Onward(w),
           twice' \subseteq Ports, faults' \in 0..MaxFaults
    PROVE  /\ JobTypes' /\ Alone' /\ Quiet'
           /\ \A x \in Workers : Active(x)' <=> Active(x)
           /\ \A x \in Workers \ {w} : job'[x] = job[x]
           /\ \A x \in Workers : Active(x) => job'[x].order = job[x].order
           /\ \A s : Working(s)' = Working(s)
           /\ job'[w].step = job[w].step + 1 /\ (job'[w].clean => job[w].clean)
<1>1. PICK j \in Job : /\ job' = [job EXCEPT ![w] = j]
                       /\ j.order = job[w].order /\ j.step = job[w].step + 1
                       /\ j.clean => job[w].clean
  BY DEF Onward
<1>2. /\ job'[w] = j /\ \A x \in Workers \ {w} : job'[x] = job[x]
      /\ job' \in [Workers -> Job \cup {Idle}]
  BY <1>1 DEF JobTypes
<1>3. \A x \in Workers : Active(x)' <=> Active(x)
  BY <1>2, JobIsNotIdle DEF Active, Onward
<1>4. \A x \in Workers : Active(x) => job'[x].order = job[x].order
  BY <1>1, <1>2
<1>5. ASSUME NEW s PROVE Working(s)' = Working(s)
  BY <1>3, <1>4 DEF Working, Site
<1>6. JobTypes'
  BY <1>2 DEF JobTypes, Onward
<1>7. Alone'
  <2> SUFFICES ASSUME NEW x \in Workers, Active(x)', job'[x].clean
               PROVE  Working(Site(x))' = {x}
    BY DEF Alone
  <2>1. Active(x) /\ job[x].clean /\ Site(x)' = Site(x)
    BY <1>1, <1>2, <1>3, <1>4 DEF Site
  <2>2. QED
    BY <2>1, <1>5 DEF Alone
<1>8. Quiet'
  BY <1>5 DEF Quiet, Onward
<1>9. QED
  BY <1>1, <1>2, <1>3, <1>4, <1>5, <1>6, <1>7, <1>8

Same(t) ==
    /\ has'[t] = has[t] /\ env'[t] = env[t] /\ vhost'[t] = vhost[t]
    /\ up'[t] = up[t] /\ listens'[t] = listens[t]
    /\ live'[t] \in {live[t], vhost[t]}

\* What is promised of a site, and what a clean job has made of it, is out of
\* reach of the steps of other sites' jobs: a reload finds nothing new there.
LEMMA LocalStep ==
    ASSUME IInv, NEW w \in Workers, Onward(w),
           twice' \subseteq Ports, faults' \in 0..MaxFaults,
           \A t \in Sites \ {Site(w)} : Same(t),
           job'[w].clean => CleanJob(w)'
    PROVE  JobTypes' /\ Alone' /\ Quiet' /\ Progress' /\ DoneIsWired' /\ TornDownIsGone'
<1> USE DEF IInv
<1>1. /\ JobTypes' /\ Alone' /\ Quiet'
      /\ \A x \in Workers : Active(x)' <=> Active(x)
      /\ \A x \in Workers \ {w} : job'[x] = job[x]
      /\ \A s : Working(s)' = Working(s)
  BY OnwardKeeps
<1>2. Active(w) /\ promise' = promise /\ Site(w) \in Sites /\ w \in Working(Site(w))
  BY JobFacts DEF Onward, Working
<1>3. Progress'
  <2> SUFFICES ASSUME NEW x \in Workers, Active(x)', job'[x].clean PROVE CleanJob(x)'
    BY DEF Progress
  <2>1. CASE x = w
    BY <2>1
  <2>2. CASE x # w
    <3>1. Active(x) /\ job'[x] = job[x] /\ job[x].clean
      BY <1>1, <2>2
    <3>2. Site(x) \in Sites /\ job[x].step \in 1..15
      BY <3>1, JobFacts DEF Job
    <3>3. Working(Site(x)) = {x}
      BY <3>1 DEF Alone
    <3>4. Site(x) # Site(w)
      BY <1>2, <2>2, <3>3
    <3>5. CleanJob(x) /\ Same(Site(x))
      BY <3>1, <3>2, <3>4 DEF Progress
    <3>6. QED
      BY <3>1, <3>2, <3>5 DEF CleanJob, Provisioned, Removed, Same, Site
  <2>3. QED
    BY <2>1, <2>2
<1>4. \A s \in Sites : promise[s] # "unknown" => Same(s)
  BY <1>2 DEF Quiet
<1>5. DoneIsWired'
  <2> SUFFICES ASSUME NEW s \in Sites, promise[s] \in {"wired", "stale", "diverted"}
               PROVE  /\ vhost'[s] # 0 /\ vhost'[s] = live'[s] /\ up'[s]
                      /\ {"user", "slice", "account", "unit"} \subseteq has'[s]
                      /\ promise[s] # "diverted" => env'[s] = vhost'[s]
                      /\ promise[s] = "wired" => listens'[s] \in {0, env'[s]}
    BY <1>2 DEF DoneIsWired
  <2>1. Same(s)
    BY <1>4
  <2>2. QED
    BY <2>1 DEF DoneIsWired, Same
<1>6. TornDownIsGone'
  <2> SUFFICES ASSUME NEW s \in Sites, promise[s] = "gone"
               PROVE  /\ ~up'[s] /\ listens'[s] = 0 /\ vhost'[s] = 0 /\ live'[s] = 0
                      /\ has'[s] \subseteq {"docroot", "files"}
    BY <1>2 DEF TornDownIsGone
  <2>1. Same(s)
    BY <1>4
  <2>2. QED
    BY <2>1 DEF TornDownIsGone, Same
<1>7. QED
  BY <1>1, <1>3, <1>5, <1>6

\* Two sites share no more ports than before as long as ports are only moved
\* between the places of one site, dropped, or written because its customer
\* asked for them.
LEMMA SeparateKept ==
    ASSUME Separate, twice \subseteq twice',
           \A s \in Sites, p \in Ports : p \in Given(s)' => p \in Given(s),
           \A s \in Sites, p \in Ports : p \in Uses(s)' => p \in Uses(s) \cup OwnPorts(s)
    PROVE  Separate'
<1> SUFFICES ASSUME NEW s \in Sites, NEW t \in Sites, s # t,
                    NEW p \in Ports, p \in Given(s)', p \in Uses(t)'
             PROVE  p \in twice' \cup OwnPorts(t)
  BY DEF Separate, OwnPorts
<1>1. p \in Given(s) /\ (p \in Uses(t) \/ p \in OwnPorts(t))
  OBVIOUS
<1>2. p \in twice \cup OwnPorts(t)
  BY <1>1 DEF Separate
<1>3. QED
  BY <1>2

\* A step of a job keeps the inductive invariant if it touches its own site
\* only, makes of it what its place in the chain says, and writes no port that
\* was not assigned to the site.
LEMMA OnwardIInv ==
    ASSUME IInv, NEW w \in Workers, Onward(w),
           job'[w].port = job[w].port, twice' = twice, faults' \in 0..MaxFaults,
           HostTypes', KeptRunning',
           \A t \in Sites \ {Site(w)} : Same(t),
           job'[w].clean => CleanJob(w)',
           \A s \in Sites : /\ {vhost'[s], live'[s]} \ {0} \subseteq Given(s)
                            /\ env'[s] \in Assigned(s) \cup OwnPorts(s)
                            /\ listens'[s] \in {0, listens[s]}
    PROVE  IInv'
<1>1. twice' \subseteq Ports
  BY DEF IInv, JobTypes
<1>2. JobTypes' /\ Alone' /\ Quiet' /\ Progress' /\ DoneIsWired' /\ TornDownIsGone'
  BY <1>1, LocalStep
<1>3. /\ \A x \in Workers \ {w} : job'[x] = job[x]
      /\ \A s : Working(s)' = Working(s)
  BY <1>1, OnwardKeeps DEF IInv
<1>4. \A x \in Workers : job'[x].port = job[x].port
  BY <1>3
<1>5. ASSUME NEW s \in Sites, NEW p \in Ports, p \in Given(s)' PROVE p \in Given(s)
  <2>1. CASE p \in {vhost'[s], live'[s]}
    BY <2>1, NodeConstants
  <2>2. CASE p \in {job'[x].port : x \in Working(s)'}
    <3>1. PICK x \in Working(s) : p = job'[x].port
      BY <2>2, <1>3
    <3>2. x \in Workers
      BY DEF Working
    <3>3. QED
      BY <3>1, <3>2, <1>4 DEF Given
  <2>3. QED
    BY <1>5, <2>1, <2>2 DEF Given
<1>6. ASSUME NEW s \in Sites, NEW p \in Ports, p \in Uses(s)'
      PROVE  p \in Uses(s) \cup OwnPorts(s)
  BY <1>5, <1>6, NodeConstants DEF Uses, Assigned
<1>7. Separate'
  BY <1>5, <1>6, SeparateKept DEF IInv
<1>8. QED
  BY <1>2, <1>7 DEF IInv

-----------------------------------------------------------------------------
(* The steps.                                                              *)

\* What a step that only advances its job does besides its work on the host.
Moves(w) ==
    /\ Onward(w) /\ twice' = twice /\ faults' \in 0..MaxFaults
    /\ Site(w) \in Sites /\ Site(w)' = Site(w)
    /\ job[w].port \in Ports \cup {0}
    /\ job'[w].order = job[w].order /\ job'[w].step = job[w].step + 1
    /\ job'[w].port = job[w].port /\ job'[w].found = job[w].found
    /\ job'[w].clean => job[w].clean /\ CleanJob(w)

\* Every step that advances its job does all of this.
LEMMA AdvanceFacts ==
    ASSUME IInv, NEW w \in Workers, Active(w), ~Done(w), Advance(w)
    PROVE  Moves(w)
<1>1. Active(w) /\ ~Done(w)
  OBVIOUS
<1>2. /\ Onward(w) /\ twice' = twice /\ faults' = faults
      /\ job'[w].port = job[w].port /\ job'[w].found = job[w].found
      /\ job'[w].clean = job[w].clean
  BY <1>1, AdvanceIsOnward DEF IInv
<1>3. /\ job'[w].step = job[w].step + 1 /\ job'[w].order = job[w].order
      /\ Site(w)' = Site(w) /\ Site(w) \in Sites /\ faults' \in 0..MaxFaults
  BY <1>1, <1>2, OnwardKeeps, JobFacts DEF IInv, JobTypes, Site
<1>4. job[w].port \in Ports \cup {0}
  BY <1>1, JobFacts DEF IInv, Job
<1>5. QED
  BY <1>1, <1>2, <1>3, <1>4 DEF IInv, Progress, Moves

\* A step that makes something of the site adds it to what the site has.
LEMMA MakesIInv ==
    ASSUME IInv, NEW w \in Workers,
           \/ CreateSystemUser(w) \/ CreateDocumentRoot(w) \/ ApplyLimits(w)
           \/ CreateSiteDatabase(w) \/ CloneRepo(w) \/ WriteSystemdUnit(w)
    PROVE  IInv'
<1> USE DEF nginxVars, processVars
<1>1. PICK step \in {"user", "docroot", "slice", "account", "clone", "unit"},
          resource \in Resources :
          /\ Makes(w, step, resource)
          /\ \/ step = "user" /\ resource = "user" /\ OnProvision(w, 1)
             \/ step = "docroot" /\ resource = "docroot" /\ OnProvision(w, 2)
             \/ step = "slice" /\ resource = "slice" /\ OnProvision(w, 3)
             \/ step = "account" /\ resource = "account" /\ OnProvision(w, 4)
             \/ step = "clone" /\ resource = "files" /\ OnProvision(w, 7)
             \/ step = "unit" /\ resource = "unit" /\ OnProvision(w, 9)
  <2> USE Places DEF IInv, Makes, Resources
  <2>1. CASE CreateSystemUser(w)
    BY <2>1 DEF CreateSystemUser
  <2>2. CASE CreateDocumentRoot(w)
    BY <2>2 DEF CreateDocumentRoot
  <2>3. CASE ApplyLimits(w)
    BY <2>3 DEF ApplyLimits
  <2>4. CASE CreateSiteDatabase(w)
    BY <2>4 DEF CreateSiteDatabase
  <2>5. CASE CloneRepo(w)
    BY <2>5 DEF CloneRepo
  <2>6. CASE WriteSystemdUnit(w)
    BY <2>6 DEF WriteSystemdUnit
  <2>7. QED
    BY <2>1, <2>2, <2>3, <2>4, <2>5, <2>6
<1>2. /\ has' = [has EXCEPT ![Site(w)] = @ \cup {resource}]
      /\ UNCHANGED <<env, vhost, live, up, listens>>
      /\ Active(w) /\ ~Done(w) /\ Advance(w)
  BY <1>1 DEF Makes, At
<1>3. Moves(w)
  BY <1>2, AdvanceFacts
<1>4. HostTypes' /\ KeptRunning'
  BY <1>2, <1>3 DEF IInv, HostTypes, KeptRunning, Moves
<1>5. \A t \in Sites \ {Site(w)} : Same(t)
  BY <1>2 DEF Same, IInv, HostTypes
<1>6. has'[Site(w)] = has[Site(w)] \cup {resource}
  BY <1>2, <1>3 DEF IInv, HostTypes, Moves
<1>7. job'[w].clean => CleanJob(w)'
  BY <1>1, <1>2, <1>3, <1>6 DEF CleanJob, Provisioned, OnProvision, Moves
<1>8. \A s \in Sites : /\ {vhost'[s], live'[s]} \ {0} \subseteq Given(s)
                       /\ env'[s] \in Assigned(s) \cup OwnPorts(s)
                       /\ listens'[s] \in {0, listens[s]}
  BY <1>2 DEF Assigned, Given
<1>9. QED
  BY <1>3, <1>4, <1>5, <1>7, <1>8, OnwardIInv DEF Moves

\* The site without a repository, the build and the test leave the host as it is.
LEMMA IdleStepIInv ==
    ASSUME IInv, NEW w \in Workers, NoRepo(w) \/ Build(w) \/ TestConfig(w)
    PROVE  IInv'
<1> USE DEF nginxVars, processVars, hostVars
<1>1. /\ Active(w) /\ ~Done(w) /\ Advance(w) /\ UNCHANGED <<has, env, vhost, live, up, listens>>
      /\ OnProvision(w, 7) \/ OnProvision(w, 8) \/ OnProvision(w, 12)
  BY Places DEF IInv, At, NoRepo, Build, TestConfig
<1>2. Moves(w)
  BY <1>1, AdvanceFacts
<1>3. HostTypes' /\ KeptRunning'
  BY <1>1, <1>2 DEF IInv, HostTypes, KeptRunning, JobTypes, Job, Moves
<1>4. \A t \in Sites \ {Site(w)} : Same(t)
  BY <1>1 DEF Same, IInv, HostTypes
<1>5. UNCHANGED <<has, env, vhost, live, up, listens>>
  BY <1>1, <1>2 DEF IInv, HostTypes, OnProvision, Moves
<1>6. job'[w].clean => CleanJob(w)'
  BY <1>1, <1>2, <1>5 DEF CleanJob, Provisioned, OnProvision, Moves
<1>7. \A s \in Sites : /\ {vhost'[s], live'[s]} \ {0} \subseteq Given(s)
                       /\ env'[s] \in Assigned(s) \cup OwnPorts(s)
                       /\ listens'[s] \in {0, listens[s]}
  BY <1>1, <1>2 DEF Assigned, Given, Working, IInv, HostTypes, Moves
<1>8. QED
  BY <1>2, <1>3, <1>4, <1>6, <1>7, OnwardIInv DEF Moves

\* The port of the job, or the customer's, is written to .env.
LEMMA EnvIInv ==
    ASSUME IInv, NEW w \in Workers, WriteEnvFile(w)
    PROVE  IInv'
<1> USE DEF nginxVars, processVars, hostVars
<1> DEFINE own == job[w].order.own
<1>1. /\ Active(w) /\ ~Done(w) /\ Advance(w) /\ OnProvision(w, 6)
      /\ env' = [env EXCEPT ![Site(w)] = IF own = 0 THEN job[w].port ELSE own]
      /\ UNCHANGED <<has, vhost, live, up, listens>>
  BY Places DEF IInv, At, WriteEnvFile, PortWritten
<1>2. Moves(w)
  BY <1>1, AdvanceFacts
<1>3. job[w].order \in Orders /\ own \in OwnPorts(Site(w))
  BY <1>1, JobFacts DEF IInv, OwnPorts, Site
<1>4. (IF own = 0 THEN job[w].port ELSE own) \in Numbers
  BY <1>2, <1>3 DEF Numbers, Moves
<1>5. env'[Site(w)] = IF own = 0 THEN job[w].port ELSE own
  BY <1>1, <1>2 DEF IInv, HostTypes, Moves
<1> HIDE DEF own
<1>6. HostTypes' /\ KeptRunning'
  BY <1>1, <1>2, <1>4 DEF IInv, HostTypes, KeptRunning, Moves
<1>7. \A t \in Sites \ {Site(w)} : Same(t)
  BY <1>1 DEF Same, IInv, HostTypes
<1>8. job'[w].clean => CleanJob(w)'
  BY <1>1, <1>2, <1>5 DEF CleanJob, Provisioned, OnProvision, Moves, own
<1>9. \A s \in Sites : /\ {vhost'[s], live'[s]} \ {0} \subseteq Given(s)
                       /\ env'[s] \in Assigned(s) \cup OwnPorts(s)
                       /\ listens'[s] \in {0, listens[s]}
  <2>1. w \in Working(Site(w))
    BY <1>1 DEF Working
  <2>2. env'[Site(w)] \in Assigned(Site(w)) \cup OwnPorts(Site(w))
    BY <1>3, <1>5, <2>1 DEF Assigned, Given
  <2>3. ASSUME NEW s \in Sites PROVE env'[s] \in Assigned(s) \cup OwnPorts(s)
    BY <1>1, <2>2 DEF IInv, HostTypes, Assigned
  <2>4. QED
    BY <1>1, <2>3 DEF Given
<1>10. QED
  BY <1>2, <1>6, <1>7, <1>8, <1>9, OnwardIInv DEF Moves

\* The vhost is emptied and has the port of the job then.
LEMMA VhostIInv ==
    ASSUME IInv, NEW w \in Workers, OpenProxyVhost(w) \/ FillProxyVhost(w)
    PROVE  IInv'
<1> USE DEF nginxVars, processVars, hostVars
<1>1. /\ \/ OnProvision(w, 10) /\ vhost' = [vhost EXCEPT ![Site(w)] = 0]
         \/ OnProvision(w, 11) /\ vhost' = [vhost EXCEPT ![Site(w)] = job[w].port]
      /\ Active(w) /\ ~Done(w) /\ Advance(w) /\ UNCHANGED <<has, env, live, up, listens>>
  BY Places DEF IInv, At, OpenProxyVhost, FillProxyVhost
<1>2. Moves(w)
  BY <1>1, AdvanceFacts
<1>3. HostTypes' /\ KeptRunning'
  BY <1>1, <1>2 DEF IInv, HostTypes, KeptRunning, JobTypes, Job, Moves
<1>4. \A t \in Sites \ {Site(w)} : Same(t)
  BY <1>1 DEF Same, IInv, HostTypes
<1>5. vhost'[Site(w)] = IF OnProvision(w, 10) THEN 0 ELSE job[w].port
  BY <1>1, <1>2 DEF IInv, HostTypes, OnProvision, Moves
<1>6. job'[w].clean => CleanJob(w)'
  BY <1>1, <1>2, <1>5 DEF CleanJob, Provisioned, OnProvision, Moves
<1>7. \A s \in Sites : /\ {vhost'[s], live'[s]} \ {0} \subseteq Given(s)
                       /\ env'[s] \in Assigned(s) \cup OwnPorts(s)
                       /\ listens'[s] \in {0, listens[s]}
  BY <1>1, <1>2 DEF Assigned, Given, Working, IInv, HostTypes, Moves
<1>8. QED
  BY <1>2, <1>3, <1>4, <1>6, <1>7, OnwardIInv DEF Moves

\* A reload brings what is in the files, for every site.
LEMMA ReloadIInv ==
    ASSUME IInv, NEW w \in Workers, ReloadNginx(w)
    PROVE  IInv'
<1> USE DEF nginxVars, processVars, hostVars
<1>1. /\ OnProvision(w, 14) \/ OnTeardown(w, 7)
      /\ Active(w) /\ ~Done(w) /\ Advance(w) /\ live' = vhost
      /\ UNCHANGED <<has, env, vhost, up, listens>>
  BY Places DEF IInv, At, ReloadNginx
<1>2. Moves(w)
  BY <1>1, AdvanceFacts
<1>3. HostTypes' /\ KeptRunning'
  BY <1>1, <1>2 DEF IInv, HostTypes, KeptRunning, JobTypes, Job, Moves
<1>4. \A t \in Sites \ {Site(w)} : Same(t)
  BY <1>1 DEF Same, IInv, HostTypes
<1>5. live'[Site(w)] = vhost[Site(w)]
  BY <1>1, <1>2 DEF IInv, HostTypes, OnProvision, Moves
<1>6. job'[w].clean => CleanJob(w)'
  BY <1>1, <1>2, <1>5 DEF CleanJob, Provisioned, Removed, OnProvision, OnTeardown, Moves
<1>7. \A s \in Sites : /\ {vhost'[s], live'[s]} \ {0} \subseteq Given(s)
                       /\ env'[s] \in Assigned(s) \cup OwnPorts(s)
                       /\ listens'[s] \in {0, listens[s]}
  BY <1>1, <1>2 DEF Assigned, Given, Working, IInv, HostTypes, Moves
<1>8. QED
  BY <1>2, <1>3, <1>4, <1>6, <1>7, OnwardIInv DEF Moves

\* The service is stopped, with its process.
LEMMA DisableIInv ==
    ASSUME IInv, NEW w \in Workers, DisableService(w)
    PROVE  IInv'
<1> USE DEF nginxVars, processVars, hostVars
<1>1. /\ Active(w) /\ ~Done(w) /\ Advance(w) /\ OnTeardown(w, 1)
      /\ up' = [up EXCEPT ![Site(w)] = FALSE] /\ listens' = [listens EXCEPT ![Site(w)] = 0]
      /\ UNCHANGED <<has, env, vhost, live>>
  BY Places DEF IInv, At, DisableService
<1>2. Moves(w)
  BY <1>1, AdvanceFacts
<1>3. HostTypes' /\ KeptRunning'
  BY <1>1, <1>2 DEF IInv, HostTypes, KeptRunning, JobTypes, Job, Moves, Numbers
<1>4. \A t \in Sites \ {Site(w)} : Same(t)
  BY <1>1 DEF Same, IInv, HostTypes
<1>5. ~up'[Site(w)] /\ listens'[Site(w)] = 0
  BY <1>1, <1>2 DEF IInv, HostTypes, OnProvision, Moves
<1>6. job'[w].clean => CleanJob(w)'
  BY <1>1, <1>2, <1>5 DEF CleanJob, Removed, OnTeardown, Moves
<1>7. \A s \in Sites : /\ {vhost'[s], live'[s]} \ {0} \subseteq Given(s)
                       /\ env'[s] \in Assigned(s) \cup OwnPorts(s)
                       /\ listens'[s] \in {0, listens[s]}
  BY <1>1, <1>2 DEF Assigned, Given, Working, IInv, HostTypes, Moves
<1>8. QED
  BY <1>2, <1>3, <1>4, <1>6, <1>7, OnwardIInv DEF Moves

\* The vhost is removed.
LEMMA RemoveVhostIInv ==
    ASSUME IInv, NEW w \in Workers, RemoveVhost(w)
    PROVE  IInv'
<1> USE DEF nginxVars, processVars, hostVars
<1>1. /\ Active(w) /\ ~Done(w) /\ Advance(w) /\ OnTeardown(w, 3)
      /\ vhost' = [vhost EXCEPT ![Site(w)] = 0]
      /\ UNCHANGED <<has, env, live, up, listens>>
  BY Places DEF IInv, At, RemoveVhost
<1>2. Moves(w)
  BY <1>1, AdvanceFacts
<1>3. HostTypes' /\ KeptRunning'
  BY <1>1, <1>2 DEF IInv, HostTypes, KeptRunning, JobTypes, Job, Moves
<1>4. \A t \in Sites \ {Site(w)} : Same(t)
  BY <1>1 DEF Same, IInv, HostTypes
<1>5. vhost'[Site(w)] = 0
  BY <1>1, <1>2 DEF IInv, HostTypes, OnProvision, Moves
<1>6. job'[w].clean => CleanJob(w)'
  BY <1>1, <1>2, <1>5 DEF CleanJob, Removed, OnTeardown, Moves
<1>7. \A s \in Sites : /\ {vhost'[s], live'[s]} \ {0} \subseteq Given(s)
                       /\ env'[s] \in Assigned(s) \cup OwnPorts(s)
                       /\ listens'[s] \in {0, listens[s]}
  BY <1>1, <1>2 DEF Assigned, Given, Working, IInv, HostTypes, Moves
<1>8. QED
  BY <1>2, <1>3, <1>4, <1>6, <1>7, OnwardIInv DEF Moves

\* What is dropped is not there any more.
LEMMA DropsIInv ==
    ASSUME IInv, NEW w \in Workers,
           RemoveUnit(w) \/ RemoveLimits(w) \/ DropSiteDatabase(w) \/ RemoveSystemUser(w)
    PROVE  IInv'
<1> USE DEF nginxVars, processVars, hostVars
<1>1. PICK resource \in Resources :
          /\ Active(w) /\ ~Done(w) /\ Advance(w)
          /\ has' = [has EXCEPT ![Site(w)] = @ \ {resource}]
          /\ UNCHANGED <<env, vhost, live, up, listens>>
          /\ \/ resource = "unit" /\ OnTeardown(w, 2)
             \/ resource = "slice" /\ OnTeardown(w, 4)
             \/ resource = "account" /\ OnTeardown(w, 5)
             \/ resource = "user" /\ OnTeardown(w, 6)
  BY Places DEF IInv, At, RemoveUnit, RemoveLimits, DropSiteDatabase, RemoveSystemUser,
     Drops, Resources
<1>2. Moves(w)
  BY <1>1, AdvanceFacts
<1>3. HostTypes' /\ KeptRunning'
  BY <1>1, <1>2 DEF IInv, HostTypes, KeptRunning, JobTypes, Job, Moves
<1>4. \A t \in Sites \ {Site(w)} : Same(t)
  BY <1>1 DEF Same, IInv, HostTypes
<1>5. has'[Site(w)] = has[Site(w)] \ {resource}
  BY <1>1, <1>2 DEF IInv, HostTypes, OnProvision, Moves
<1>6. job'[w].clean => CleanJob(w)'
  BY <1>1, <1>2, <1>5 DEF CleanJob, Removed, OnTeardown, Moves
<1>7. \A s \in Sites : /\ {vhost'[s], live'[s]} \ {0} \subseteq Given(s)
                       /\ env'[s] \in Assigned(s) \cup OwnPorts(s)
                       /\ listens'[s] \in {0, listens[s]}
  BY <1>1, <1>2 DEF Assigned, Given, Working, IInv, HostTypes, Moves
<1>8. QED
  BY <1>2, <1>3, <1>4, <1>6, <1>7, OnwardIInv DEF Moves

\* A step whose error was dropped, and a teardown that finds the user busy,
\* leave the host as it is, and the job is not clean.
LEMMA UncleanIInv ==
    ASSUME IInv, NEW w \in Workers, UserBusy(w) \/ Overlooked(w)
    PROVE  IInv'
<1> USE DEF nginxVars, processVars, hostVars
<1> DEFINE i == [job[w] EXCEPT !.step = @ + 1]
           j == [job[w] EXCEPT !.step = @ + 1, !.clean = FALSE]
<1>1. /\ Active(w) /\ ~Done(w) /\ job' = [job EXCEPT ![w] = j]
      /\ UNCHANGED <<has, env, vhost, live, up, listens, done, twice, promise>>
      /\ faults' = faults \/ (faults < MaxFaults /\ faults' = faults + 1)
  BY DEF UserBusy, Overlooked, At
<1>2. job[w] \in Job /\ job[w].step \in 1..14 /\ Site(w) \in Sites
  BY <1>1, JobFacts, NotDone DEF IInv
<1>3. /\ j \in Job /\ j.order = job[w].order /\ j.step = job[w].step + 1
      /\ ~j.clean /\ j.port = job[w].port
  <2>1. i \in Job /\ j = [i EXCEPT !.clean = FALSE]
    BY <1>2 DEF Job
  <2>2. i.order = job[w].order /\ i.step = job[w].step + 1 /\ i.port = job[w].port
    BY <1>2 DEF Job
  <2> HIDE DEF i
  <2>3. [i EXCEPT !.clean = FALSE] \in Job
    BY <2>1 DEF Job
  <2>4. QED
    BY <2>1, <2>2, <2>3 DEF Job
<1> HIDE DEF i, j
<1>4. job'[w] = j
  BY <1>1 DEF IInv, JobTypes
<1>5. Onward(w)
  BY <1>1, <1>3 DEF Onward
<1>6. faults' \in 0..MaxFaults
  BY <1>1, NodeConstants DEF IInv, JobTypes
<1>7. HostTypes' /\ KeptRunning'
  BY <1>1 DEF IInv, HostTypes, KeptRunning
<1>8. \A t \in Sites \ {Site(w)} : Same(t)
  BY <1>1 DEF Same
<1>9. \A s \in Sites : /\ {vhost'[s], live'[s]} \ {0} \subseteq Given(s)
                       /\ env'[s] \in Assigned(s) \cup OwnPorts(s)
                       /\ listens'[s] \in {0, listens[s]}
  BY <1>1 DEF Assigned, Given
<1>10. job'[w].port = job[w].port /\ ~job'[w].clean
  BY <1>3, <1>4
<1>11. QED
  BY <1>1, <1>5, <1>6, <1>7, <1>8, <1>9, <1>10, OnwardIInv

\* The service runs, and the job knows whether it was running before: if not,
\* the process that it starts has no port yet.
LEMMA EnableIInv ==
    ASSUME IInv, NEW w \in Workers, EnableService(w)
    PROVE  IInv'
<1> USE DEF nginxVars, processVars
<1> DEFINE i == [job[w] EXCEPT !.step = @ + 1]
           j == [job[w] EXCEPT !.step = @ + 1, !.found = up[Site(w)]]
<1>1. /\ Active(w) /\ ~Done(w) /\ OnProvision(w, 13) /\ job' = [job EXCEPT ![w] = j]
      /\ up' = [up EXCEPT ![Site(w)] = TRUE]
      /\ UNCHANGED <<has, env, vhost, live, listens, done, twice, promise, faults>>
  BY Places DEF EnableService, At, IInv
<1>2. job[w] \in Job /\ job[w].step \in 1..14 /\ Site(w) \in Sites
  BY <1>1, JobFacts, NotDone DEF IInv
<1>3. up[Site(w)] \in BOOLEAN
  BY <1>2 DEF IInv, HostTypes
<1>4. /\ j \in Job /\ j.order = job[w].order /\ j.step = job[w].step + 1
      /\ j.clean = job[w].clean /\ j.port = job[w].port /\ j.found = up[Site(w)]
  <2>1. i \in Job /\ j = [i EXCEPT !.found = up[Site(w)]]
    BY <1>2 DEF Job
  <2>2. /\ i.order = job[w].order /\ i.step = job[w].step + 1
        /\ i.clean = job[w].clean /\ i.port = job[w].port
    BY <1>2 DEF Job
  <2> HIDE DEF i
  <2>3. [i EXCEPT !.found = up[Site(w)]] \in Job
    BY <1>3, <2>1 DEF Job
  <2>4. QED
    BY <2>1, <2>2, <2>3 DEF Job
<1> HIDE DEF i, j
<1>5. job'[w] = j
  BY <1>1 DEF IInv, JobTypes
<1>6. Onward(w)
  BY <1>1, <1>4 DEF Onward
<1>7. faults' \in 0..MaxFaults
  BY <1>1 DEF IInv, JobTypes
<1>8. up'[Site(w)]
  BY <1>1, <1>2 DEF IInv, HostTypes
<1>9. HostTypes'
  BY <1>1, <1>2 DEF IInv, HostTypes
<1>10. KeptRunning'
  <2> SUFFICES ASSUME NEW s \in Sites, listens[s] # 0 PROVE up'[s]
    BY <1>1 DEF KeptRunning
  <2>1. CASE s = Site(w)
    BY <2>1, <1>8
  <2>2. CASE s # Site(w)
    BY <2>2, <1>1 DEF IInv, KeptRunning, HostTypes
  <2>3. QED
    BY <2>1, <2>2
<1>11. \A t \in Sites \ {Site(w)} : Same(t)
  BY <1>1 DEF Same, IInv, HostTypes
<1>12. \A s \in Sites : /\ {vhost'[s], live'[s]} \ {0} \subseteq Given(s)
                        /\ env'[s] \in Assigned(s) \cup OwnPorts(s)
                        /\ listens'[s] \in {0, listens[s]}
  BY <1>1 DEF Assigned, Given
<1>13. ASSUME job'[w].clean PROVE CleanJob(w)'
  <2>1. CleanJob(w)
    BY <1>1, <1>4, <1>5, <1>13 DEF IInv, Progress
  <2>2. ~up[Site(w)] => listens[Site(w)] = 0
    BY <1>2 DEF IInv, KeptRunning
  <2>3. /\ job'[w].order = job[w].order /\ job'[w].port = job[w].port
        /\ job'[w].found = up[Site(w)] /\ job'[w].step = job[w].step + 1
        /\ Site(w)' = Site(w)
    BY <1>4, <1>5 DEF Site
  <2>4. ~job'[w].found => listens'[Site(w)] = 0
    BY <2>2, <2>3, <1>1
  <2>5. QED
    BY <2>1, <2>3, <2>4, <1>1, <1>8 DEF CleanJob, Provisioned, OnProvision
<1>14. job'[w].port = job[w].port
  BY <1>4, <1>5
<1>15. QED
  BY <1>1, <1>6, <1>7, <1>9, <1>10, <1>11, <1>12, <1>13, <1>14, OnwardIInv

\* The port that is allocated is nobody's, or is noted as given out twice.
LEMMA AllocateIInv ==
    ASSUME IInv, NEW w \in Workers, AllocatePort(w)
    PROVE  IInv'
<1> USE DEF nginxVars, processVars, hostVars
<1> DEFINE q == Min(FreePorts)
           i == [job[w] EXCEPT !.step = @ + 1]
           j == [job[w] EXCEPT !.step = @ + 1, !.port = q]
<1>1. /\ Active(w) /\ ~Done(w) /\ OnProvision(w, 5) /\ job' = [job EXCEPT ![w] = j]
      /\ UNCHANGED <<has, env, vhost, live, up, listens, done, promise, faults>>
      /\ twice' = IF \E s \in Sites \ {Site(w)} : q \in Assigned(s) /\ listens[s] # q
                  THEN twice \cup {q} ELSE twice
  BY Places DEF AllocatePort, At, IInv
<1>2. q \in FreePorts
  BY LowestIsFree DEF AllocatePort
<1>3. q \in Ports /\ \A s \in Sites : listens[s] # q
  BY <1>2 DEF FreePorts
<1> HIDE DEF q
<1>4. job[w] \in Job /\ job[w].step \in 1..14 /\ Site(w) \in Sites
  BY <1>1, JobFacts, NotDone DEF IInv
<1>5. /\ j \in Job /\ j.order = job[w].order /\ j.step = job[w].step + 1
      /\ j.clean = job[w].clean /\ j.port = q /\ j.found = job[w].found
  <2>1. i \in Job /\ j = [i EXCEPT !.port = q]
    BY <1>4 DEF Job
  <2>2. /\ i.order = job[w].order /\ i.step = job[w].step + 1
        /\ i.clean = job[w].clean /\ i.found = job[w].found
    BY <1>4 DEF Job
  <2> HIDE DEF i
  <2>3. [i EXCEPT !.port = q] \in Job
    BY <1>3, <2>1 DEF Job
  <2>4. QED
    BY <2>1, <2>2, <2>3 DEF Job
<1> HIDE DEF i, j
<1>6. job'[w] = j
  BY <1>1 DEF IInv, JobTypes
<1>7. Onward(w)
  BY <1>1, <1>5 DEF Onward
<1>8. faults' \in 0..MaxFaults /\ twice' \subseteq Ports /\ twice \subseteq twice'
  BY <1>1, <1>3 DEF IInv, JobTypes
<1>9. HostTypes' /\ KeptRunning'
  BY <1>1 DEF IInv, HostTypes, KeptRunning
<1>10. \A t \in Sites \ {Site(w)} : Same(t)
  BY <1>1 DEF Same
<1>11. ASSUME job'[w].clean PROVE CleanJob(w)'
  <2>1. CleanJob(w)
    BY <1>1, <1>5, <1>6, <1>11 DEF IInv, Progress
  <2>2. /\ job'[w].order = job[w].order /\ job'[w].port = q
        /\ job'[w].step = job[w].step + 1 /\ Site(w)' = Site(w)
    BY <1>5, <1>6 DEF Site
  <2>3. q # 0
    BY <1>3, NodeConstants
  <2>4. QED
    BY <2>1, <2>2, <2>3, <1>1 DEF CleanJob, Provisioned, OnProvision
<1>12. /\ JobTypes' /\ Alone' /\ Quiet' /\ Progress' /\ DoneIsWired' /\ TornDownIsGone'
  BY <1>7, <1>8, <1>10, <1>11, LocalStep
<1>13. /\ \A x \in Workers \ {w} : job'[x] = job[x]
       /\ \A s : Working(s)' = Working(s)
  BY <1>7, <1>8, OnwardKeeps DEF IInv
<1>14. ASSUME NEW s \in Sites, NEW p \in Given(s)'
       PROVE  p \in Given(s) \/ (p = q /\ s = Site(w))
  <2>1. CASE p \in {vhost'[s], live'[s]}
    BY <2>1, <1>1 DEF Given
  <2>2. CASE p \in {job'[x].port : x \in Working(s)'}
    <3>1. PICK x \in Working(s) : p = job'[x].port
      BY <2>2, <1>13
    <3>2. x \in Workers /\ Site(x) = s
      BY DEF Working
    <3>3. CASE x = w
      BY <3>1, <3>2, <3>3, <1>5, <1>6
    <3>4. CASE x # w
      BY <3>1, <3>2, <3>4, <1>13 DEF Given
    <3>5. QED
      BY <3>3, <3>4
  <2>3. QED
    BY <1>14, <2>1, <2>2 DEF Given
<1>15. Separate'
  <2> SUFFICES ASSUME NEW s \in Sites, NEW t \in Sites, s # t,
                      NEW p \in Ports, p \in Given(s)', p \in Uses(t)'
               PROVE  p \in twice' \cup OwnPorts(t)
    BY DEF Separate, OwnPorts
  <2>1. \/ p \in Given(s)
        \/ p = q /\ s = Site(w)
    BY <1>14
  <2>2. \/ p \in Uses(t)
        \/ p = q /\ t = Site(w)
    BY <1>1, <1>14 DEF Uses, Assigned
  <2>3. CASE p \in Given(s) /\ p \in Uses(t)
    BY <2>3, <1>8 DEF IInv, Separate
  <2>4. CASE p = q /\ s = Site(w) /\ p \in Uses(t)
    BY <2>4, <1>1, <1>3 DEF Uses
  <2>5. CASE p = q /\ t = Site(w) /\ p \in Given(s)
    BY <2>5, <1>1, <1>3 DEF Assigned
  <2>6. QED
    BY <2>1, <2>2, <2>3, <2>4, <2>5
<1>16. QED
  BY <1>9, <1>12, <1>15 DEF IInv

-----------------------------------------------------------------------------
(* Jobs that start and end, and the sites' processes.                      *)

\* A new job takes every promise of its site back, and no other job of the
\* site is clean from there on.
LEMMA StartIInv ==
    ASSUME IInv, NEW w \in Workers, NEW o \in Orders, Start(w, o)
    PROVE  IInv'
<1> USE DEF nginxVars, processVars, hostVars
<1> DEFINE new == [order |-> o, step |-> 1, port |-> 0,
                   clean |-> Working(o.site) = {}, found |-> FALSE]
<1>1. /\ ~Active(w) /\ UNCHANGED <<has, env, vhost, live, up, listens, done, twice, faults>>
      /\ job' = [x \in Workers |->
                    IF x = w THEN new
                    ELSE IF x \in Working(o.site) THEN [job[x] EXCEPT !.clean = FALSE]
                    ELSE job[x]]
      /\ promise' = [promise EXCEPT ![o.site] = "unknown"]
  BY DEF Start
<1>2. o.site \in Sites /\ w \notin Working(o.site)
  BY <1>1, NodeConstants DEF Order, Working
<1>3. new \in Job
  <2>1. (Working(o.site) = {}) \in BOOLEAN
    OBVIOUS
  <2>2. QED
    BY <2>1 DEF Job
<1>4. new.order = o /\ new.step = 1 /\ new.port = 0 /\ (new.clean <=> Working(o.site) = {})
  OBVIOUS
<1> HIDE DEF new
<1>5. \A x \in Working(o.site) : x \in Workers /\ Active(x) /\ job[x] \in Job
  BY JobFacts DEF IInv, Working
<1>6. ASSUME NEW x \in Working(o.site)
      PROVE  /\ job'[x] \in Job /\ ~job'[x].clean
             /\ job'[x].order = job[x].order /\ job'[x].port = job[x].port
  <2>1. job'[x] = [job[x] EXCEPT !.clean = FALSE]
    BY <1>1, <1>2, <1>5
  <2>2. QED
    BY <1>5, <2>1 DEF Job
<1>7. job'[w] = new /\ \A x \in Workers \ ({w} \cup Working(o.site)) : job'[x] = job[x]
  BY <1>1
<1>8. JobTypes'
  <2>1. \A x \in Workers : job'[x] \in Job \cup {Idle}
    BY <1>3, <1>6, <1>7 DEF IInv, JobTypes
  <2>2. job' \in [Workers -> Job \cup {Idle}]
    BY <1>1, <2>1
  <2>3. promise' \in [Sites -> Promises]
    BY <1>1 DEF IInv, JobTypes, Promises
  <2>4. QED
    BY <1>1, <2>2, <2>3 DEF IInv, JobTypes
<1>9. \A x \in Workers \ {w} : (Active(x)' <=> Active(x)) /\ (Active(x) => Site(x)' = Site(x))
  BY <1>5, <1>6, <1>7, JobIsNotIdle DEF Active, Site
<1>10. Active(w)' /\ Site(w)' = o.site
  BY <1>3, <1>4, <1>7, JobIsNotIdle DEF Active, Site
<1>11. Working(o.site)' = Working(o.site) \cup {w}
  BY <1>2, <1>9, <1>10 DEF Working
<1>12. \A s : s # o.site => Working(s)' = Working(s)
  BY <1>1, <1>9, <1>10 DEF Working
<1>13. ASSUME NEW x \in Workers, Active(x)', job'[x].clean
       PROVE  Working(Site(x))' = {x} /\ CleanJob(x)'
  <2>1. CASE x = w
    <3>1. Working(o.site) = {}
      BY <2>1, <1>4, <1>7, <1>13
    <3>2. Working(Site(x))' = {x}
      BY <2>1, <3>1, <1>10, <1>11
    <3>3. job'[x].step = 1
      BY <2>1, <1>4, <1>7
    <3>4. QED
      BY <3>2, <3>3 DEF CleanJob, Provisioned, Removed
  <2>2. CASE x # w
    <3>1. x \notin Working(o.site) /\ Active(x)
      BY <2>2, <1>6, <1>9, <1>13
    <3>2. job'[x] = job[x] /\ Site(x) # o.site /\ Site(x)' = Site(x)
      BY <2>2, <3>1, <1>7, <1>9 DEF Working
    <3>3. Working(Site(x)) = {x} /\ CleanJob(x)
      BY <3>1, <3>2, <1>13 DEF IInv, Alone, Progress
    <3>4. QED
      BY <3>2, <3>3, <1>1, <1>12 DEF CleanJob, Provisioned, Removed
  <2>3. QED
    BY <2>1, <2>2
<1>14. \A s \in Sites : promise'[s] # "unknown" => s # o.site /\ promise'[s] = promise[s]
  BY <1>1 DEF IInv, JobTypes
<1>15. Alone' /\ Quiet' /\ Progress'
  BY <1>12, <1>13, <1>14 DEF Alone, Quiet, Progress, IInv
<1>16. HostTypes' /\ KeptRunning'
  BY <1>1 DEF IInv, HostTypes, KeptRunning
<1>17. DoneIsWired' /\ TornDownIsGone'
  BY <1>1, <1>14 DEF IInv, DoneIsWired, TornDownIsGone
<1>18. ASSUME NEW s \in Sites, NEW p \in Ports, p \in Given(s)' PROVE p \in Given(s)
  <2>1. CASE p \in {vhost'[s], live'[s]}
    BY <2>1, <1>1 DEF Given
  <2>2. CASE p \in {job'[x].port : x \in Working(s)'}
    <3>1. PICK x \in Working(s)' : p = job'[x].port
      BY <2>2
    <3>2. x # w
      BY <3>1, <1>4, <1>7, NodeConstants
    <3>3. x \in Working(s) /\ job'[x].port = job[x].port
      BY <3>2, <1>6, <1>7, <1>9 DEF Working
    <3>4. QED
      BY <3>1, <3>3 DEF Given
  <2>3. QED
    BY <1>18, <2>1, <2>2 DEF Given
<1>19. Separate'
  BY <1>1, <1>18, SeparateKept DEF IInv, Uses, Assigned
<1>20. QED
  BY <1>8, <1>15, <1>16, <1>17, <1>19 DEF IInv

Ending ==
    /\ UNCHANGED <<has, env, vhost, live, up, listens, twice>>
    /\ job' \in [Workers -> Job \cup {Idle}]
    /\ \A x \in Workers : job'[x] \in {job[x], Idle}
    /\ done' \subseteq Orders /\ faults' \in 0..MaxFaults

\* Jobs that end leave the others, and what they hold, as they were.
LEMMA EndingKeeps ==
    ASSUME IInv, Ending, promise' \in [Sites -> Promises]
    PROVE  /\ HostTypes' /\ JobTypes' /\ KeptRunning' /\ Alone' /\ Progress' /\ Separate'
           /\ \A s : Working(s)' \subseteq Working(s)
<1> USE DEF Ending
<1>1. \A x \in Workers : Active(x)' => Active(x) /\ job'[x] = job[x] /\ Site(x)' = Site(x)
  BY DEF Active, Site
<1>2. ASSUME NEW s PROVE Working(s)' \subseteq Working(s)
  BY <1>1 DEF Working
<1>3. JobTypes' /\ HostTypes' /\ KeptRunning'
  BY DEF IInv, JobTypes, HostTypes, KeptRunning
<1>4. ASSUME NEW x \in Workers, Active(x)', job'[x].clean
      PROVE  Working(Site(x))' = {x} /\ CleanJob(x)'
  <2>1. Active(x) /\ job'[x] = job[x] /\ Site(x)' = Site(x)
    BY <1>1, <1>4
  <2>2. Working(Site(x)) = {x} /\ CleanJob(x)
    BY <1>4, <2>1 DEF IInv, Alone, Progress
  <2>3. x \in Working(Site(x))'
    BY <1>4 DEF Working
  <2>4. QED
    BY <1>2, <2>1, <2>2, <2>3 DEF CleanJob, Provisioned, Removed
<1>5. ASSUME NEW s \in Sites, NEW p \in Ports, p \in Given(s)' PROVE p \in Given(s)
  <2>1. CASE p \in {vhost'[s], live'[s]}
    BY <2>1 DEF Given
  <2>2. CASE p \in {job'[x].port : x \in Working(s)'}
    <3>1. PICK x \in Working(s)' : p = job'[x].port
      BY <2>2
    <3>2. x \in Working(s) /\ job'[x].port = job[x].port
      BY <1>1, <1>2 DEF Working
    <3>3. QED
      BY <3>1, <3>2 DEF Given
  <2>3. QED
    BY <1>5, <2>1, <2>2 DEF Given
<1>6. Separate'
  BY <1>5, SeparateKept DEF IInv, Uses, Assigned
<1>7. QED
  BY <1>2, <1>3, <1>4, <1>6 DEF Alone, Progress

\* A job that fails, and the death of the warden, promise nothing new.
LEMMA EndsIInv ==
    ASSUME IInv, Crash \/ \E w \in Workers : Refused(w) \/ Accident(w)
    PROVE  IInv'
<1> USE DEF nginxVars, processVars, hostVars
<1>1. Ending /\ promise' = promise
  BY NodeConstants DEF IInv, JobTypes, Ending, Crash, Refused, Accident
<1>2. promise' \in [Sites -> Promises]
  BY <1>1 DEF IInv, JobTypes
<1>3. /\ HostTypes' /\ JobTypes' /\ KeptRunning' /\ Alone' /\ Progress' /\ Separate'
      /\ \A s : Working(s)' \subseteq Working(s)
  BY <1>1, <1>2, EndingKeeps
<1>4. Quiet'
  BY <1>1, <1>3 DEF IInv, Quiet
<1>5. DoneIsWired' /\ TornDownIsGone'
  BY <1>1 DEF IInv, Ending, DoneIsWired, TornDownIsGone
<1>6. QED
  BY <1>3, <1>4, <1>5 DEF IInv

\* A clean job that is done has made of its site all that it promises.
LEMMA CleanDone ==
    ASSUME IInv, NEW w \in Workers, Active(w), Done(w), job[w].clean
    PROVE  /\ Working(Site(w)) = {w} /\ Site(w) \in Sites
           /\ job[w].order.request = "provision" =>
                /\ vhost[Site(w)] # 0 /\ vhost[Site(w)] = live[Site(w)] /\ up[Site(w)]
                /\ {"user", "slice", "account", "unit"} \subseteq has[Site(w)]
                /\ job[w].order.own = 0 => env[Site(w)] = vhost[Site(w)]
                /\ ~job[w].found => listens[Site(w)] \in {0, env[Site(w)]}
           /\ job[w].order.request = "deprovision" =>
                /\ ~up[Site(w)] /\ listens[Site(w)] = 0
                /\ vhost[Site(w)] = 0 /\ live[Site(w)] = 0
                /\ has[Site(w)] \subseteq {"docroot", "files"}
<1>1. Len(ProvisionNodeJS) = 14 /\ Len(DeprovisionNodeJS) = 7
  BY DEF ProvisionNodeJS, DeprovisionNodeJS
<1>2. /\ job[w].step \in 1..15 /\ job[w].order \in Orders /\ Site(w) \in Sites
      /\ job[w].order.request \in {"provision", "deprovision"}
  BY JobFacts DEF IInv, Job
<1>3. Chain[job[w].order] = IF job[w].order.request = "provision"
                            THEN ProvisionNodeJS ELSE DeprovisionNodeJS
  BY <1>2 DEF Chain
<1>4. CleanJob(w) /\ Working(Site(w)) = {w}
  BY DEF IInv, Progress, Alone
<1>5. ASSUME job[w].order.request = "provision"
      PROVE  /\ vhost[Site(w)] # 0 /\ vhost[Site(w)] = live[Site(w)] /\ up[Site(w)]
             /\ {"user", "slice", "account", "unit"} \subseteq has[Site(w)]
             /\ job[w].order.own = 0 => env[Site(w)] = vhost[Site(w)]
             /\ ~job[w].found => listens[Site(w)] \in {0, env[Site(w)]}
  <2>1. job[w].step > 14
    BY <1>1, <1>3, <1>5 DEF Done
  <2>2. job[w].step = 15
    BY <1>2, <2>1
  <2>3. QED
    BY <1>4, <1>5, <2>2 DEF CleanJob, Provisioned
<1>6. ASSUME job[w].order.request = "deprovision"
      PROVE  /\ ~up[Site(w)] /\ listens[Site(w)] = 0
             /\ vhost[Site(w)] = 0 /\ live[Site(w)] = 0
             /\ has[Site(w)] \subseteq {"docroot", "files"}
  <2>1. job[w].step > 7
    BY <1>1, <1>3, <1>6 DEF Done
  <2>2. Removed(Site(w), job[w].step)
    BY <1>4, <1>6 DEF CleanJob
  <2>3. /\ ~up[Site(w)] /\ vhost[Site(w)] = 0 /\ live[Site(w)] = 0
        /\ "unit" \notin has[Site(w)] /\ "slice" \notin has[Site(w)]
        /\ "account" \notin has[Site(w)] /\ "user" \notin has[Site(w)]
    BY <1>2, <2>1, <2>2 DEF Removed
  <2>4. has[Site(w)] \subseteq Resources
    BY <1>2 DEF IInv, HostTypes
  <2>5. QED
    BY <1>2, <2>3, <2>4 DEF IInv, KeptRunning, Resources
<1>7. QED
  BY <1>2, <1>4, <1>5, <1>6

\* DONE is reported, with what the job promises.
LEMMA FinishIInv ==
    ASSUME IInv, NEW w \in Workers, Finish(w)
    PROVE  IInv'
<1> USE DEF nginxVars, processVars, hostVars
<1>1. /\ Active(w) /\ Done(w) /\ job' = [job EXCEPT ![w] = Idle]
      /\ promise' = [promise EXCEPT ![Site(w)] = Outcome(w)]
      /\ UNCHANGED <<has, env, vhost, live, up, listens, twice, faults>>
      /\ done' = done \cup {job[w].order}
  BY DEF Finish
<1>2. /\ job[w].order \in Orders /\ Site(w) \in Sites
      /\ job[w].order.request \in {"provision", "deprovision"}
  BY <1>1, JobFacts DEF IInv
<1>3. Ending
  BY <1>1, <1>2 DEF IInv, JobTypes, Ending
<1>4. Outcome(w) \in Promises
  BY DEF Outcome, Promises
<1>5. promise' \in [Sites -> Promises]
  BY <1>1, <1>4 DEF IInv, JobTypes
<1>6. /\ HostTypes' /\ JobTypes' /\ KeptRunning' /\ Alone' /\ Progress' /\ Separate'
      /\ \A s : Working(s)' \subseteq Working(s)
  BY <1>3, <1>5, EndingKeeps
<1>7. /\ promise'[Site(w)] = Outcome(w)
      /\ \A s \in Sites \ {Site(w)} : promise'[s] = promise[s]
  BY <1>1, <1>2 DEF IInv, JobTypes
<1>8. Outcome(w) # "unknown" => job[w].clean
  BY DEF Outcome
<1>9. \A s : w \notin Working(s)'
  BY <1>1 DEF IInv, JobTypes, Working, Active
<1>10. Quiet'
  <2> SUFFICES ASSUME NEW s \in Sites, promise'[s] # "unknown" PROVE Working(s)' = {}
    BY DEF Quiet
  <2>1. CASE s = Site(w)
    <3>1. Working(s) = {w}
      BY <2>1, <1>1, <1>7, <1>8 DEF IInv, Alone
    <3>2. QED
      BY <2>1, <3>1, <1>6, <1>9
  <2>2. CASE s # Site(w)
    BY <2>2, <1>6, <1>7 DEF IInv, Quiet
  <2>3. QED
    BY <2>1, <2>2
<1>11. DoneIsWired'
  <2> SUFFICES ASSUME NEW s \in Sites, promise'[s] \in {"wired", "stale", "diverted"}
               PROVE  /\ vhost[s] # 0 /\ vhost[s] = live[s] /\ up[s]
                      /\ {"user", "slice", "account", "unit"} \subseteq has[s]
                      /\ promise'[s] # "diverted" => env[s] = vhost[s]
                      /\ promise'[s] = "wired" => listens[s] \in {0, env[s]}
    BY <1>1 DEF DoneIsWired
  <2>1. CASE s = Site(w)
    <3>1. job[w].clean /\ job[w].order.request = "provision"
      BY <2>1, <1>2, <1>7 DEF Outcome
    <3>2. /\ promise'[s] = "wired" => ~job[w].found
          /\ promise'[s] # "diverted" => job[w].order.own = 0
      BY <2>1, <3>1, <1>7 DEF Outcome
    <3>3. QED
      BY <2>1, <3>1, <3>2, <1>1, CleanDone
  <2>2. CASE s # Site(w)
    BY <2>2, <1>7 DEF IInv, DoneIsWired
  <2>3. QED
    BY <2>1, <2>2
<1>12. TornDownIsGone'
  <2> SUFFICES ASSUME NEW s \in Sites, promise'[s] = "gone"
               PROVE  /\ ~up[s] /\ listens[s] = 0 /\ vhost[s] = 0 /\ live[s] = 0
                      /\ has[s] \subseteq {"docroot", "files"}
    BY <1>1 DEF TornDownIsGone
  <2>1. CASE s = Site(w)
    <3>1. job[w].clean /\ job[w].order.request = "deprovision"
      BY <2>1, <1>2, <1>7 DEF Outcome
    <3>2. QED
      BY <2>1, <3>1, <1>1, CleanDone
  <2>2. CASE s # Site(w)
    BY <2>2, <1>7 DEF IInv, TornDownIsGone
  <2>3. QED
    BY <2>1, <2>2
<1>13. QED
  BY <1>6, <1>10, <1>11, <1>12 DEF IInv

\* A process that starts binds the port that .env assigns to its site; one
\* that dies has none.
LEMMA ProcessIInv ==
    ASSUME IInv, NEW s \in Sites, Bind(s) \/ ProcessDies(s)
    PROVE  IInv'
<1> USE DEF nginxVars, processVars, hostVars
<1>1. /\ UNCHANGED <<has, env, vhost, live, up, job, done, twice, promise>>
      /\ \/ up[s] /\ env[s] # 0 /\ listens' = [listens EXCEPT ![s] = env[s]]
         \/ listens' = [listens EXCEPT ![s] = 0]
      /\ faults' = faults \/ (faults < MaxFaults /\ faults' = faults + 1)
  BY DEF Bind, ProcessDies
<1>2. /\ \A t \in Sites \ {s} : listens'[t] = listens[t]
      /\ listens'[s] = 0 \/ (listens'[s] = env[s] /\ up[s])
      /\ listens' \in [Sites -> Numbers]
  BY <1>1 DEF IInv, HostTypes, Numbers
<1>3. HostTypes' /\ JobTypes' /\ KeptRunning'
  BY <1>1, <1>2, NodeConstants DEF IInv, HostTypes, JobTypes, KeptRunning
<1>4. Alone' /\ Quiet'
  BY <1>1 DEF IInv, Alone, Quiet, Active, Working, Site
<1>5. Progress'
  <2> SUFFICES ASSUME NEW w \in Workers, Active(w), job[w].clean PROVE CleanJob(w)'
    BY <1>1 DEF Progress, Active
  <2>1. CleanJob(w) /\ Site(w) \in Sites /\ job[w].step \in 1..15 /\ Site(w)' = Site(w)
    BY <1>1, JobFacts DEF IInv, Progress, Job, Site
  <2>2. listens'[Site(w)] \in {0, env[Site(w)], listens[Site(w)]}
    BY <1>2, <2>1
  <2>3. QED
    BY <1>1, <2>1, <2>2 DEF CleanJob, Provisioned, Removed
<1>6. DoneIsWired' /\ TornDownIsGone'
  BY <1>1, <1>2 DEF IInv, DoneIsWired, TornDownIsGone
<1>7. Separate'
  <2>1. \A t : Assigned(t)' = Assigned(t) /\ Given(t)' = Given(t)
    BY <1>1 DEF Assigned, Given, Working, Active, Site
  <2>2. ASSUME NEW t \in Sites, NEW p \in Ports, p \in Uses(t)' PROVE p \in Uses(t)
    BY <1>2, <2>1, <2>2, NodeConstants DEF Uses, Assigned
  <2>3. QED
    BY <1>1, <2>1, <2>2, SeparateKept DEF IInv
<1>8. QED
  BY <1>3, <1>4, <1>5, <1>6, <1>7 DEF IInv

-----------------------------------------------------------------------------
(* The theorems.                                                           *)

\* A host without sites satisfies the inductive invariant.
LEMMA InitIInv == Init => IInv
<1> SUFFICES ASSUME Init PROVE IInv
  OBVIOUS
<1>1. HostTypes /\ KeptRunning
  BY DEF Init, HostTypes, KeptRunning, Numbers
<1>2. JobTypes
  BY NodeConstants DEF Init, JobTypes, Promises
<1>3. \A w \in Workers : ~Active(w)
  BY DEF Init, Active
<1>4. \A s : Working(s) = {}
  BY <1>3 DEF Working
<1>5. Alone /\ Quiet /\ Progress
  BY <1>3, <1>4 DEF Alone, Quiet, Progress
<1>6. DoneIsWired /\ TornDownIsGone
  BY DEF Init, DoneIsWired, TornDownIsGone
<1>7. \A s \in Sites, p \in Ports : p \notin Given(s)
  BY <1>4, NodeConstants DEF Init, Given
<1>8. QED
  BY <1>1, <1>2, <1>5, <1>6, <1>7 DEF IInv, Separate

\* Every step keeps the inductive invariant.
LEMMA NextIInv == IInv /\ [Next]_vars => IInv'
<1> SUFFICES ASSUME IInv, [Next]_vars PROVE IInv'
  OBVIOUS
<1>1. ASSUME NEW w \in Workers, ProvisionStep(w) PROVE IInv'
  BY <1>1, MakesIInv, IdleStepIInv, AllocateIInv, EnvIInv, VhostIInv, EnableIInv,
     ReloadIInv DEF ProvisionStep
<1>2. ASSUME NEW w \in Workers, TeardownStep(w) PROVE IInv'
  BY <1>2, DisableIInv, DropsIInv, RemoveVhostIInv, UncleanIInv DEF TeardownStep
<1>3. ASSUME NEW w \in Workers, JobStep(w) \/ Accident(w) \/ Overlooked(w) PROVE IInv'
  BY <1>1, <1>2, <1>3, EndsIInv, FinishIInv, UncleanIInv DEF JobStep
<1>4. CASE UNCHANGED vars
  <2>1. UNCHANGED <<has, env, vhost, live, up, listens, job, done, twice, promise, faults>>
    BY <1>4 DEF vars, hostVars, nginxVars, processVars
  <2>2. \A s : /\ Working(s)' = Working(s)
              /\ Assigned(s)' = Assigned(s) /\ Given(s)' = Given(s)
    BY <2>1 DEF Working, Assigned, Given, Active, Site
  <2>3. HostTypes' /\ JobTypes' /\ KeptRunning' /\ DoneIsWired' /\ TornDownIsGone'
    BY <2>1 DEF IInv, HostTypes, JobTypes, KeptRunning, DoneIsWired, TornDownIsGone
  <2>4. Alone' /\ Quiet' /\ Progress' /\ Separate'
    BY <2>1, <2>2 DEF IInv, Alone, Quiet, Progress, Separate, Uses, CleanJob,
       Provisioned, Removed, Active, Site
  <2>5. QED
    BY <2>3, <2>4 DEF IInv
<1>5. QED
  BY <1>3, <1>4, StartIInv, EndsIInv, ProcessIInv DEF Next

\* Every state that can be reached satisfies the inductive invariant.
THEOREM Invariance == Spec => []IInv
BY InitIInv, NextIInv, PTL DEF Spec

\* The variables have their types.
THEOREM TypeCorrect == Spec => []TypeOK
<1>1. IInv => TypeOK
  BY DEF IInv, HostTypes, JobTypes, TypeOK
<1>2. QED
  BY <1>1, Invariance, PTL

\* A provisioning reported DONE, alone on its site, leaves the vhost and the
\* running Nginx with one port, and .env too unless the customer set PORT.
THEOREM Wired == Spec => []DoneIsWired
<1>1. IInv => DoneIsWired
  BY DEF IInv
<1>2. QED
  BY <1>1, Invariance, PTL

\* A teardown none of whose commands failed leaves nothing that runs or that
\* Nginx forwards to.
THEOREM TornDown == Spec => []TornDownIsGone
<1>1. IInv => TornDownIsGone
  BY DEF IInv
<1>2. QED
  BY <1>1, Invariance, PTL

\* Nginx forwards a domain to the program of another site only at a port that
\* was given out again while a site it was assigned to had not bound it, or that
\* the other site's customer set as its PORT.
THEOREM NoForeignProgram == Spec => []OwnProgram
<1>1. IInv => OwnProgram
  <2> SUFFICES ASSUME IInv, NEW s \in Sites, NEW t \in Sites,
                      live[s] # 0, t # s, listens[t] = live[s]
               PROVE  live[s] \in twice \cup OwnPorts(t)
    BY DEF OwnProgram
  <2>1. live[s] \in Ports /\ live[s] \in Given(s) /\ live[s] \in Uses(t)
    BY DEF IInv, HostTypes, Given, Uses
  <2>2. QED
    BY <2>1 DEF IInv, Separate
<1>2. QED
  BY <1>1, Invariance, PTL
=============================================================================
