------------------------ MODULE SiteLifecycleProofs -------------------------
(***************************************************************************)
(* Theorems about SiteLifecycle, for any sites, versions, orders and       *)
(* goroutines and any number of accidents.                                 *)
(***************************************************************************)
EXTENDS SiteLifecycle, TLAPS

HostTypes ==
    /\ user \in [Sites -> BOOLEAN] /\ docroot \in [Sites -> BOOLEAN]
    /\ conf \in [Sites -> BOOLEAN] /\ slice \in [Sites -> BOOLEAN]
    /\ unit \in [Sites -> Versions \cup {None}]
    /\ service \in [Sites -> Versions \cup {None}]
    /\ vhost \in [Sites -> {"none", "torn", "good", "bad"}]
    /\ suspended \in [Sites -> {"none", "good", "bad"}]
    /\ live \in [Sites -> BOOLEAN]
    /\ account \in [Sites -> BOOLEAN] /\ creds \in [Sites -> Password]

JobTypes ==
    /\ job \in [Workers -> Job \cup {Idle}]
    /\ done \subseteq Orders
    /\ promise \in [Sites -> Promises]
    /\ faults \in 0..MaxFaults

(* A clean job is the only one of its site, and while anything is promised *)
(* of a site no job works on it.                                           *)
Alone == \A w \in Workers : Active(w) /\ job[w].clean => Working(Site(w)) = {w}
Quiet == \A s \in Sites : promise[s] # "unknown" => Working(s) = {}

(* What a clean job has made of its site, by how far it has come.          *)
Provisioned(s, n, pw) ==
    /\ n > 1 => user[s]
    /\ n > 2 => docroot[s]
    /\ n > 3 => conf[s]
    /\ n > 4 => unit[s] # None
    /\ n > 6 => vhost[s] \in {"good", "bad"}
    /\ n > 7 => vhost[s] = "good"
    /\ n > 8 => slice[s]
    /\ n > 9 => account[s] /\ pw # "none"
    /\ n > 10 => creds[s] # "none"
    /\ n > 11 => service[s] # None
    /\ n > 13 => live[s]

(* A switch keeps a site that was served, and gets nowhere with one that   *)
(* was torn down: the service may be down only before the socket is seen.  *)
Switched(s, n, was) ==
    /\ was = "serving" =>
          /\ user[s] /\ docroot[s] /\ conf[s] /\ slice[s] /\ unit[s] # None
          /\ vhost[s] = "good" /\ live[s] /\ account[s] /\ creds[s] # "none"
          /\ n # 4 => service[s] # None
    /\ was = "gone" => n = 1 /\ ~user[s]

Removed(s, n) ==
    /\ n > 1 => unit[s] = None /\ service[s] = None
    /\ n > 3 => vhost[s] = "none"
    /\ n > 4 => ~live[s]
    /\ n > 5 => ~slice[s]
    /\ n > 6 => ~account[s]
    /\ n > 7 => ~user[s]

RemovedNode(s, n) ==
    /\ unit[s] = None
    /\ n > 1 => vhost[s] = "none"
    /\ n > 2 => ~slice[s] /\ service[s] = None
    /\ n > 3 => ~account[s]
    /\ n > 4 => ~user[s]
    /\ n > 5 => ~live[s]

CleanJob(w) ==
    /\ job[w].chain = "provision" => Provisioned(Site(w), job[w].step, job[w].pw)
    /\ job[w].chain = "switch" => Switched(Site(w), job[w].step, job[w].was)
    /\ job[w].chain = "deprovision" => Removed(Site(w), job[w].step)
    /\ job[w].chain = "nodeDeprovision" => RemovedNode(Site(w), job[w].step)

Progress == \A w \in Workers : Active(w) /\ job[w].clean => CleanJob(w)

(* What is promised is the case.                                           *)
Kept(s) ==
    /\ promise[s] = "serving" => Serving(s)
    /\ promise[s] = "gone" => Gone(s)
Standing == \A s \in Sites : Kept(s)

IInv == HostTypes /\ JobTypes /\ Alone /\ Quiet /\ Progress /\ Standing

-----------------------------------------------------------------------------
(* The places of the steps in their chains.                                *)

On(w, chain, n) == Active(w) /\ job[w].chain = chain /\ job[w].step = n

\* A job that is under way is a record with an order of a site.
LEMMA JobFacts ==
    ASSUME JobTypes, NEW w \in Workers, Active(w)
    PROVE  /\ job[w] \in Job /\ job[w].order \in Orders /\ Site(w) \in Sites
           /\ job[w].order.version \in Versions
           /\ job[w].chain \in {"provision", "switch", "deprovision", "nodeDeprovision",
                                "suspend", "unsuspend"}
<1>1. job[w] \in Job
  BY DEF JobTypes, Active
<1>2. job[w].order \in Orders /\ job[w].chain \in DOMAIN Chain
  BY <1>1 DEF Job
<1>3. QED
  BY <1>1, <1>2, SiteConstants DEF Order, Site, Chain

\* How long the chains are, and what stands where in them.
LEMMA Chains ==
    /\ Len(Chain.provision) = 13
    /\ Chain.provision[1] = "user" /\ Chain.provision[2] = "docroot"
    /\ Chain.provision[3] = "conf" /\ Chain.provision[4] = "unit"
    /\ Chain.provision[5] = "open vhost" /\ Chain.provision[6] = "fill vhost"
    /\ Chain.provision[7] = "test" /\ Chain.provision[8] = "limits"
    /\ Chain.provision[9] = "database" /\ Chain.provision[10] = "credentials"
    /\ Chain.provision[11] = "enable" /\ Chain.provision[12] = "socket"
    /\ Chain.provision[13] = "reload"
    /\ Len(Chain.switch) = 4
    /\ Chain.switch[1] = "conf" /\ Chain.switch[2] = "unit"
    /\ Chain.switch[3] = "restart" /\ Chain.switch[4] = "socket"
    /\ Len(Chain.deprovision) = 7
    /\ Chain.deprovision[1] = "stop" /\ Chain.deprovision[2] = "drop conf"
    /\ Chain.deprovision[3] = "drop vhost"
    /\ Chain.deprovision[4] = "try reload"
    /\ Chain.deprovision[5] = "drop limits"
    /\ Chain.deprovision[6] = "drop database"
    /\ Chain.deprovision[7] = "drop user"
    /\ Len(Chain.nodeDeprovision) = 5
    /\ Chain.nodeDeprovision[1] = "drop vhost"
    /\ Chain.nodeDeprovision[2] = "drop limits"
    /\ Chain.nodeDeprovision[3] = "drop database"
    /\ Chain.nodeDeprovision[4] = "drop user"
    /\ Chain.nodeDeprovision[5] = "try reload"
    /\ Len(Chain.suspend) = 2
    /\ Chain.suspend[1] = "suspend" /\ Chain.suspend[2] = "reload"
    /\ Len(Chain.unsuspend) = 2
    /\ Chain.unsuspend[1] = "unsuspend" /\ Chain.unsuspend[2] = "reload"
BY DEF Chain, ProvisionSite, SwitchPHPVersion, DeprovisionSite, DeprovisionNodeJS

\* The chain of a job, and when it is done with it.
LEMMA Position ==
    ASSUME JobTypes, NEW w \in Workers, Active(w)
    PROVE  /\ job[w].chain = "provision" =>
                Chain[job[w].chain] = Chain.provision /\ (Done(w) <=> job[w].step > 13)
           /\ job[w].chain = "switch" =>
                Chain[job[w].chain] = Chain.switch /\ (Done(w) <=> job[w].step > 4)
           /\ job[w].chain = "deprovision" =>
                Chain[job[w].chain] = Chain.deprovision /\ (Done(w) <=> job[w].step > 7)
           /\ job[w].chain = "nodeDeprovision" =>
                Chain[job[w].chain] = Chain.nodeDeprovision /\ (Done(w) <=> job[w].step > 5)
           /\ job[w].chain = "suspend" =>
                Chain[job[w].chain] = Chain.suspend /\ (Done(w) <=> job[w].step > 2)
           /\ job[w].chain = "unsuspend" =>
                Chain[job[w].chain] = Chain.unsuspend /\ (Done(w) <=> job[w].step > 2)
<1>1. CASE job[w].chain = "provision"
  <2>1. Chain[job[w].chain] = Chain.provision
    BY <1>1
  <2>2. QED
    BY <1>1, <2>1, Chains DEF Done
<1>2. CASE job[w].chain = "switch"
  <2>1. Chain[job[w].chain] = Chain.switch
    BY <1>2
  <2>2. QED
    BY <1>2, <2>1, Chains DEF Done
<1>3. CASE job[w].chain = "deprovision"
  <2>1. Chain[job[w].chain] = Chain.deprovision
    BY <1>3
  <2>2. QED
    BY <1>3, <2>1, Chains DEF Done
<1>4. CASE job[w].chain = "nodeDeprovision"
  <2>1. Chain[job[w].chain] = Chain.nodeDeprovision
    BY <1>4
  <2>2. QED
    BY <1>4, <2>1, Chains DEF Done
<1>5. CASE job[w].chain = "suspend"
  <2>1. Chain[job[w].chain] = Chain.suspend
    BY <1>5
  <2>2. QED
    BY <1>5, <2>1, Chains DEF Done
<1>6. CASE job[w].chain = "unsuspend"
  <2>1. Chain[job[w].chain] = Chain.unsuspend
    BY <1>6
  <2>2. QED
    BY <1>6, <2>1, Chains DEF Done
<1>7. QED
  BY <1>1, <1>2, <1>3, <1>4, <1>5, <1>6, JobFacts

\* Which jobs can be at a step of provisioning, and how far they have come.
LEMMA Places ==
    ASSUME JobTypes, NEW w \in Workers
    PROVE  /\ At(w, "user") => On(w, "provision", 1)
           /\ At(w, "docroot") => On(w, "provision", 2)
           /\ At(w, "conf") => On(w, "provision", 3) \/ On(w, "switch", 1)
           /\ At(w, "unit") => On(w, "provision", 4) \/ On(w, "switch", 2)
           /\ At(w, "open vhost") => On(w, "provision", 5)
           /\ At(w, "fill vhost") => On(w, "provision", 6)
           /\ At(w, "test") => On(w, "provision", 7)
           /\ At(w, "limits") => On(w, "provision", 8)
           /\ At(w, "database") => On(w, "provision", 9)
           /\ At(w, "credentials") => On(w, "provision", 10)
           /\ At(w, "enable") => On(w, "provision", 11)
           /\ At(w, "socket") => On(w, "provision", 12) \/ On(w, "switch", 4)
           /\ At(w, "reload") =>
                On(w, "provision", 13) \/ On(w, "suspend", 2) \/ On(w, "unsuspend", 2)
<1>1. CASE ~Active(w) \/ Done(w)
  BY <1>1 DEF At
<1>2. CASE Active(w) /\ ~Done(w) /\ job[w].chain = "provision"
  <2>1. \/ job[w].step = 1 \/ job[w].step = 2 \/ job[w].step = 3 \/ job[w].step = 4
        \/ job[w].step = 5 \/ job[w].step = 6 \/ job[w].step = 7 \/ job[w].step = 8
        \/ job[w].step = 9 \/ job[w].step = 10 \/ job[w].step = 11 \/ job[w].step = 12
        \/ job[w].step = 13
    <3>1. ~(job[w].step > 13) /\ job[w].step \in 1..14
      BY <1>2, Position, JobFacts DEF Job
    <3>2. QED
      BY <3>1
  <2> DEFINE name == Chain.provision[job[w].step]
  <2>2. \A x : At(w, x) => name = x
    BY <1>2 DEF At
  <2>3. /\ name = "user" => job[w].step = 1
        /\ name = "docroot" => job[w].step = 2
        /\ name = "conf" => job[w].step = 3
        /\ name = "unit" => job[w].step = 4
        /\ name = "open vhost" => job[w].step = 5
        /\ name = "fill vhost" => job[w].step = 6
        /\ name = "test" => job[w].step = 7
        /\ name = "limits" => job[w].step = 8
        /\ name = "database" => job[w].step = 9
        /\ name = "credentials" => job[w].step = 10
        /\ name = "enable" => job[w].step = 11
        /\ name = "socket" => job[w].step = 12
        /\ name = "reload" => job[w].step = 13
    BY <2>1, Chains
  <2> HIDE DEF name
  <2>4. /\ At(w, "user") => On(w, "provision", 1)
        /\ At(w, "docroot") => On(w, "provision", 2)
        /\ At(w, "conf") => On(w, "provision", 3)
        /\ At(w, "unit") => On(w, "provision", 4)
        /\ At(w, "open vhost") => On(w, "provision", 5)
    BY <1>2, <2>2, <2>3 DEF On
  <2>5. /\ At(w, "fill vhost") => On(w, "provision", 6)
        /\ At(w, "test") => On(w, "provision", 7)
        /\ At(w, "limits") => On(w, "provision", 8)
        /\ At(w, "database") => On(w, "provision", 9)
        /\ At(w, "credentials") => On(w, "provision", 10)
    BY <1>2, <2>2, <2>3 DEF On
  <2>6. /\ At(w, "enable") => On(w, "provision", 11)
        /\ At(w, "socket") => On(w, "provision", 12)
        /\ At(w, "reload") => On(w, "provision", 13)
    BY <1>2, <2>2, <2>3 DEF On
  <2>7. QED
    BY <2>4, <2>5, <2>6
<1>3. CASE Active(w) /\ ~Done(w) /\ job[w].chain = "switch"
  <2>1. job[w].step = 1 \/ job[w].step = 2 \/ job[w].step = 3 \/ job[w].step = 4
    <3>1. ~(job[w].step > 4) /\ job[w].step \in 1..14
      BY <1>3, Position, JobFacts DEF Job
    <3>2. QED
      BY <3>1
  <2> DEFINE name == Chain.switch[job[w].step]
  <2>2. \A x : At(w, x) => name = x
    BY <1>3 DEF At
  <2>3. /\ name = "conf" => job[w].step = 1
        /\ name = "unit" => job[w].step = 2
        /\ name = "socket" => job[w].step = 4
        /\ name \notin
              {"user", "docroot", "open vhost", "fill vhost", "test", "limits",
               "database", "credentials", "enable", "reload"}
    BY <2>1, Chains
  <2> HIDE DEF name
  <2>4. QED
    BY <1>3, <2>2, <2>3 DEF On
<1>4. CASE Active(w) /\ ~Done(w) /\ job[w].chain = "deprovision"
  <2>1. \/ job[w].step = 1 \/ job[w].step = 2 \/ job[w].step = 3 \/ job[w].step = 4
        \/ job[w].step = 5 \/ job[w].step = 6 \/ job[w].step = 7
    <3>1. ~(job[w].step > 7) /\ job[w].step \in 1..14
      BY <1>4, Position, JobFacts DEF Job
    <3>2. QED
      BY <3>1
  <2> DEFINE name == Chain.deprovision[job[w].step]
  <2>2. \A x : At(w, x) => name = x
    BY <1>4 DEF At
  <2>3. name \notin
              {"user", "docroot", "conf", "unit", "open vhost", "fill vhost",
               "test", "limits", "database", "credentials", "enable", "socket",
               "reload"}
    BY <2>1, Chains
  <2> HIDE DEF name
  <2>4. QED
    BY <1>4, <2>2, <2>3 DEF On
<1>5. CASE Active(w) /\ ~Done(w) /\ job[w].chain = "nodeDeprovision"
  <2>1. \/ job[w].step = 1 \/ job[w].step = 2 \/ job[w].step = 3 \/ job[w].step = 4
        \/ job[w].step = 5
    <3>1. ~(job[w].step > 5) /\ job[w].step \in 1..14
      BY <1>5, Position, JobFacts DEF Job
    <3>2. QED
      BY <3>1
  <2> DEFINE name == Chain.nodeDeprovision[job[w].step]
  <2>2. \A x : At(w, x) => name = x
    BY <1>5 DEF At
  <2>3. name \notin
              {"user", "docroot", "conf", "unit", "open vhost", "fill vhost",
               "test", "limits", "database", "credentials", "enable", "socket",
               "reload"}
    BY <2>1, Chains
  <2> HIDE DEF name
  <2>4. QED
    BY <1>5, <2>2, <2>3 DEF On
<1>6. CASE Active(w) /\ ~Done(w) /\ job[w].chain = "suspend"
  <2>1. job[w].step = 1 \/ job[w].step = 2
    <3>1. ~(job[w].step > 2) /\ job[w].step \in 1..14
      BY <1>6, Position, JobFacts DEF Job
    <3>2. QED
      BY <3>1
  <2> DEFINE name == Chain.suspend[job[w].step]
  <2>2. \A x : At(w, x) => name = x
    BY <1>6 DEF At
  <2>3. /\ name = "reload" => job[w].step = 2
        /\ name \notin
              {"user", "docroot", "conf", "unit", "open vhost", "fill vhost",
               "test", "limits", "database", "credentials", "enable", "socket"}
    BY <2>1, Chains
  <2> HIDE DEF name
  <2>4. QED
    BY <1>6, <2>2, <2>3 DEF On
<1>7. CASE Active(w) /\ ~Done(w) /\ job[w].chain = "unsuspend"
  <2>1. job[w].step = 1 \/ job[w].step = 2
    <3>1. ~(job[w].step > 2) /\ job[w].step \in 1..14
      BY <1>7, Position, JobFacts DEF Job
    <3>2. QED
      BY <3>1
  <2> DEFINE name == Chain.unsuspend[job[w].step]
  <2>2. \A x : At(w, x) => name = x
    BY <1>7 DEF At
  <2>3. /\ name = "reload" => job[w].step = 2
        /\ name \notin
              {"user", "docroot", "conf", "unit", "open vhost", "fill vhost",
               "test", "limits", "database", "credentials", "enable", "socket"}
    BY <2>1, Chains
  <2> HIDE DEF name
  <2>4. QED
    BY <1>7, <2>2, <2>3 DEF On
<1>8. QED
  BY <1>1, <1>2, <1>3, <1>4, <1>5, <1>6, <1>7, JobFacts

\* The same of the other steps.
LEMMA OtherPlaces ==
    ASSUME JobTypes, NEW w \in Workers
    PROVE  /\ At(w, "restart") => On(w, "switch", 3)
           /\ At(w, "stop") => On(w, "deprovision", 1)
           /\ At(w, "drop conf") => On(w, "deprovision", 2)
           /\ At(w, "drop vhost") =>
                On(w, "deprovision", 3) \/ On(w, "nodeDeprovision", 1)
           /\ At(w, "try reload") =>
                On(w, "deprovision", 4) \/ On(w, "nodeDeprovision", 5)
           /\ At(w, "drop limits") =>
                On(w, "deprovision", 5) \/ On(w, "nodeDeprovision", 2)
           /\ At(w, "drop database") =>
                On(w, "deprovision", 6) \/ On(w, "nodeDeprovision", 3)
           /\ At(w, "drop user") =>
                On(w, "deprovision", 7) \/ On(w, "nodeDeprovision", 4)
           /\ At(w, "suspend") => On(w, "suspend", 1)
           /\ At(w, "unsuspend") => On(w, "unsuspend", 1)
<1>1. CASE ~Active(w) \/ Done(w)
  BY <1>1 DEF At
<1>2. CASE Active(w) /\ ~Done(w) /\ job[w].chain = "provision"
  <2>1. \/ job[w].step = 1 \/ job[w].step = 2 \/ job[w].step = 3 \/ job[w].step = 4
        \/ job[w].step = 5 \/ job[w].step = 6 \/ job[w].step = 7 \/ job[w].step = 8
        \/ job[w].step = 9 \/ job[w].step = 10 \/ job[w].step = 11 \/ job[w].step = 12
        \/ job[w].step = 13
    <3>1. ~(job[w].step > 13) /\ job[w].step \in 1..14
      BY <1>2, Position, JobFacts DEF Job
    <3>2. QED
      BY <3>1
  <2> DEFINE name == Chain.provision[job[w].step]
  <2>2. \A x : At(w, x) => name = x
    BY <1>2 DEF At
  <2>3. name \notin
              {"restart", "stop", "drop conf", "drop vhost", "try reload",
               "drop limits", "drop database", "drop user", "suspend", "unsuspend"}
    BY <2>1, Chains
  <2> HIDE DEF name
  <2>4. QED
    BY <1>2, <2>2, <2>3 DEF On
<1>3. CASE Active(w) /\ ~Done(w) /\ job[w].chain = "switch"
  <2>1. job[w].step = 1 \/ job[w].step = 2 \/ job[w].step = 3 \/ job[w].step = 4
    <3>1. ~(job[w].step > 4) /\ job[w].step \in 1..14
      BY <1>3, Position, JobFacts DEF Job
    <3>2. QED
      BY <3>1
  <2> DEFINE name == Chain.switch[job[w].step]
  <2>2. \A x : At(w, x) => name = x
    BY <1>3 DEF At
  <2>3. /\ name = "restart" => job[w].step = 3
        /\ name \notin
              {"stop", "drop conf", "drop vhost", "try reload", "drop limits",
               "drop database", "drop user", "suspend", "unsuspend"}
    BY <2>1, Chains
  <2> HIDE DEF name
  <2>4. QED
    BY <1>3, <2>2, <2>3 DEF On
<1>4. CASE Active(w) /\ ~Done(w) /\ job[w].chain = "deprovision"
  <2>1. \/ job[w].step = 1 \/ job[w].step = 2 \/ job[w].step = 3 \/ job[w].step = 4
        \/ job[w].step = 5 \/ job[w].step = 6 \/ job[w].step = 7
    <3>1. ~(job[w].step > 7) /\ job[w].step \in 1..14
      BY <1>4, Position, JobFacts DEF Job
    <3>2. QED
      BY <3>1
  <2> DEFINE name == Chain.deprovision[job[w].step]
  <2>2. \A x : At(w, x) => name = x
    BY <1>4 DEF At
  <2>3. /\ name = "stop" => job[w].step = 1
        /\ name = "drop conf" => job[w].step = 2
        /\ name = "drop vhost" => job[w].step = 3
        /\ name = "try reload" => job[w].step = 4
        /\ name = "drop limits" => job[w].step = 5
        /\ name = "drop database" => job[w].step = 6
        /\ name = "drop user" => job[w].step = 7
        /\ name \notin
              {"restart", "suspend", "unsuspend"}
    BY <2>1, Chains
  <2> HIDE DEF name
  <2>4. QED
    BY <1>4, <2>2, <2>3 DEF On
<1>5. CASE Active(w) /\ ~Done(w) /\ job[w].chain = "nodeDeprovision"
  <2>1. \/ job[w].step = 1 \/ job[w].step = 2 \/ job[w].step = 3 \/ job[w].step = 4
        \/ job[w].step = 5
    <3>1. ~(job[w].step > 5) /\ job[w].step \in 1..14
      BY <1>5, Position, JobFacts DEF Job
    <3>2. QED
      BY <3>1
  <2> DEFINE name == Chain.nodeDeprovision[job[w].step]
  <2>2. \A x : At(w, x) => name = x
    BY <1>5 DEF At
  <2>3. /\ name = "drop vhost" => job[w].step = 1
        /\ name = "drop limits" => job[w].step = 2
        /\ name = "drop database" => job[w].step = 3
        /\ name = "drop user" => job[w].step = 4
        /\ name = "try reload" => job[w].step = 5
        /\ name \notin
              {"restart", "stop", "drop conf", "suspend", "unsuspend"}
    BY <2>1, Chains
  <2> HIDE DEF name
  <2>4. QED
    BY <1>5, <2>2, <2>3 DEF On
<1>6. CASE Active(w) /\ ~Done(w) /\ job[w].chain = "suspend"
  <2>1. job[w].step = 1 \/ job[w].step = 2
    <3>1. ~(job[w].step > 2) /\ job[w].step \in 1..14
      BY <1>6, Position, JobFacts DEF Job
    <3>2. QED
      BY <3>1
  <2> DEFINE name == Chain.suspend[job[w].step]
  <2>2. \A x : At(w, x) => name = x
    BY <1>6 DEF At
  <2>3. /\ name = "suspend" => job[w].step = 1
        /\ name \notin
              {"restart", "stop", "drop conf", "drop vhost", "try reload",
               "drop limits", "drop database", "drop user", "unsuspend"}
    BY <2>1, Chains
  <2> HIDE DEF name
  <2>4. QED
    BY <1>6, <2>2, <2>3 DEF On
<1>7. CASE Active(w) /\ ~Done(w) /\ job[w].chain = "unsuspend"
  <2>1. job[w].step = 1 \/ job[w].step = 2
    <3>1. ~(job[w].step > 2) /\ job[w].step \in 1..14
      BY <1>7, Position, JobFacts DEF Job
    <3>2. QED
      BY <3>1
  <2> DEFINE name == Chain.unsuspend[job[w].step]
  <2>2. \A x : At(w, x) => name = x
    BY <1>7 DEF At
  <2>3. /\ name = "unsuspend" => job[w].step = 1
        /\ name \notin
              {"restart", "stop", "drop conf", "drop vhost", "try reload",
               "drop limits", "drop database", "drop user", "suspend"}
    BY <2>1, Chains
  <2> HIDE DEF name
  <2>4. QED
    BY <1>7, <2>2, <2>3 DEF On
<1>8. QED
  BY <1>1, <1>2, <1>3, <1>4, <1>5, <1>6, <1>7, JobFacts

\* A job that is not done has at most the last step of the longest chain ahead.
LEMMA NotDone ==
    ASSUME JobTypes, NEW w \in Workers, Active(w), ~Done(w)
    PROVE  job[w].step \in 1..13
<1>1. job[w].step \in 1..14
  BY JobFacts DEF Job
<1>2. ~(job[w].step > 13) \/ ~(job[w].step > 7) \/ ~(job[w].step > 5)
      \/ ~(job[w].step > 4) \/ ~(job[w].step > 2)
  BY Position, JobFacts
<1>3. QED
  BY <1>1, <1>2

-----------------------------------------------------------------------------
(* What all steps have in common.                                          *)

\* No record of a job is the record of having none.
LEMMA JobIsNotIdle == \A j \in Job : j # Idle
BY DEF Job, Idle

Same(s) ==
    /\ (user'[s] <=> user[s]) /\ (docroot'[s] <=> docroot[s])
    /\ (conf'[s] <=> conf[s]) /\ (slice'[s] <=> slice[s])
    /\ unit'[s] = unit[s] /\ service'[s] = service[s] /\ vhost'[s] = vhost[s]
    /\ (account'[s] <=> account[s]) /\ creds'[s] = creds[s]
    /\ (live'[s] <=> live[s]) \/ (live'[s] <=> vhost[s] = "good")

(* A step of a job, or its end, is local: other jobs and other sites are   *)
(* left as they are, but for what a reload finds in their vhosts.          *)
Local(w) ==
    /\ HostTypes' /\ JobTypes'
    /\ \A x \in Workers \ {w} : job'[x] = job[x]
    /\ job'[w] # Idle => /\ job'[w].order = job[w].order
                         /\ job'[w].clean => job[w].clean
    /\ \A s \in Sites : s # Site(w) => Same(s) /\ promise'[s] = promise[s]

\* A site that only a reload has touched is served, or gone, as it was.
LEMMA SameIsKept ==
    ASSUME NEW s, Same(s), promise'[s] = promise[s], Kept(s)
    PROVE  Kept(s)'
<1>1. Serving(s) => Serving(s)'
  BY DEF Same, Serving
<1>2. Gone(s) => Gone(s)'
  BY DEF Same, Gone
<1>3. QED
  BY <1>1, <1>2 DEF Kept

\* What a clean job has made of its site is not undone by a reload.
LEMMA SameIsClean ==
    ASSUME JobTypes, NEW w \in Workers, Active(w), Same(Site(w)), CleanJob(w),
           job'[w] = job[w]
    PROVE  CleanJob(w)'
<1>1. Site(w)' = Site(w) /\ job[w].step \in 1..14
  BY JobFacts DEF Site, Job
<1>2. job[w].chain = "provision" => Provisioned(Site(w), job[w].step, job[w].pw)'
  BY <1>1 DEF CleanJob, Same, Provisioned
<1>3. job[w].chain = "switch" => Switched(Site(w), job[w].step, job[w].was)'
  BY <1>1 DEF CleanJob, Same, Switched
<1>4. job[w].chain = "deprovision" => Removed(Site(w), job[w].step)'
  BY <1>1 DEF CleanJob, Same, Removed
<1>5. job[w].chain = "nodeDeprovision" => RemovedNode(Site(w), job[w].step)'
  BY <1>1 DEF CleanJob, Same, RemovedNode
<1>6. QED
  BY <1>2, <1>3, <1>4, <1>5 DEF CleanJob

\* A local step keeps the inductive invariant if it makes of its own site what
\* its place in the chain says and promises of it only what is the case.
LEMMA LocalStep ==
    ASSUME IInv, NEW w \in Workers, Active(w), Local(w),
           Active(w)' /\ job'[w].clean => CleanJob(w)',
           \A s \in Sites : s = Site(w) /\ promise'[s] # "unknown" =>
               job[w].clean /\ job'[w] = Idle /\ Kept(s)'
    PROVE  IInv'
<1> USE DEF Local
<1>1. \A x \in Workers : Active(x)' => Active(x) /\ Site(x)' = Site(x)
  BY DEF Active, Site
<1>2. \A s : Working(s)' \subseteq Working(s)
  BY <1>1 DEF Working
<1>3. \A x \in Workers : Active(x)' /\ job'[x].clean => job[x].clean
  BY DEF Active
<1>4. Alone'
  <2> SUFFICES ASSUME NEW x \in Workers, Active(x)', job'[x].clean
               PROVE  Working(Site(x))' = {x}
    BY DEF Alone
  <2>1. Site(x)' = Site(x) /\ Working(Site(x)) = {x}
    BY <1>1, <1>3 DEF IInv, Alone
  <2>2. x \in Working(Site(x))'
    BY DEF Working
  <2>3. QED
    BY <1>2, <2>1, <2>2
<1>5. Quiet'
  <2> SUFFICES ASSUME NEW s \in Sites, promise'[s] # "unknown" PROVE Working(s)' = {}
    BY DEF Quiet
  <2>1. CASE s = Site(w)
    <3>1. Working(s) = {w} /\ job'[w] = Idle
      BY <2>1 DEF IInv, Alone
    <3>2. w \notin Working(s)'
      BY <3>1 DEF Working, Active
    <3>3. QED
      BY <1>2, <3>1, <3>2
  <2>2. CASE s # Site(w)
    BY <2>2, <1>2 DEF IInv, Quiet
  <2>3. QED
    BY <2>1, <2>2
<1>6. Progress'
  <2> SUFFICES ASSUME NEW x \in Workers, Active(x)', job'[x].clean PROVE CleanJob(x)'
    BY DEF Progress
  <2>1. CASE x = w
    BY <2>1
  <2>2. CASE x # w
    <3>1. Active(x) /\ job'[x] = job[x] /\ job[x].clean
      BY <1>1, <2>2
    <3>2. Working(Site(x)) = {x} /\ CleanJob(x) /\ JobTypes
      BY <3>1 DEF IInv, Alone, Progress
    <3>3. Site(x) # Site(w) /\ Site(x) \in Sites
      BY <2>2, <3>1, <3>2, JobFacts DEF Working
    <3>4. Same(Site(x))
      BY <3>3
    <3>5. QED
      BY <3>1, <3>2, <3>4, SameIsClean
  <2>3. QED
    BY <2>1, <2>2
<1>7. Standing'
  <2> SUFFICES ASSUME NEW s \in Sites, promise'[s] # "unknown" PROVE Kept(s)'
    BY DEF Standing, Kept
  <2>1. CASE s = Site(w)
    BY <2>1
  <2>2. CASE s # Site(w)
    BY <2>2, SameIsKept DEF IInv, Standing
  <2>3. QED
    BY <2>1, <2>2
<1>8. QED
  BY <1>4, <1>5, <1>6, <1>7 DEF IInv

\* A step that puts another record of its job in the place of the old one.
LEMMA OnwardStep ==
    ASSUME IInv, NEW w \in Workers, Active(w), NEW j \in Job,
           job' = [job EXCEPT ![w] = j], j.order = job[w].order,
           j.clean => job[w].clean,
           HostTypes', \A s \in Sites : s # Site(w) => Same(s),
           done' = done, promise' = promise, faults' \in 0..MaxFaults,
           job[w].clean /\ CleanJob(w) /\ j.clean /\ job'[w] = j
           /\ Site(w)' = Site(w) => CleanJob(w)'
    PROVE  IInv'
<1>1. job'[w] = j /\ \A x \in Workers \ {w} : job'[x] = job[x]
  BY DEF IInv, JobTypes
<1>2. JobTypes'
  BY DEF IInv, JobTypes
<1>3. Local(w)
  BY <1>1, <1>2 DEF Local
<1>4. Site(w)' = Site(w)
  BY <1>1 DEF Site
<1>5. Active(w)' /\ job'[w].clean => CleanJob(w)'
  BY <1>1, <1>4 DEF IInv, Progress
<1>6. \A s \in Sites : s = Site(w) => promise'[s] = "unknown"
  BY DEF IInv, Quiet, Working
<1>7. QED
  BY <1>3, <1>5, <1>6, LocalStep

\* The job is one step further, and otherwise the same.
Moved(w) ==
    /\ Site(w)' = Site(w) /\ job'[w].chain = job[w].chain
    /\ job'[w].was = job[w].was /\ job'[w].pw = job[w].pw
    /\ job'[w].step = job[w].step + 1

\* A step that only advances its job.
LEMMA AdvanceStep ==
    ASSUME IInv, NEW w \in Workers, Active(w), ~Done(w),
           job' = [job EXCEPT ![w].step = @ + 1],
           HostTypes', \A s \in Sites : s # Site(w) => Same(s),
           done' = done, promise' = promise, faults' \in 0..MaxFaults,
           CleanJob(w) /\ Moved(w) => CleanJob(w)'
    PROVE  IInv'
<1> DEFINE j == [job[w] EXCEPT !.step = @ + 1]
<1>1. job[w] \in Job /\ job[w].step + 1 \in 1..14
  BY JobFacts, NotDone DEF IInv
<1>2. /\ j \in Job /\ j.order = job[w].order /\ j.clean = job[w].clean
      /\ j.chain = job[w].chain /\ j.was = job[w].was /\ j.pw = job[w].pw
      /\ j.step = job[w].step + 1
  BY <1>1 DEF Job
<1>3. job' = [job EXCEPT ![w] = j]
  OBVIOUS
<1> HIDE DEF j
<1>4. job'[w] = j /\ Site(w)' = Site(w) => Moved(w)
  BY <1>2 DEF Moved
<1>5. QED
  BY <1>2, <1>3, <1>4, OnwardStep

\* A step of a teardown that was not clean.
LEMMA NotedStep ==
    ASSUME IInv, NEW w \in Workers, Active(w), ~Done(w), Noted(w),
           HostTypes', \A s \in Sites : s # Site(w) => Same(s),
           done' = done, promise' = promise, faults' \in 0..MaxFaults
    PROVE  IInv'
<1> DEFINE i == [job[w] EXCEPT !.step = @ + 1]
<1> DEFINE j == [i EXCEPT !.clean = FALSE]
<1>1. job[w] \in Job /\ job[w].step + 1 \in 1..14
  BY JobFacts, NotDone DEF IInv
<1>2. i \in Job /\ i.order = job[w].order
  BY <1>1 DEF Job
<1>3. job' = [job EXCEPT ![w] = j]
  BY DEF Noted
<1> HIDE DEF i
<1>4. j \in Job /\ j.order = job[w].order /\ ~j.clean
  BY <1>2 DEF Job
<1> HIDE DEF j
<1>5. QED
  BY <1>3, <1>4, OnwardStep

-----------------------------------------------------------------------------
(* The steps of provisioning and of a switch.                              *)

\* What a step that runs has found on the host.
LEMMA Needs ==
    ASSUME NEW s
    PROVE  /\ CanRun("docroot", s) => user[s]
           /\ CanRun("conf", s) => user[s]
           /\ CanRun("test", s) => NginxMayAccept
           /\ CanRun("reload", s) => NginxMayAccept
           /\ CanRun("enable", s) => Startable(s)
           /\ CanRun("socket", s) => service[s] # None
BY DEF CanRun

\* The user, the document root, the configuration, the unit and the slice.
LEMMA DiskIInv ==
    ASSUME IInv, NEW w \in Workers,
           \/ CreateUser(w) \/ CreateDocumentRoot(w) \/ WriteSiteConfig(w)
           \/ WriteServiceUnit(w) \/ ApplyLimits(w)
    PROVE  IInv'
<1> USE DEF nginxVars, dbVars
<1> DEFINE s == Site(w)
<1>1. Active(w) /\ ~Done(w)
  BY DEF CreateUser, CreateDocumentRoot, WriteSiteConfig, WriteServiceUnit, ApplyLimits,
     Runs, At
<1>2. s \in Sites /\ job[w].order.version \in Versions \ {None}
  BY <1>1, JobFacts, SiteConstants DEF IInv
<1>3. /\ CreateUser(w) => On(w, "provision", 1)
      /\ CreateDocumentRoot(w) => On(w, "provision", 2)
      /\ WriteSiteConfig(w) => (On(w, "provision", 3) \/ On(w, "switch", 1)) /\ user[s]
      /\ WriteServiceUnit(w) => On(w, "provision", 4) \/ On(w, "switch", 2)
      /\ ApplyLimits(w) => On(w, "provision", 8)
  BY Places, Needs DEF IInv, CreateUser, CreateDocumentRoot, WriteSiteConfig,
     WriteServiceUnit, ApplyLimits, Runs
<1>4. HostTypes'
  BY <1>2 DEF IInv, HostTypes, CreateUser, CreateDocumentRoot, WriteSiteConfig,
     WriteServiceUnit, ApplyLimits
<1>5. \A t \in Sites : t # s => Same(t)
  BY DEF IInv, HostTypes, CreateUser, CreateDocumentRoot, WriteSiteConfig,
     WriteServiceUnit, ApplyLimits, Same
<1>6. /\ user[s] => user'[s]
      /\ docroot[s] => docroot'[s]
      /\ conf[s] => conf'[s]
      /\ unit[s] # None => unit'[s] # None
      /\ slice[s] => slice'[s]
  BY <1>2 DEF IInv, HostTypes, CreateUser, CreateDocumentRoot, WriteSiteConfig,
     WriteServiceUnit, ApplyLimits
<1>7. /\ CreateUser(w) => user'[s]
      /\ CreateDocumentRoot(w) => docroot'[s]
      /\ WriteSiteConfig(w) => conf'[s] /\ user' = user
      /\ WriteServiceUnit(w) => unit'[s] # None
      /\ ApplyLimits(w) => slice'[s]
  BY <1>2 DEF IInv, HostTypes, CreateUser, CreateDocumentRoot, WriteSiteConfig,
     WriteServiceUnit, ApplyLimits
<1>8. /\ UNCHANGED <<service, vhost, live, account, creds>>
      /\ job' = [job EXCEPT ![w].step = @ + 1]
      /\ done' = done /\ promise' = promise /\ faults' \in 0..MaxFaults
  BY DEF CreateUser, CreateDocumentRoot, WriteSiteConfig, WriteServiceUnit, ApplyLimits,
     Advance, IInv, JobTypes
<1>9. ASSUME CleanJob(w), Moved(w) PROVE CleanJob(w)'
  <2> USE DEF Moved
  <2>1. CASE job[w].chain = "provision"
    <3>1. Provisioned(s, job[w].step, job[w].pw)
      BY <1>9, <2>1 DEF CleanJob
    <3>2. Provisioned(s, job[w].step, job[w].pw)'
      BY <1>3, <1>6, <1>7, <1>8, <1>9, <2>1, <3>1 DEF On, Provisioned
    <3>3. QED
      BY <1>9, <2>1, <3>2 DEF CleanJob
  <2>2. CASE job[w].chain = "switch"
    <3>1. Switched(s, job[w].step, job[w].was)
      BY <1>9, <2>2 DEF CleanJob
    <3>2. Switched(s, job[w].step, job[w].was)'
      BY <1>3, <1>6, <1>7, <1>8, <1>9, <2>2, <3>1 DEF On, Switched
    <3>3. QED
      BY <1>9, <2>2, <3>2 DEF CleanJob
  <2>3. QED
    BY <1>3, <1>9, <2>1, <2>2 DEF On
<1>10. QED
  BY <1>1, <1>4, <1>5, <1>8, <1>9, AdvanceStep

\* The vhost is truncated and written; only a good one passes the test.
LEMMA VhostIInv ==
    ASSUME IInv, NEW w \in Workers, OpenVhost(w) \/ FillVhost(w) \/ TestConfig(w)
    PROVE  IInv'
<1> USE DEF diskVars, nginxVars, dbVars
<1> DEFINE s == Site(w)
<1>1. Active(w) /\ ~Done(w)
  BY DEF OpenVhost, FillVhost, TestConfig, Runs, At
<1>2. s \in Sites
  BY <1>1, JobFacts DEF IInv
<1>3. /\ OpenVhost(w) => On(w, "provision", 5)
      /\ FillVhost(w) => On(w, "provision", 6)
      /\ TestConfig(w) => On(w, "provision", 7) /\ NginxMayAccept
  BY Places, Needs DEF IInv, OpenVhost, FillVhost, TestConfig, Runs
<1>4. HostTypes'
  BY <1>2 DEF IInv, HostTypes, OpenVhost, FillVhost, TestConfig
<1>5. \A t \in Sites : t # s => Same(t)
  BY DEF IInv, HostTypes, OpenVhost, FillVhost, TestConfig, Same
<1>6. FillVhost(w) => vhost'[s] \in {"good", "bad"}
  BY <1>2 DEF IInv, HostTypes, FillVhost
<1>7. /\ UNCHANGED <<diskVars, service, live, dbVars>>
      /\ TestConfig(w) => vhost' = vhost
      /\ job' = [job EXCEPT ![w].step = @ + 1]
      /\ done' = done /\ promise' = promise /\ faults' \in 0..MaxFaults
  BY DEF OpenVhost, FillVhost, TestConfig, Advance, IInv, JobTypes
<1>8. ASSUME CleanJob(w), Moved(w) PROVE CleanJob(w)'
  <2> USE DEF Moved
  <2>1. Provisioned(s, job[w].step, job[w].pw)
    BY <1>3, <1>8 DEF On, CleanJob
  <2>2. TestConfig(w) => vhost[s] = "good"
    <3>1. TestConfig(w) => vhost[s] \in {"good", "bad"}
      BY <1>3, <2>1 DEF On, Provisioned
    <3>2. TestConfig(w) => vhost[s] # "bad"
      BY <1>2, <1>3 DEF NginxMayAccept, BadFile
    <3>3. QED
      BY <3>1, <3>2
  <2>3. Provisioned(s, job[w].step, job[w].pw)'
    BY <1>3, <1>6, <1>7, <1>8, <2>1, <2>2 DEF On, Provisioned, diskVars, dbVars
  <2>4. QED
    BY <1>3, <1>8, <2>3 DEF On, CleanJob
<1>9. QED
  BY <1>1, <1>4, <1>5, <1>7, <1>8, AdvanceStep

\* A new account gets the password of the job, which is a password in any case.
LEMMA DatabaseIInv ==
    ASSUME IInv, NEW w \in Workers, CreateSiteDatabase(w)
    PROVE  IInv'
<1> USE DEF CreateSiteDatabase, diskVars, nginxVars
<1> DEFINE s == Site(w)
<1> DEFINE i == [job[w] EXCEPT !.step = @ + 1]
<1> DEFINE j == [i EXCEPT !.pw = PasswordMatches(s)]
<1>1. Active(w) /\ ~Done(w) /\ On(w, "provision", 9)
  BY Places DEF IInv, Runs, At
<1>2. s \in Sites /\ job[w] \in Job /\ job[w].step + 1 \in 1..14
  BY <1>1, JobFacts, NotDone DEF IInv
<1>3. PasswordMatches(s) \in {"right", "wrong"}
  BY DEF PasswordMatches
<1>4. /\ i \in Job /\ i.order = job[w].order /\ i.clean = job[w].clean
      /\ i.chain = job[w].chain /\ i.was = job[w].was /\ i.step = job[w].step + 1
  BY <1>2 DEF Job
<1>5. job' = [job EXCEPT ![w] = j]
  OBVIOUS
<1> HIDE DEF i
<1>6. /\ j \in Job /\ j.order = job[w].order /\ j.clean = job[w].clean
      /\ j.chain = job[w].chain /\ j.step = job[w].step + 1 /\ j.pw # "none"
  BY <1>3, <1>4 DEF Job, Password
<1> HIDE DEF j
<1>7. HostTypes'
  BY <1>2 DEF IInv, HostTypes
<1>8. \A t \in Sites : t # s => Same(t)
  BY DEF IInv, HostTypes, Same
<1>9. /\ account'[s]
      /\ UNCHANGED <<user, docroot, conf, unit, slice, service, vhost, live, creds>>
  BY <1>2 DEF IInv, HostTypes
<1>10. done' = done /\ promise' = promise /\ faults' \in 0..MaxFaults
  BY DEF IInv, JobTypes
<1>11. ASSUME CleanJob(w), job'[w] = j, Site(w)' = Site(w) PROVE CleanJob(w)'
  <2>1. Provisioned(s, job[w].step, job[w].pw)
    BY <1>1, <1>11 DEF On, CleanJob
  <2>2. job'[w].step = 10 /\ job[w].step = 9 /\ job'[w].pw # "none"
    <3>1. job'[w].step = job[w].step + 1 /\ job'[w].pw # "none"
      BY <1>6, <1>11
    <3>2. job[w].step = 9
      BY <1>1 DEF On
    <3>3. QED
      BY <3>1, <3>2
  <2>3. Provisioned(s, job[w].step, job[w].pw)'
    BY <1>9, <1>11, <2>1, <2>2 DEF Provisioned
  <2>4. QED
    BY <1>1, <1>6, <1>11, <2>3 DEF On, CleanJob
<1>12. QED
  BY <1>1, <1>5, <1>6, <1>7, <1>8, <1>10, <1>11, OnwardStep

\* The password of the job is written to the credentials file.
LEMMA CredentialsIInv ==
    ASSUME IInv, NEW w \in Workers, WriteCredentials(w)
    PROVE  IInv'
<1> USE DEF WriteCredentials, diskVars, nginxVars
<1> DEFINE s == Site(w)
<1>1. Active(w) /\ ~Done(w) /\ On(w, "provision", 10)
  BY Places DEF IInv, Runs, At
<1>2. s \in Sites /\ job[w].pw \in Password
  BY <1>1, JobFacts DEF IInv, Job
<1>3. HostTypes'
  BY <1>2 DEF IInv, HostTypes
<1>4. \A t \in Sites : t # s => Same(t)
  BY DEF IInv, HostTypes, Same
<1>5. /\ creds'[s] = job[w].pw
      /\ UNCHANGED <<user, docroot, conf, unit, slice, service, vhost, live, account>>
  BY <1>2 DEF IInv, HostTypes
<1>6. /\ job' = [job EXCEPT ![w].step = @ + 1]
      /\ done' = done /\ promise' = promise /\ faults' \in 0..MaxFaults
  BY DEF Advance, IInv, JobTypes
<1>7. ASSUME CleanJob(w), Moved(w) PROVE CleanJob(w)'
  <2> USE DEF Moved
  <2>1. Provisioned(s, job[w].step, job[w].pw)
    BY <1>1, <1>7 DEF On, CleanJob
  <2>2. Provisioned(s, job[w].step, job[w].pw)'
    BY <1>1, <1>5, <1>7, <2>1 DEF On, Provisioned
  <2>3. QED
    BY <1>1, <1>7, <2>2 DEF On, CleanJob
<1>8. QED
  BY <1>1, <1>3, <1>4, <1>6, <1>7, AdvanceStep

\* The service is started, restarted or seen to answer on its socket.
LEMMA ServiceIInv ==
    ASSUME IInv, NEW w \in Workers,
           \/ EnableService(w) \/ WaitForSocket(w)
           \/ RestartService(w) \/ RestartLeavesDown(w)
    PROVE  IInv'
<1> USE DEF diskVars, nginxVars, dbVars
<1> DEFINE s == Site(w)
<1>1. Active(w) /\ ~Done(w)
  BY DEF EnableService, WaitForSocket, RestartService, RestartLeavesDown, Runs, At
<1>2. s \in Sites
  BY <1>1, JobFacts DEF IInv
<1>3. /\ EnableService(w) => On(w, "provision", 11) /\ Startable(s)
      /\ WaitForSocket(w) => /\ On(w, "provision", 12) \/ On(w, "switch", 4)
                             /\ service[s] # None
      /\ RestartService(w) \/ RestartLeavesDown(w) => On(w, "switch", 3)
  BY Places, OtherPlaces, Needs DEF IInv, EnableService, WaitForSocket, RestartService,
     RestartLeavesDown, Runs
<1>4. HostTypes'
  BY <1>2 DEF IInv, HostTypes, EnableService, WaitForSocket, RestartService,
     RestartLeavesDown, Startable
<1>5. \A t \in Sites : t # s => Same(t)
  BY DEF IInv, HostTypes, EnableService, WaitForSocket, RestartService,
     RestartLeavesDown, Same
<1>6. /\ EnableService(w) => service'[s] # None
      /\ WaitForSocket(w) => service' = service
  BY <1>2, <1>3 DEF IInv, HostTypes, EnableService, WaitForSocket, Startable
<1>7. /\ UNCHANGED <<user, docroot, conf, unit, slice, vhost, live, account, creds>>
      /\ job' = [job EXCEPT ![w].step = @ + 1]
      /\ done' = done /\ promise' = promise /\ faults' \in 0..MaxFaults
  BY SiteConstants DEF EnableService, WaitForSocket, RestartService, RestartLeavesDown,
     Advance, IInv, JobTypes
<1>8. ASSUME CleanJob(w), Moved(w) PROVE CleanJob(w)'
  <2> USE DEF Moved
  <2>1. CASE job[w].chain = "provision"
    <3>1. Provisioned(s, job[w].step, job[w].pw)
      BY <1>8, <2>1 DEF CleanJob
    <3>2. Provisioned(s, job[w].step, job[w].pw)'
      BY <1>3, <1>6, <1>7, <1>8, <2>1, <3>1 DEF On, Provisioned
    <3>3. QED
      BY <1>8, <2>1, <3>2 DEF CleanJob
  <2>2. CASE job[w].chain = "switch"
    <3>1. Switched(s, job[w].step, job[w].was)
      BY <1>8, <2>2 DEF CleanJob
    <3>2. Switched(s, job[w].step, job[w].was)'
      BY <1>3, <1>6, <1>7, <1>8, <2>2, <3>1 DEF On, Switched
    <3>3. QED
      BY <1>8, <2>2, <3>2 DEF CleanJob
  <2>3. QED
    BY <1>3, <1>8, <2>1, <2>2 DEF On
<1>9. QED
  BY <1>1, <1>4, <1>5, <1>7, <1>8, AdvanceStep

\* A reload serves every site whose vhost is good; the jobs that reload have
\* either made theirs good or removed it.
LEMMA ReloadIInv ==
    ASSUME IInv, NEW w \in Workers, ReloadNginx(w) \/ TryReload(w)
    PROVE  IInv'
<1> USE DEF diskVars, dbVars
<1> DEFINE s == Site(w)
<1>1. Active(w) /\ ~Done(w)
  BY DEF ReloadNginx, TryReload, Runs, At
<1>2. s \in Sites
  BY <1>1, JobFacts DEF IInv
<1>3. \/ On(w, "provision", 13) \/ On(w, "suspend", 2) \/ On(w, "unsuspend", 2)
      \/ On(w, "deprovision", 4) \/ On(w, "nodeDeprovision", 5)
  BY Places, OtherPlaces DEF IInv, ReloadNginx, TryReload, Runs
<1>4. live' = [t \in Sites |-> vhost[t] = "good"]
  BY DEF ReloadNginx, TryReload, Loaded
<1>5. \A t \in Sites : live'[t] <=> vhost[t] = "good"
  BY <1>4
<1>6. /\ UNCHANGED <<diskVars, service, vhost, suspended, dbVars>>
      /\ job' = [job EXCEPT ![w].step = @ + 1]
      /\ done' = done /\ promise' = promise /\ faults' \in 0..MaxFaults
  BY DEF ReloadNginx, TryReload, Advance, IInv, JobTypes
<1>7. HostTypes'
  <2>1. live' \in [Sites -> BOOLEAN]
    BY <1>4, Zenon
  <2>2. QED
    BY <1>6, <2>1 DEF IInv, HostTypes
<1>8. \A t \in Sites : t # s => Same(t)
  BY <1>5, <1>6 DEF Same
<1>9. ASSUME CleanJob(w), Moved(w) PROVE CleanJob(w)'
  <2> USE DEF Moved
  <2>1. CASE On(w, "provision", 13)
    <3>1. Provisioned(s, job[w].step, job[w].pw)
      BY <1>9, <2>1 DEF On, CleanJob
    <3>2. Provisioned(s, job[w].step, job[w].pw)'
      BY <1>2, <1>5, <1>6, <1>9, <2>1, <3>1 DEF On, Provisioned
    <3>3. QED
      BY <1>9, <2>1, <3>2 DEF On, CleanJob
  <2>2. CASE On(w, "deprovision", 4)
    <3>1. Removed(s, job[w].step)
      BY <1>9, <2>2 DEF On, CleanJob
    <3>2. Removed(s, job[w].step)'
      BY <1>2, <1>5, <1>6, <1>9, <2>2, <3>1 DEF On, Removed
    <3>3. QED
      BY <1>9, <2>2, <3>2 DEF On, CleanJob
  <2>3. CASE On(w, "nodeDeprovision", 5)
    <3>1. RemovedNode(s, job[w].step)
      BY <1>9, <2>3 DEF On, CleanJob
    <3>2. RemovedNode(s, job[w].step)'
      BY <1>2, <1>5, <1>6, <1>9, <2>3, <3>1 DEF On, RemovedNode
    <3>3. QED
      BY <1>9, <2>3, <3>2 DEF On, CleanJob
  <2>4. CASE On(w, "suspend", 2) \/ On(w, "unsuspend", 2)
    BY <1>9, <2>4 DEF On, CleanJob
  <2>5. QED
    BY <1>3, <2>1, <2>2, <2>3, <2>4
<1>10. QED
  BY <1>1, <1>6, <1>7, <1>8, <1>9, AdvanceStep

-----------------------------------------------------------------------------
(* The steps of a teardown, and the page of a suspended site.              *)

\* Every step of a teardown removes what it is about.
LEMMA RemovalIInv ==
    ASSUME IInv, NEW w \in Workers,
           \/ RemoveServiceUnit(w) \/ RemoveSiteConfig(w) \/ RemoveVhost(w)
           \/ RemoveLimits(w) \/ DropSiteDatabase(w) \/ RemoveSystemUser(w)
    PROVE  IInv'
<1> USE DEF diskVars, nginxVars, dbVars
<1> DEFINE s == Site(w)
<1>1. Active(w) /\ ~Done(w)
  BY DEF RemoveServiceUnit, RemoveSiteConfig, RemoveVhost, RemoveLimits,
     DropSiteDatabase, RemoveSystemUser, Runs, At
<1>2. s \in Sites
  BY <1>1, JobFacts DEF IInv
<1>3. /\ RemoveServiceUnit(w) => On(w, "deprovision", 1)
      /\ RemoveSiteConfig(w) => On(w, "deprovision", 2)
      /\ RemoveVhost(w) => On(w, "deprovision", 3) \/ On(w, "nodeDeprovision", 1)
      /\ RemoveLimits(w) => On(w, "deprovision", 5) \/ On(w, "nodeDeprovision", 2)
      /\ DropSiteDatabase(w) => On(w, "deprovision", 6) \/ On(w, "nodeDeprovision", 3)
      /\ RemoveSystemUser(w) => On(w, "deprovision", 7) \/ On(w, "nodeDeprovision", 4)
  BY OtherPlaces DEF IInv, RemoveServiceUnit, RemoveSiteConfig, RemoveVhost, RemoveLimits,
     DropSiteDatabase, RemoveSystemUser, Runs
<1>4. HostTypes'
  BY <1>2 DEF IInv, HostTypes, RemoveServiceUnit, RemoveSiteConfig, RemoveVhost,
     RemoveLimits, DropSiteDatabase, RemoveSystemUser, VhostRemoved, Password
<1>5. \A t \in Sites : t # s => Same(t)
  BY DEF IInv, HostTypes, RemoveServiceUnit, RemoveSiteConfig, RemoveVhost,
     RemoveLimits, DropSiteDatabase, RemoveSystemUser, Same
<1>6. /\ unit[s] = None => unit'[s] = None
      /\ service[s] = None => service'[s] = None
      /\ vhost[s] = "none" => vhost'[s] = "none"
      /\ ~slice[s] => ~slice'[s]
      /\ ~account[s] => ~account'[s]
      /\ ~user[s] => ~user'[s]
  BY <1>2 DEF IInv, HostTypes, RemoveServiceUnit, RemoveSiteConfig, RemoveVhost,
     RemoveLimits, DropSiteDatabase, RemoveSystemUser, VhostRemoved
<1>7. /\ RemoveServiceUnit(w) => unit'[s] = None /\ service'[s] = None
      /\ RemoveVhost(w) => vhost'[s] = "none"
      /\ RemoveLimits(w) => ~slice'[s] /\ service'[s] = None
      /\ DropSiteDatabase(w) => ~account'[s]
      /\ RemoveSystemUser(w) => ~user'[s]
  BY <1>2 DEF IInv, HostTypes, RemoveServiceUnit, RemoveVhost, RemoveLimits,
     DropSiteDatabase, RemoveSystemUser, VhostRemoved
<1>8. /\ live' = live /\ job' = [job EXCEPT ![w].step = @ + 1]
      /\ done' = done /\ promise' = promise /\ faults' \in 0..MaxFaults
  BY DEF RemoveServiceUnit, RemoveSiteConfig, RemoveVhost, RemoveLimits,
     DropSiteDatabase, RemoveSystemUser, Advance, IInv, JobTypes
<1>9. ASSUME CleanJob(w), Moved(w) PROVE CleanJob(w)'
  <2> USE DEF Moved
  <2>1. CASE job[w].chain = "deprovision"
    <3>1. Removed(s, job[w].step)
      BY <1>9, <2>1 DEF CleanJob
    <3>2. Removed(s, job[w].step)'
      BY <1>3, <1>6, <1>7, <1>8, <1>9, <2>1, <3>1 DEF On, Removed
    <3>3. QED
      BY <1>9, <2>1, <3>2 DEF CleanJob
  <2>2. CASE job[w].chain = "nodeDeprovision"
    <3>1. RemovedNode(s, job[w].step)
      BY <1>9, <2>2 DEF CleanJob
    <3>2. RemovedNode(s, job[w].step)'
      BY <1>3, <1>6, <1>7, <1>8, <1>9, <2>2, <3>1 DEF On, RemovedNode
    <3>3. QED
      BY <1>9, <2>2, <3>2 DEF CleanJob
  <2>3. QED
    BY <1>3, <1>9, <2>1, <2>2 DEF On
<1>10. QED
  BY <1>1, <1>4, <1>5, <1>8, <1>9, AdvanceStep

\* A teardown that goes on after an error is not clean any more.
LEMMA NotedIInv ==
    ASSUME IInv, NEW w \in Workers,
           \/ Overlooked(w) \/ OrphanService(w) \/ ReloadRejected(w) \/ UserBusy(w)
    PROVE  IInv'
<1> USE DEF diskVars, nginxVars, dbVars
<1>1. Active(w) /\ ~Done(w)
  BY DEF Overlooked, OrphanService, ReloadRejected, UserBusy, Runs, At
<1>2. HostTypes'
  BY DEF IInv, HostTypes, Overlooked, OrphanService, ReloadRejected, UserBusy
<1>3. \A t \in Sites : t # Site(w) => Same(t)
  BY DEF IInv, HostTypes, Overlooked, OrphanService, ReloadRejected, UserBusy, Same
<1>4. Noted(w) /\ done' = done /\ promise' = promise
  BY DEF Overlooked, OrphanService, ReloadRejected, UserBusy
<1>5. faults' \in 0..MaxFaults
  <2>1. faults' = faults \/ (faults < MaxFaults /\ faults' = faults + 1)
    BY Zenon DEF Overlooked, OrphanService, ReloadRejected, UserBusy
  <2>2. QED
    BY <2>1, SiteConstants DEF IInv, JobTypes
<1>6. QED
  BY <1>1, <1>2, <1>3, <1>4, <1>5, NotedStep

\* The page of a suspended site is no part of what is promised of the site.
LEMMA PageIInv ==
    ASSUME IInv, NEW w \in Workers, WriteSuspended(w) \/ RemoveSuspended(w)
    PROVE  IInv'
<1> USE DEF diskVars, dbVars
<1>1. /\ Active(w) /\ ~Done(w)
      /\ On(w, "suspend", 1) \/ On(w, "unsuspend", 1)
  BY OtherPlaces DEF IInv, WriteSuspended, RemoveSuspended, Runs, At
<1>2. UNCHANGED <<diskVars, service, vhost, live, dbVars>>
  BY DEF WriteSuspended, RemoveSuspended
<1>3. suspended' \in [Sites -> {"none", "good", "bad"}]
  BY DEF IInv, HostTypes, WriteSuspended, RemoveSuspended, SuspendedPage
<1>4. HostTypes'
  BY <1>2, <1>3 DEF IInv, HostTypes
<1>5. \A t \in Sites : t # Site(w) => Same(t)
  BY <1>2 DEF Same
<1>6. /\ job' = [job EXCEPT ![w].step = @ + 1]
      /\ done' = done /\ promise' = promise /\ faults' \in 0..MaxFaults
  BY DEF WriteSuspended, RemoveSuspended, Advance, IInv, JobTypes
<1>7. ASSUME Moved(w) PROVE CleanJob(w)'
  BY <1>1, <1>7 DEF On, Moved, CleanJob
<1>8. QED
  BY <1>1, <1>4, <1>5, <1>6, <1>7, AdvanceStep

-----------------------------------------------------------------------------
(* The ends of jobs, and their start.                                      *)

\* A job that ends, without a promise or with one that holds.
LEMMA EndStep ==
    ASSUME IInv, NEW w \in Workers, Active(w), job' = [job EXCEPT ![w] = Idle],
           UNCHANGED <<diskVars, service, nginxVars, dbVars>>,
           done' \subseteq Orders, faults' \in 0..MaxFaults,
           \/ promise' = promise
           \/ \E what \in Promises :
                 /\ promise' = [promise EXCEPT ![Site(w)] = what]
                 /\ what # "unknown" => job[w].clean
                 /\ what = "serving" => Serving(Site(w))
                 /\ what = "gone" => Gone(Site(w))
    PROVE  IInv'
<1> USE DEF diskVars, nginxVars, dbVars
<1>1. /\ job' \in [Workers -> Job \cup {Idle}] /\ job'[w] = Idle
      /\ \A x \in Workers \ {w} : job'[x] = job[x]
  BY DEF IInv, JobTypes
<1>2. HostTypes' /\ \A s \in Sites : Same(s)
  BY DEF IInv, HostTypes, Same
<1>3. Site(w) \in Sites /\ promise \in [Sites -> Promises] /\ promise[Site(w)] = "unknown"
  BY JobFacts DEF IInv, JobTypes, Quiet, Working
<1>4. ~Active(w)'
  BY <1>1 DEF Active
<1>5. CASE promise' = promise
  <2>1. Local(w)
    BY <1>1, <1>2, <1>5 DEF IInv, JobTypes, Local
  <2>2. QED
    BY <1>3, <1>4, <1>5, <2>1, LocalStep
<1>6. CASE promise' # promise
  <2> PICK what \in Promises : /\ promise' = [promise EXCEPT ![Site(w)] = what]
                               /\ what # "unknown" => job[w].clean
                               /\ what = "serving" => Serving(Site(w))
                               /\ what = "gone" => Gone(Site(w))
    BY <1>6
  <2>1. promise' \in [Sites -> Promises] /\ promise'[Site(w)] = what
    BY <1>3
  <2>2. \A s \in Sites : s # Site(w) => promise'[s] = promise[s]
    BY <1>3
  <2>3. Local(w)
    BY <1>1, <1>2, <2>1, <2>2 DEF IInv, JobTypes, Local
  <2>4. ASSUME NEW s \in Sites, s = Site(w), promise'[s] # "unknown"
        PROVE  job[w].clean /\ job'[w] = Idle /\ Kept(s)'
    <3>1. what = "serving" => Serving(s)'
      BY <2>4 DEF Serving
    <3>2. what = "gone" => Gone(s)'
      BY <2>4 DEF Gone
    <3>3. QED
      BY <1>1, <2>1, <2>4, <3>1, <3>2 DEF Kept
  <2>5. QED
    BY <1>4, <2>3, <2>4, LocalStep
<1>7. QED
  BY <1>5, <1>6

\* DONE is reported: a clean job has done what its outcome promises.
LEMMA FinishIInv ==
    ASSUME IInv, NEW w \in Workers, Finish(w)
    PROVE  IInv'
<1> DEFINE s == Site(w)
<1> DEFINE n == job[w].step
<1>1. Active(w) /\ Done(w)
  BY DEF Finish
<1>2. /\ s \in Sites /\ job[w] \in Job /\ job[w].order \in Orders
      /\ n \in 1..14 /\ job[w].was \in Promises /\ job[w].clean \in BOOLEAN
      /\ job[w].chain \in {"provision", "switch", "deprovision", "nodeDeprovision",
                           "suspend", "unsuspend"}
  BY <1>1, JobFacts DEF IInv, Job
<1>3. /\ job[w].chain = "provision" => n > 13
      /\ job[w].chain = "switch" => n > 4
      /\ job[w].chain = "deprovision" => n > 7
      /\ job[w].chain = "nodeDeprovision" => n > 5
  BY <1>1, Position DEF IInv
<1>4. /\ job[w].clean /\ job[w].chain = "provision" => Outcome(w) = "serving"
      /\ job[w].clean /\ job[w].chain = "switch" => Outcome(w) = job[w].was
      /\ job[w].clean /\ job[w].chain = "suspend" => Outcome(w) = "suspended"
      /\ job[w].clean /\ job[w].chain \in {"deprovision", "nodeDeprovision"}
         => Outcome(w) = "gone"
      /\ ~job[w].clean \/ job[w].chain = "unsuspend" => Outcome(w) = "unknown"
  BY DEF Outcome, Teardown
<1>5. Outcome(w) \in Promises
  BY <1>2, <1>4 DEF Promises
<1>6. ASSUME job[w].clean
      PROVE  /\ Outcome(w) = "serving" => Serving(s)
             /\ Outcome(w) = "gone" => Gone(s)
  <2>1. CleanJob(w)
    BY <1>1, <1>6 DEF IInv, Progress
  <2>2. CASE job[w].chain = "provision"
    <3>1. Provisioned(s, n, job[w].pw)
      BY <2>1, <2>2 DEF CleanJob
    <3>2. Serving(s)
      BY <1>2, <1>3, <2>2, <3>1 DEF Provisioned, Serving
    <3>3. QED
      BY <1>4, <1>6, <2>2, <3>2
  <2>3. CASE job[w].chain = "switch"
    <3>1. Switched(s, n, job[w].was)
      BY <2>1, <2>3 DEF CleanJob
    <3>2. job[w].was = "serving" => Serving(s)
      BY <1>2, <1>3, <2>3, <3>1 DEF Switched, Serving
    <3>3. job[w].was # "gone"
      BY <1>2, <1>3, <2>3, <3>1 DEF Switched
    <3>4. QED
      BY <1>4, <1>6, <2>3, <3>2, <3>3
  <2>4. CASE job[w].chain = "deprovision"
    <3>1. Removed(s, n)
      BY <2>1, <2>4 DEF CleanJob
    <3>2. Gone(s)
      BY <1>2, <1>3, <2>4, <3>1 DEF Removed, Gone
    <3>3. QED
      BY <1>4, <1>6, <2>4, <3>2
  <2>5. CASE job[w].chain = "nodeDeprovision"
    <3>1. RemovedNode(s, n)
      BY <2>1, <2>5 DEF CleanJob
    <3>2. Gone(s)
      BY <1>2, <1>3, <2>5, <3>1 DEF RemovedNode, Gone
    <3>3. QED
      BY <1>4, <1>6, <2>5, <3>2
  <2>6. CASE job[w].chain \in {"suspend", "unsuspend"}
    BY <1>4, <1>6, <2>6
  <2>7. QED
    BY <1>2, <2>2, <2>3, <2>4, <2>5, <2>6
<1>7. Outcome(w) # "unknown" => job[w].clean
  BY <1>2, <1>4
<1>8. /\ job' = [job EXCEPT ![w] = Idle] /\ promise' = [promise EXCEPT ![s] = Outcome(w)]
      /\ UNCHANGED <<diskVars, service, nginxVars, dbVars>>
      /\ done' \subseteq Orders /\ faults' \in 0..MaxFaults
  BY <1>2 DEF Finish, IInv, JobTypes
<1> HIDE DEF s, n
<1>9. \E what \in Promises : /\ promise' = [promise EXCEPT ![Site(w)] = what]
                             /\ what # "unknown" => job[w].clean
                             /\ what = "serving" => Serving(Site(w))
                             /\ what = "gone" => Gone(Site(w))
  <2>1. WITNESS Outcome(w) \in Promises
  <2>2. QED
    BY <1>6, <1>7, <1>8 DEF s
<1>10. QED
  BY <1>1, <1>8, <1>9, EndStep

\* A job that is refused or fails promises nothing, whatever it leaves behind.
LEMMA FailsIInv ==
    ASSUME IInv, NEW w \in Workers, Refused(w) \/ Accident(w) \/ ReportLost(w)
    PROVE  IInv'
<1>1. /\ Active(w) /\ job' = [job EXCEPT ![w] = Idle]
      /\ UNCHANGED <<diskVars, service, nginxVars, dbVars, done, promise>>
  BY DEF Refused, Accident, ReportLost
<1>2. faults' = faults \/ (faults < MaxFaults /\ faults' = faults + 1)
  BY Zenon DEF Refused, Accident, ReportLost
<1>3. faults' \in 0..MaxFaults /\ done' \subseteq Orders
  BY <1>1, <1>2, SiteConstants DEF IInv, JobTypes
<1>4. QED
  BY <1>1, <1>3, EndStep

\* The process dies with all its jobs: nothing is promised that was not before.
LEMMA CrashIInv ==
    ASSUME IInv, Crash
    PROVE  IInv'
<1> USE DEF diskVars, nginxVars, dbVars
<1>1. /\ UNCHANGED <<diskVars, service, nginxVars, dbVars, done, promise>>
      /\ \A x \in Workers : job'[x] = Idle
      /\ job' \in [Workers -> {Idle}]
  BY DEF Crash
<1>2. faults' \in 0..MaxFaults
  BY SiteConstants DEF Crash, IInv, JobTypes
<1>3. \A x \in Workers : ~Active(x)'
  BY <1>1 DEF Active
<1>4. HostTypes' /\ JobTypes'
  <2>1. job' \in [Workers -> Job \cup {Idle}]
    BY <1>1
  <2>2. HostTypes'
    BY <1>1 DEF IInv, HostTypes
  <2>3. QED
    BY <1>1, <1>2, <2>1, <2>2 DEF IInv, JobTypes
<1>5. Alone' /\ Quiet' /\ Progress'
  BY <1>3 DEF Alone, Quiet, Progress, Working
<1>6. Standing'
  BY <1>1 DEF IInv, Standing, Kept, Serving, Gone
<1>7. QED
  BY <1>4, <1>5, <1>6 DEF IInv

\* Where an order is routed; only a site without a unit is torn down as a
\* Node.js site.
LEMMA Routes ==
    ASSUME NEW request \in RequestKinds, NEW s, NEW v
    PROVE  /\ Route(request, s, v) \in {"provision", "switch", "deprovision",
                                        "nodeDeprovision", "suspend", "unsuspend"}
           /\ Route(request, s, v) = "nodeDeprovision" => unit[s] = None
<1>1. CASE request = "direct"
  BY <1>1 DEF Route
<1>2. CASE request = "directDeprovision"
  BY <1>2 DEF Route, Detected
<1>3. CASE request = "suspendUnnamed"
  BY <1>3 DEF Route
<1>4. CASE request \notin {"direct", "directDeprovision", "suspendUnnamed"}
  <2>1. Route(request, s, v) = request
    BY <1>4 DEF Route
  <2>2. QED
    BY <1>4, <2>1 DEF RequestKinds
<1>5. QED
  BY <1>1, <1>2, <1>3, <1>4

\* A new job takes the promise of its site back, and no other job of the site
\* is clean from there on.
LEMMA StartIInv ==
    ASSUME IInv, NEW w \in Workers, NEW o \in Orders, Start(w, o)
    PROVE  IInv'
<1> DEFINE s == o.site
<1> DEFINE chain == Route(o.request, s, o.version)
<1> DEFINE new == [chain |-> chain, order |-> o, step |-> 1, pw |-> "none",
                   was |-> promise[s], clean |-> Working(s) = {}]
<1>1. o \in Order /\ s \in Sites
  BY SiteConstants DEF Order
<1>2. /\ ~Active(w)
      /\ job' = [x \in Workers |->
                    IF x = w THEN new
                    ELSE IF x \in Working(s) THEN [job[x] EXCEPT !.clean = FALSE]
                    ELSE job[x]]
      /\ promise' = [promise EXCEPT ![s] = "unknown"]
      /\ UNCHANGED <<diskVars, service, nginxVars, dbVars, done, faults>>
  BY DEF Start
<1>3. chain \in DOMAIN Chain /\ (chain = "nodeDeprovision" => unit[s] = None)
  BY <1>1, Routes DEF Order, Chain
<1>4. promise[s] \in Promises
  BY <1>1 DEF IInv, JobTypes
<1> HIDE DEF chain
<1>5. new \in Job
  <2>1. (Working(s) = {}) \in BOOLEAN
    OBVIOUS
  <2>2. QED
    BY <1>3, <1>4, <2>1 DEF Job, Password
<1>6. /\ new.order = o /\ new.step = 1 /\ (new.clean <=> Working(s) = {})
      /\ new.chain = chain /\ new.was = promise[s]
  OBVIOUS
<1> HIDE DEF new
<1>7. \A x \in Working(s) : x \in Workers /\ Active(x) /\ job[x] \in Job /\ x # w
  BY <1>2, JobFacts DEF IInv, Working
<1>8. ASSUME NEW x \in Working(s)
      PROVE  job'[x] \in Job /\ ~job'[x].clean /\ job'[x].order = job[x].order
  <2>1. job'[x] = [job[x] EXCEPT !.clean = FALSE]
    BY <1>2, <1>7
  <2>2. QED
    BY <1>7, <2>1 DEF Job
<1>9. job'[w] = new /\ \A x \in Workers \ ({w} \cup Working(s)) : job'[x] = job[x]
  BY <1>2
<1>10. HostTypes' /\ JobTypes'
  <2>1. \A x \in Workers : job'[x] \in Job \cup {Idle}
    BY <1>5, <1>8, <1>9 DEF IInv, JobTypes
  <2>2. job' \in [Workers -> Job \cup {Idle}]
    BY <1>2, <2>1
  <2>3. promise' \in [Sites -> Promises]
    BY <1>2 DEF IInv, JobTypes, Promises
  <2>4. JobTypes'
    BY <1>2, <2>2, <2>3 DEF IInv, JobTypes
  <2>5. QED
    BY <1>2, <2>4 DEF IInv, HostTypes, diskVars, nginxVars, dbVars
<1>11. \A x \in Workers \ {w} :
          (Active(x)' <=> Active(x)) /\ (Active(x) => Site(x)' = Site(x))
  BY <1>7, <1>8, <1>9, JobIsNotIdle DEF Active, Site
<1>12. Active(w)' /\ Site(w)' = s
  BY <1>5, <1>6, <1>9, JobIsNotIdle DEF Active, Site
<1>13. Working(s)' = Working(s) \cup {w}
  BY <1>7, <1>11, <1>12 DEF Working
<1>14. \A t : t # s => Working(t)' = Working(t)
  BY <1>2, <1>11, <1>12 DEF Working
<1>15. \A t \in Sites : Same(t)
  BY <1>2 DEF Same, diskVars, nginxVars, dbVars
<1>16. ASSUME NEW x \in Workers, Active(x)', job'[x].clean
       PROVE  Working(Site(x))' = {x} /\ CleanJob(x)'
  <2>1. CASE x = w
    <3>1. Working(Site(x))' = {x}
      BY <2>1, <1>6, <1>9, <1>12, <1>13, <1>16
    <3>2. job'[x].step = 1 /\ job'[x].chain = chain /\ job'[x].was = promise[s]
      BY <2>1, <1>6, <1>9
    <3>3. promise[s] = "serving" => Serving(s)
      BY <1>1 DEF IInv, Standing, Kept
    <3>4. promise[s] = "gone" => Gone(s)
      BY <1>1 DEF IInv, Standing, Kept
    <3>5. Switched(Site(x), job[x].step, job[x].was)'
      BY <1>2, <1>12, <2>1, <3>2, <3>3, <3>4
      DEF Switched, Serving, Gone, diskVars, nginxVars, dbVars
    <3>6. Provisioned(Site(x), job[x].step, job[x].pw)' /\ Removed(Site(x), job[x].step)'
      BY <3>2 DEF Provisioned, Removed
    <3>7. chain = "nodeDeprovision" => RemovedNode(Site(x), job[x].step)'
      BY <1>2, <1>3, <1>12, <2>1, <3>2 DEF RemovedNode, diskVars
    <3>8. QED
      BY <3>1, <3>2, <3>5, <3>6, <3>7 DEF CleanJob
  <2>2. CASE x # w
    <3>1. x \notin Working(s) /\ Active(x)
      BY <2>2, <1>8, <1>11, <1>16
    <3>2. job'[x] = job[x] /\ Site(x) # s /\ Site(x)' = Site(x)
      BY <2>2, <3>1, <1>9, <1>11 DEF Working
    <3>3. Working(Site(x)) = {x} /\ CleanJob(x) /\ JobTypes
      BY <3>1, <3>2, <1>16 DEF IInv, Alone, Progress
    <3>4. Same(Site(x))
      BY <3>1, <3>3, <1>15, JobFacts
    <3>5. CleanJob(x)'
      BY <3>1, <3>2, <3>3, <3>4, SameIsClean
    <3>6. QED
      BY <3>2, <3>3, <3>5, <1>14
  <2>3. QED
    BY <2>1, <2>2
<1>17. \A t \in Sites : promise'[t] # "unknown" => t # s /\ promise'[t] = promise[t]
  BY <1>1, <1>2 DEF IInv, JobTypes
<1>18. Alone' /\ Quiet' /\ Progress'
  BY <1>14, <1>16, <1>17 DEF Alone, Quiet, Progress, IInv
<1>19. Standing'
  <2> SUFFICES ASSUME NEW t \in Sites, promise'[t] # "unknown" PROVE Kept(t)'
    BY DEF Standing, Kept
  <2>1. QED
    BY <1>15, <1>17, SameIsKept DEF IInv, Standing
<1>20. QED
  BY <1>10, <1>18, <1>19 DEF IInv

-----------------------------------------------------------------------------
(* The theorems.                                                           *)

\* A host with no site satisfies the inductive invariant.
LEMMA InitIInv == Init => IInv
<1> SUFFICES ASSUME Init PROVE IInv
  OBVIOUS
<1>1. HostTypes
  BY DEF Init, HostTypes, Password
<1>2. JobTypes
  BY SiteConstants DEF Init, JobTypes, Promises
<1>3. \A w \in Workers : ~Active(w)
  BY DEF Init, Active
<1>4. Alone /\ Quiet /\ Progress
  BY <1>3 DEF Alone, Quiet, Progress, Working
<1>5. Standing
  BY DEF Init, Standing, Kept
<1>6. QED
  BY <1>1, <1>2, <1>4, <1>5 DEF IInv

\* Every step keeps the inductive invariant.
LEMMA NextIInv == IInv /\ [Next]_vars => IInv'
<1> SUFFICES ASSUME IInv, [Next]_vars PROVE IInv'
  OBVIOUS
<1>1. ASSUME NEW w \in Workers, ProvisionStep(w) \/ RestartLeavesDown(w) PROVE IInv'
  BY <1>1, DiskIInv, VhostIInv, DatabaseIInv, CredentialsIInv, ServiceIInv, ReloadIInv
  DEF ProvisionStep
<1>2. ASSUME NEW w \in Workers, TeardownStep(w) \/ Overlooked(w) \/ OrphanService(w)
      PROVE  IInv'
  BY <1>2, RemovalIInv, ReloadIInv, NotedIInv DEF TeardownStep
<1>3. ASSUME NEW w \in Workers, JobStep(w) \/ Fault(w) PROVE IInv'
  BY <1>1, <1>2, <1>3, PageIInv, FinishIInv, FailsIInv DEF JobStep, Fault
<1>4. CASE UNCHANGED vars
  <2> USE DEF vars, diskVars, nginxVars, dbVars
  <2>1. HostTypes' /\ JobTypes'
    BY <1>4 DEF IInv, HostTypes, JobTypes
  <2>2. Alone' /\ Quiet' /\ Standing'
    BY <1>4 DEF IInv, Alone, Quiet, Standing, Kept, Serving, Gone, Active, Working, Site
  <2>3. Progress'
    BY <1>4 DEF IInv, Progress, CleanJob, Provisioned, Switched, Removed, RemovedNode,
       Active, Site
  <2>4. QED
    BY <2>1, <2>2, <2>3 DEF IInv
<1>5. QED
  BY <1>3, <1>4, StartIInv, CrashIInv DEF Next

\* Every state that can be reached satisfies the inductive invariant.
THEOREM Invariance == Spec => []IInv
BY InitIInv, NextIInv, PTL DEF Spec

\* The variables have their types.
THEOREM TypeCorrect == Spec => []TypeOK
<1>1. IInv => TypeOK
  BY DEF IInv, HostTypes, JobTypes, TypeOK
<1>2. QED
  BY <1>1, Invariance, PTL

\* A site reported provisioned is served, whatever the jobs of other sites do
\* or leave half done, and also after a crash.
THEOREM ProvisionedSitesAreServed == Spec => []ProvisionedIsServed
<1>1. IInv => ProvisionedIsServed
  BY DEF IInv, Standing, Kept, ProvisionedIsServed
<1>2. QED
  BY <1>1, Invariance, PTL

\* A teardown none of whose commands failed has left nothing that serves the
\* site, by whichever route it was taken down.
THEOREM TornDownSitesAreGone == Spec => []CleanTeardownIsGone
<1>1. IInv => CleanTeardownIsGone
  BY DEF IInv, Standing, Kept, CleanTeardownIsGone
<1>2. QED
  BY <1>1, Invariance, PTL
=============================================================================
