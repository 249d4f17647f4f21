------------------------- MODULE SiteContentProofs --------------------------
(***************************************************************************)
(* Theorems about SiteContent, for any sites, orders, goroutines and       *)
(* edits and any number of accidents.                                      *)
(***************************************************************************)
EXTENDS SiteContent, TLAPS

SiteTypes ==
    /\ wpcli \in {"none", "part", "whole"}
    /\ account \subseteq Sites /\ stray \subseteq Sites
    /\ files \in [Directories -> Contents \cup {None}]
    /\ keys \in [Directories -> Link \cup {None}]
    /\ config \in [Directories -> Link \cup {None}]
    /\ db \in [Sites -> Database]
    /\ edited \subseteq Edits /\ faults \in 0..MaxFaults

JobTypes ==
    /\ job \in [Workers -> Job \cup {Idle}]
    /\ done \subseteq Orders
    /\ promise \in [Sites -> Promise \cup {None}]

(* A clean job shares no site with another job, and nothing is promised of *)
(* a site while a job writes to it.                                        *)
Alone == \A w, x \in Workers :
    Active(w) /\ Active(x) /\ w # x /\ job[w].clean =>
        Touches(job[w].order) \cap Touches(job[x].order) = {}
Quiet == \A w \in Workers : Active(w) => promise[To(w)] = None

(* An import fills a database that nothing is promised of and to which no  *)
(* clean job copies, whose ever it is.                                     *)
Copies(w) == job[w].order.request \in {"clone", "push"}
Free(s) ==
    /\ s \in Sites => promise[s] = None
    /\ \A x \in Workers : Active(x) /\ job[x].clean /\ Copies(x) => To(x) # s
Streams(w) ==
    /\ Active(w)
    /\ job[w].order.request = "import" /\ job[w].order.db /\ job[w].step = 3
Loading == \A w \in Workers : Streams(w) => Free(job[w].link.site)

(* What a clean copy has brought over, by how far it has come.             *)
Copied(w) == Named[To(w)] = To(w) /\ db[To(w)].data = job[w].snap.data
CleanCopy(w) ==
    /\ job[w].step > 2 => job[w].seen # None
    /\ job[w].step = 3 => files[Source(w)] = job[w].seen
    /\ job[w].step > 3 => files[Target(w)] = job[w].seen
    /\ job[w].step \notin {5, 6} => job[w].load = "no"
    /\ job[w].load = "ok" => job[w].dump = "failed" \/ (job[w].dump = "ok" /\ Copied(w))
    /\ job[w].step = 6 => job[w].dump = "ok"
    /\ job[w].step > 6 => Copied(w)
Progress == \A w \in Workers : Active(w) /\ job[w].clean /\ Copies(w) => CleanCopy(w)

IInv == SiteTypes /\ JobTypes /\ Alone /\ Quiet /\ Loading /\ Progress /\ CopyIsWhole

-----------------------------------------------------------------------------
(* The places of the steps in their chains.                                *)

Request(w) == job[w].order.request
Installing(w, n) == Active(w) /\ Request(w) = "install" /\ job[w].step = n
Copying(w, n) == Active(w) /\ Copies(w) /\ job[w].step = n
Importing(w, n) == Active(w) /\ Request(w) = "import" /\ job[w].step = n

\* A job that is under way is a record with an order, to and from a site.
LEMMA JobFacts ==
    ASSUME JobTypes, NEW w \in Workers, Active(w)
    PROVE  /\ job[w] \in Job /\ job[w].order \in Orders
           /\ From(w) \in Sites /\ To(w) \in Sites /\ job[w].order.db \in BOOLEAN
           /\ Request(w) \in {"install", "clone", "push", "import"}
<1>1. job[w] \in Job
  BY DEF JobTypes, Active
<1>2. job[w].order \in Orders
  BY <1>1 DEF Job
<1>3. job[w].order \in Order
  BY <1>2, ContentConstants
<1>4. QED
  BY <1>1, <1>2, <1>3 DEF Order, From, To, Request

\* How long the chains are, and what stands where in them.
LEMMA Chains ==
    /\ Len(Install) = 8
    /\ Install[1] = "provision" /\ Install[2] = "wp-cli" /\ Install[3] = "open wp-cli"
    /\ Install[4] = "fill wp-cli" /\ Install[5] = "core" /\ Install[6] = "read"
    /\ Install[7] = "config" /\ Install[8] = "install"
    /\ Len(CopyFiles) = 3
    /\ CopyFiles[1] = "mkdir" /\ CopyFiles[2] = "rsync" /\ CopyFiles[3] = "copied"
    /\ Len(CopyBoth) = 6
    /\ CopyBoth[1] = "mkdir" /\ CopyBoth[2] = "rsync" /\ CopyBoth[3] = "copied"
    /\ CopyBoth[4] = "dump" /\ CopyBoth[5] = "wait dump" /\ CopyBoth[6] = "wait load"
    /\ Len(PushBoth) = 7
    /\ PushBoth[1] = "mkdir" /\ PushBoth[2] = "rsync" /\ PushBoth[3] = "copied"
    /\ PushBoth[4] = "dump" /\ PushBoth[5] = "wait dump" /\ PushBoth[6] = "wait load"
    /\ PushBoth[7] = "replace"
    /\ Len(ImportFiles) = 2
    /\ ImportFiles[1] = "extract" /\ ImportFiles[2] = "extracted"
    /\ Len(ImportBoth) = 6
    /\ ImportBoth[1] = "read" /\ ImportBoth[2] = "load" /\ ImportBoth[3] = "loaded"
    /\ ImportBoth[4] = "extract" /\ ImportBoth[5] = "extracted"
    /\ ImportBoth[6] = "replace"
BY DEF Install, CopyFiles, CopyBoth, PushBoth, ImportFiles, ImportBoth

\* The chain of a job.
LEMMA ChainOf ==
    ASSUME JobTypes, NEW w \in Workers, Active(w)
    PROVE  /\ Request(w) = "install" => Chain[job[w].order] = Install
           /\ Copies(w) /\ ~job[w].order.db => Chain[job[w].order] = CopyFiles
           /\ Request(w) = "clone" /\ job[w].order.db => Chain[job[w].order] = CopyBoth
           /\ Request(w) = "push" /\ job[w].order.db => Chain[job[w].order] = PushBoth
           /\ Request(w) = "import" /\ ~job[w].order.db => Chain[job[w].order] = ImportFiles
           /\ Request(w) = "import" /\ job[w].order.db => Chain[job[w].order] = ImportBoth
<1>1. job[w].order \in Orders
  BY JobFacts
<1>2. Chain[job[w].order] =
        CASE Request(w) = "install" -> Install
          [] Request(w) = "clone" -> IF job[w].order.db THEN CopyBoth ELSE CopyFiles
          [] Request(w) = "push" -> IF job[w].order.db THEN PushBoth ELSE CopyFiles
          [] Request(w) = "import" -> IF job[w].order.db THEN ImportBoth ELSE ImportFiles
  BY <1>1 DEF Chain, Request
<1>3. CASE Request(w) = "install"
  BY <1>2, <1>3 DEF Copies, Request
<1>4. CASE Request(w) = "clone"
  BY <1>2, <1>4 DEF Copies, Request
<1>5. CASE Request(w) = "push"
  BY <1>2, <1>5 DEF Copies, Request
<1>6. CASE Request(w) = "import"
  BY <1>2, <1>6 DEF Copies, Request
<1>7. QED
  BY <1>3, <1>4, <1>5, <1>6, JobFacts

\* When a job is done.
LEMMA Position ==
    ASSUME JobTypes, NEW w \in Workers, Active(w)
    PROVE  /\ Request(w) = "install" => (Done(w) <=> job[w].step > 8)
           /\ Copies(w) /\ ~job[w].order.db => (Done(w) <=> job[w].step > 3)
           /\ Request(w) = "clone" /\ job[w].order.db => (Done(w) <=> job[w].step > 6)
           /\ Request(w) = "push" /\ job[w].order.db => (Done(w) <=> job[w].step > 7)
           /\ Request(w) = "import" /\ ~job[w].order.db => (Done(w) <=> job[w].step > 2)
           /\ Request(w) = "import" /\ job[w].order.db => (Done(w) <=> job[w].step > 6)
<1>1. CASE Request(w) = "install"
  <2>1. Chain[job[w].order] = Install
    BY <1>1, ChainOf
  <2>2. Done(w) <=> job[w].step > 8
    BY <2>1, Chains DEF Done
  <2>3. QED
    BY <1>1, <2>2, Zenon DEF Copies, Request
<1>2. CASE Copies(w) /\ ~job[w].order.db
  <2>1. Chain[job[w].order] = CopyFiles
    BY <1>2, ChainOf
  <2>2. Done(w) <=> job[w].step > 3
    BY <2>1, Chains DEF Done
  <2>3. QED
    BY <1>2, <2>2, Zenon DEF Copies, Request
<1>3. CASE Request(w) = "clone" /\ job[w].order.db
  <2>1. Chain[job[w].order] = CopyBoth
    BY <1>3, ChainOf
  <2>2. Done(w) <=> job[w].step > 6
    BY <2>1, Chains DEF Done
  <2>3. QED
    BY <1>3, <2>2, Zenon DEF Copies, Request
<1>4. CASE Request(w) = "push" /\ job[w].order.db
  <2>1. Chain[job[w].order] = PushBoth
    BY <1>4, ChainOf
  <2>2. Done(w) <=> job[w].step > 7
    BY <2>1, Chains DEF Done
  <2>3. QED
    BY <1>4, <2>2, Zenon DEF Copies, Request
<1>5. CASE Request(w) = "import" /\ ~job[w].order.db
  <2>1. Chain[job[w].order] = ImportFiles
    BY <1>5, ChainOf
  <2>2. Done(w) <=> job[w].step > 2
    BY <2>1, Chains DEF Done
  <2>3. QED
    BY <1>5, <2>2, Zenon DEF Copies, Request
<1>6. CASE Request(w) = "import" /\ job[w].order.db
  <2>1. Chain[job[w].order] = ImportBoth
    BY <1>6, ChainOf
  <2>2. Done(w) <=> job[w].step > 6
    BY <2>1, Chains DEF Done
  <2>3. QED
    BY <1>6, <2>2, Zenon DEF Copies, Request
<1>7. QED
  BY <1>1, <1>2, <1>3, <1>4, <1>5, <1>6

\* One of the chains is that of the job.
LEMMA SomeChain ==
    ASSUME JobTypes, NEW w \in Workers, Active(w)
    PROVE  \/ Request(w) = "install"
           \/ Copies(w) /\ ~job[w].order.db
           \/ Request(w) = "clone" /\ job[w].order.db
           \/ Request(w) = "push" /\ job[w].order.db
           \/ Request(w) = "import" /\ ~job[w].order.db
           \/ Request(w) = "import" /\ job[w].order.db
BY JobFacts DEF Copies, Request

\* Which jobs can be at a step of a copy, and how far they have come.
LEMMA Places ==
    ASSUME JobTypes, NEW w \in Workers
    PROVE  /\ At(w, "mkdir") => Copying(w, 1)
           /\ At(w, "rsync") => Copying(w, 2)
           /\ At(w, "copied") => Copying(w, 3)
           /\ At(w, "dump") => Copying(w, 4)
           /\ At(w, "wait dump") => Copying(w, 5)
           /\ At(w, "wait load") => Copying(w, 6)
           /\ At(w, "replace") => Copying(w, 7) \/ Importing(w, 6)
<1>1. CASE ~Active(w) \/ Done(w)
  BY <1>1 DEF At
<1>2. CASE Active(w) /\ ~Done(w) /\ Request(w) = "install"
  <2>1. \/ job[w].step = 1 \/ job[w].step = 2 \/ job[w].step = 3 \/ job[w].step = 4
        \/ job[w].step = 5 \/ job[w].step = 6 \/ job[w].step = 7 \/ job[w].step = 8
    <3>1. ~(job[w].step > 8) /\ job[w].step \in 1..9
      BY <1>2, Position, JobFacts DEF Job
    <3>2. QED
      BY <3>1
  <2> DEFINE name == Install[job[w].step]
  <2>2. \A x : At(w, x) => name = x
    BY <1>2, ChainOf DEF At
  <2>3. name \notin
              {"mkdir", "rsync", "copied", "dump", "wait dump", "wait load", "replace"}
    BY <2>1, Chains
  <2> HIDE DEF name
  <2>4. QED
    BY <1>2, <2>2, <2>3 DEF Installing
<1>3. CASE Active(w) /\ ~Done(w) /\ Copies(w) /\ ~job[w].order.db
  <2>1. job[w].step = 1 \/ job[w].step = 2 \/ job[w].step = 3
    <3>1. ~(job[w].step > 3) /\ job[w].step \in 1..9
      BY <1>3, Position, JobFacts DEF Job
    <3>2. QED
      BY <3>1
  <2> DEFINE name == CopyFiles[job[w].step]
  <2>2. \A x : At(w, x) => name = x
    BY <1>3, ChainOf DEF At
  <2>3. /\ name = "mkdir" => job[w].step = 1
        /\ name = "rsync" => job[w].step = 2
        /\ name = "copied" => job[w].step = 3
        /\ name \notin
              {"dump", "wait dump", "wait load", "replace"}
    BY <2>1, Chains
  <2> HIDE DEF name
  <2>4. QED
    BY <1>3, <2>2, <2>3 DEF Copying
<1>4. CASE Active(w) /\ ~Done(w) /\ Request(w) = "clone" /\ job[w].order.db
  <2>1. \/ job[w].step = 1 \/ job[w].step = 2 \/ job[w].step = 3 \/ job[w].step = 4
        \/ job[w].step = 5 \/ job[w].step = 6
    <3>1. ~(job[w].step > 6) /\ job[w].step \in 1..9
      BY <1>4, Position, JobFacts DEF Job
    <3>2. QED
      BY <3>1
  <2> DEFINE name == CopyBoth[job[w].step]
  <2>2. \A x : At(w, x) => name = x
    BY <1>4, ChainOf DEF At
  <2>3. /\ name = "mkdir" => job[w].step = 1
        /\ name = "rsync" => job[w].step = 2
        /\ name = "copied" => job[w].step = 3
        /\ name = "dump" => job[w].step = 4
        /\ name = "wait dump" => job[w].step = 5
        /\ name = "wait load" => job[w].step = 6
        /\ name \notin
              {"replace"}
    BY <2>1, Chains
  <2> HIDE DEF name
  <2>4. QED
    BY <1>4, <2>2, <2>3 DEF Copying, Copies, Request
<1>5. CASE Active(w) /\ ~Done(w) /\ Request(w) = "push" /\ job[w].order.db
  <2>1. \/ job[w].step = 1 \/ job[w].step = 2 \/ job[w].step = 3 \/ job[w].step = 4
        \/ job[w].step = 5 \/ job[w].step = 6 \/ job[w].step = 7
    <3>1. ~(job[w].step > 7) /\ job[w].step \in 1..9
      BY <1>5, Position, JobFacts DEF Job
    <3>2. QED
      BY <3>1
  <2> DEFINE name == PushBoth[job[w].step]
  <2>2. \A x : At(w, x) => name = x
    BY <1>5, ChainOf DEF At
  <2>3. /\ name = "mkdir" => job[w].step = 1
        /\ name = "rsync" => job[w].step = 2
        /\ name = "copied" => job[w].step = 3
        /\ name = "dump" => job[w].step = 4
        /\ name = "wait dump" => job[w].step = 5
        /\ name = "wait load" => job[w].step = 6
        /\ name = "replace" => job[w].step = 7
    BY <2>1, Chains
  <2> HIDE DEF name
  <2>4. QED
    BY <1>5, <2>2, <2>3 DEF Copying, Copies, Request
<1>6. CASE Active(w) /\ ~Done(w) /\ Request(w) = "import" /\ ~job[w].order.db
  <2>1. job[w].step = 1 \/ job[w].step = 2
    <3>1. ~(job[w].step > 2) /\ job[w].step \in 1..9
      BY <1>6, Position, JobFacts DEF Job
    <3>2. QED
      BY <3>1
  <2> DEFINE name == ImportFiles[job[w].step]
  <2>2. \A x : At(w, x) => name = x
    BY <1>6, ChainOf DEF At
  <2>3. name \notin
              {"mkdir", "rsync", "copied", "dump", "wait dump", "wait load", "replace"}
    BY <2>1, Chains
  <2> HIDE DEF name
  <2>4. QED
    BY <1>6, <2>2, <2>3 DEF Importing
<1>7. CASE Active(w) /\ ~Done(w) /\ Request(w) = "import" /\ job[w].order.db
  <2>1. \/ job[w].step = 1 \/ job[w].step = 2 \/ job[w].step = 3 \/ job[w].step = 4
        \/ job[w].step = 5 \/ job[w].step = 6
    <3>1. ~(job[w].step > 6) /\ job[w].step \in 1..9
      BY <1>7, Position, JobFacts DEF Job
    <3>2. QED
      BY <3>1
  <2> DEFINE name == ImportBoth[job[w].step]
  <2>2. \A x : At(w, x) => name = x
    BY <1>7, ChainOf DEF At
  <2>3. /\ name = "replace" => job[w].step = 6
        /\ name \notin
              {"mkdir", "rsync", "copied", "dump", "wait dump", "wait load"}
    BY <2>1, Chains
  <2> HIDE DEF name
  <2>4. QED
    BY <1>7, <2>2, <2>3 DEF Importing
<1>8. QED
  BY <1>1, <1>2, <1>3, <1>4, <1>5, <1>6, <1>7, SomeChain

\* The same of the other steps.
LEMMA OtherPlaces ==
    ASSUME JobTypes, NEW w \in Workers
    PROVE  /\ At(w, "provision") => Installing(w, 1)
           /\ At(w, "wp-cli") => Installing(w, 2)
           /\ At(w, "open wp-cli") => Installing(w, 3)
           /\ At(w, "fill wp-cli") => Installing(w, 4)
           /\ At(w, "core") => Installing(w, 5)
           /\ At(w, "read") => Installing(w, 6) \/ Importing(w, 1)
           /\ At(w, "config") => Installing(w, 7)
           /\ At(w, "install") => Installing(w, 8)
           /\ At(w, "extract") =>
                (Importing(w, 1) /\ ~job[w].order.db) \/ (Importing(w, 4) /\ job[w].order.db)
           /\ At(w, "extracted") =>
                (Importing(w, 2) /\ ~job[w].order.db) \/ (Importing(w, 5) /\ job[w].order.db)
           /\ At(w, "load") => (Importing(w, 2) /\ job[w].order.db)
           /\ At(w, "loaded") => (Importing(w, 3) /\ job[w].order.db)
<1>1. CASE ~Active(w) \/ Done(w)
  BY <1>1 DEF At
<1>2. CASE Active(w) /\ ~Done(w) /\ Request(w) = "install"
  <2>1. \/ job[w].step = 1 \/ job[w].step = 2 \/ job[w].step = 3 \/ job[w].step = 4
        \/ job[w].step = 5 \/ job[w].step = 6 \/ job[w].step = 7 \/ job[w].step = 8
    <3>1. ~(job[w].step > 8) /\ job[w].step \in 1..9
      BY <1>2, Position, JobFacts DEF Job
    <3>2. QED
      BY <3>1
  <2> DEFINE name == Install[job[w].step]
  <2>2. \A x : At(w, x) => name = x
    BY <1>2, ChainOf DEF At
  <2>3. /\ name = "provision" => job[w].step = 1
        /\ name = "wp-cli" => job[w].step = 2
        /\ name = "open wp-cli" => job[w].step = 3
        /\ name = "fill wp-cli" => job[w].step = 4
        /\ name = "core" => job[w].step = 5
        /\ name = "read" => job[w].step = 6
        /\ name = "config" => job[w].step = 7
        /\ name = "install" => job[w].step = 8
        /\ name \notin
              {"extract", "extracted", "load", "loaded"}
    BY <2>1, Chains
  <2> HIDE DEF name
  <2>4. QED
    BY <1>2, <2>2, <2>3 DEF Installing
<1>3. CASE Active(w) /\ ~Done(w) /\ Copies(w) /\ ~job[w].order.db
  <2>1. job[w].step = 1 \/ job[w].step = 2 \/ job[w].step = 3
    <3>1. ~(job[w].step > 3) /\ job[w].step \in 1..9
      BY <1>3, Position, JobFacts DEF Job
    <3>2. QED
      BY <3>1
  <2> DEFINE name == CopyFiles[job[w].step]
  <2>2. \A x : At(w, x) => name = x
    BY <1>3, ChainOf DEF At
  <2>3. name \notin
              {"provision", "wp-cli", "open wp-cli", "fill wp-cli", "core", "read",
               "config", "install", "extract", "extracted", "load", "loaded"}
    BY <2>1, Chains
  <2> HIDE DEF name
  <2>4. QED
    BY <1>3, <2>2, <2>3 DEF Copying
<1>4. CASE Active(w) /\ ~Done(w) /\ Request(w) = "clone" /\ job[w].order.db
  <2>1. \/ job[w].step = 1 \/ job[w].step = 2 \/ job[w].step = 3 \/ job[w].step = 4
        \/ job[w].step = 5 \/ job[w].step = 6
    <3>1. ~(job[w].step > 6) /\ job[w].step \in 1..9
      BY <1>4, Position, JobFacts DEF Job
    <3>2. QED
      BY <3>1
  <2> DEFINE name == CopyBoth[job[w].step]
  <2>2. \A x : At(w, x) => name = x
    BY <1>4, ChainOf DEF At
  <2>3. name \notin
              {"provision", "wp-cli", "open wp-cli", "fill wp-cli", "core", "read",
               "config", "install", "extract", "extracted", "load", "loaded"}
    BY <2>1, Chains
  <2> HIDE DEF name
  <2>4. QED
    BY <1>4, <2>2, <2>3 DEF Copying, Copies, Request
<1>5. CASE Active(w) /\ ~Done(w) /\ Request(w) = "push" /\ job[w].order.db
  <2>1. \/ job[w].step = 1 \/ job[w].step = 2 \/ job[w].step = 3 \/ job[w].step = 4
        \/ job[w].step = 5 \/ job[w].step = 6 \/ job[w].step = 7
    <3>1. ~(job[w].step > 7) /\ job[w].step \in 1..9
      BY <1>5, Position, JobFacts DEF Job
    <3>2. QED
      BY <3>1
  <2> DEFINE name == PushBoth[job[w].step]
  <2>2. \A x : At(w, x) => name = x
    BY <1>5, ChainOf DEF At
  <2>3. name \notin
              {"provision", "wp-cli", "open wp-cli", "fill wp-cli", "core", "read",
               "config", "install", "extract", "extracted", "load", "loaded"}
    BY <2>1, Chains
  <2> HIDE DEF name
  <2>4. QED
    BY <1>5, <2>2, <2>3 DEF Copying, Copies, Request
<1>6. CASE Active(w) /\ ~Done(w) /\ Request(w) = "import" /\ ~job[w].order.db
  <2>1. job[w].step = 1 \/ job[w].step = 2
    <3>1. ~(job[w].step > 2) /\ job[w].step \in 1..9
      BY <1>6, Position, JobFacts DEF Job
    <3>2. QED
      BY <3>1
  <2> DEFINE name == ImportFiles[job[w].step]
  <2>2. \A x : At(w, x) => name = x
    BY <1>6, ChainOf DEF At
  <2>3. /\ name = "extract" => job[w].step = 1
        /\ name = "extracted" => job[w].step = 2
        /\ name \notin
              {"provision", "wp-cli", "open wp-cli", "fill wp-cli", "core", "read",
               "config", "install", "load", "loaded"}
    BY <2>1, Chains
  <2> HIDE DEF name
  <2>4. QED
    BY <1>6, <2>2, <2>3 DEF Importing
<1>7. CASE Active(w) /\ ~Done(w) /\ Request(w) = "import" /\ job[w].order.db
  <2>1. \/ job[w].step = 1 \/ job[w].step = 2 \/ job[w].step = 3 \/ job[w].step = 4
        \/ job[w].step = 5 \/ job[w].step = 6
    <3>1. ~(job[w].step > 6) /\ job[w].step \in 1..9
      BY <1>7, Position, JobFacts DEF Job
    <3>2. QED
      BY <3>1
  <2> DEFINE name == ImportBoth[job[w].step]
  <2>2. \A x : At(w, x) => name = x
    BY <1>7, ChainOf DEF At
  <2>3. /\ name = "read" => job[w].step = 1
        /\ name = "load" => job[w].step = 2
        /\ name = "loaded" => job[w].step = 3
        /\ name = "extract" => job[w].step = 4
        /\ name = "extracted" => job[w].step = 5
        /\ name \notin
              {"provision", "wp-cli", "open wp-cli", "fill wp-cli", "core",
               "config", "install"}
    BY <2>1, Chains
  <2> HIDE DEF name
  <2>4. QED
    BY <1>7, <2>2, <2>3 DEF Importing
<1>8. QED
  BY <1>1, <1>2, <1>3, <1>4, <1>5, <1>6, <1>7, SomeChain

\* A job that is not done has at most the last step of the longest chain ahead.
LEMMA NotDone ==
    ASSUME JobTypes, NEW w \in Workers, Active(w), ~Done(w)
    PROVE  job[w].step \in 1..8
<1>1. job[w].step \in 1..9
  BY JobFacts DEF Job
<1>2. \E n \in {2, 3, 6, 7, 8} : ~(job[w].step > n)
  BY Position, SomeChain
<1>3. QED
  BY <1>1, <1>2

\* A job that streams stands at the end of the stream.
LEMMA StreamsLoad ==
    ASSUME JobTypes, NEW w \in Workers
    PROVE  Streams(w) <=> At(w, "loaded")
<1>1. ASSUME Streams(w) PROVE At(w, "loaded")
  <2>1. Active(w) /\ Request(w) = "import" /\ job[w].order.db
    BY <1>1 DEF Streams, Request
  <2>2. Chain[job[w].order] = ImportBoth /\ (Done(w) <=> job[w].step > 6)
    BY <2>1, ChainOf, Position
  <2>3. ~Done(w) /\ job[w].step = 3
    BY <1>1, <2>2 DEF Streams
  <2>4. QED
    BY <2>1, <2>2, <2>3, Chains DEF At
<1>2. ASSUME At(w, "loaded") PROVE Streams(w)
  BY <1>2, OtherPlaces DEF Importing, Streams, Request
<1>3. QED
  BY <1>1, <1>2

-----------------------------------------------------------------------------
(* What all steps have in common.                                          *)

\* No record of a job is the record of having none.
LEMMA JobIsNotIdle == \A j \in Job : j # Idle
BY DEF Job, Idle

(* A job that a step is not about goes on as it was, or is not clean.      *)
Alike(x) ==
    /\ Active(x)' <=> Active(x)
    /\ Active(x) =>
          /\ job'[x].order = job[x].order /\ job'[x].step = job[x].step
          /\ job'[x].seen = job[x].seen /\ job'[x].snap = job[x].snap
          /\ job'[x].dump = job[x].dump /\ job'[x].load = job[x].load
          /\ job'[x].link = job[x].link
          /\ job'[x].clean => job[x].clean

(* Nothing a clean copy has read or written is changed under it.           *)
Undisturbed(x) ==
    Active(x) /\ job'[x].clean /\ Copies(x) =>
        /\ files'[Source(x)] = files[Source(x)] /\ files'[Target(x)] = files[Target(x)]
        /\ db'[To(x)].data = db[To(x)].data

Holds(s) == promise'[s] # None =>
    /\ promise'[s] = promise[s] /\ db'[s].data = db[s].data
    /\ files'[Named[s]] = files[Named[s]]

(* A step of the job of w, or of no job if W is empty, keeps the rest.     *)
Local(W) ==
    /\ SiteTypes' /\ JobTypes'
    /\ \A x \in Workers \ W : Alike(x) /\ Undisturbed(x)
    /\ \A s \in Sites : (\A w \in W : s # To(w)) => Holds(s)

Kept(s) == promise[s] # None =>
    /\ files[Named[s]] = promise[s].files
    /\ promise[s].data # None => Named[s] = s /\ db[s].data = promise[s].data

(* What the step makes of the job of w itself.                             *)
Own(w) ==
    /\ Active(w)
    /\ Active(w)' => /\ job'[w].order = job[w].order
                     /\ job'[w].clean => job[w].clean
    /\ Active(w)' /\ job'[w].clean /\ Copies(w)' => CleanCopy(w)'
    /\ Streams(w)' => Free(job[w].link.site)'
    /\ \A s \in Sites : s = To(w) /\ promise'[s] # None =>
          job[w].clean /\ Copies(w) /\ ~Active(w)' /\ Kept(s)'

\* The directory named after the whole id of a site is no other site's.
LEMMA Apart ==
    ASSUME NEW s \in Sites, NEW t \in Sites, s # t
    PROVE  Named[s] \in Directories /\ Named[s] # t /\ Named[s] # Named[t]
BY ContentConstants

\* Nor is it touched when only other sites are.
LEMMA Untouched ==
    ASSUME NEW s \in Sites, NEW touched \in SUBSET Sites, s \notin touched
    PROVE  Named[s] \in Directories \ touched
BY Apart, ContentConstants

(* The directories a job writes to.                                        *)
Written(w) == {To(w), Target(w)}

\* What a clean copy has brought over stays.
LEMMA AlikeIsClean ==
    ASSUME NEW x, Active(x), Alike(x), Undisturbed(x), job'[x].clean, Copies(x),
           CleanCopy(x)
    PROVE  CleanCopy(x)'
<1>1. From(x)' = From(x) /\ To(x)' = To(x)
  BY DEF Alike, From, To
<1>2. Copied(x) => Copied(x)'
  BY <1>1 DEF Alike, Undisturbed, Copied
<1>3. Source(x)' = Source(x) /\ Target(x)' = Target(x)
  BY <1>1 DEF Source, Target
<1>4. QED
  BY <1>1, <1>2, <1>3 DEF Alike, Undisturbed, CleanCopy

\* A local step keeps the inductive invariant if it makes of its own job and
\* site what its place in the chain says.
LEMMA LocalStep ==
    ASSUME IInv, NEW W \in SUBSET Workers, \A w, x \in W : w = x,
           Local(W), \A w \in W : Own(w)
    PROVE  IInv'
<1>1. ASSUME NEW x \in Workers, Active(x)'
      PROVE  /\ Active(x) /\ job'[x].order = job[x].order
             /\ From(x)' = From(x) /\ To(x)' = To(x) /\ (Copies(x)' <=> Copies(x))
             /\ job'[x].clean => job[x].clean
  <2>1. CASE x \in W
    BY <1>1, <2>1 DEF Own, From, To, Copies
  <2>2. CASE x \notin W
    BY <1>1, <2>2 DEF Local, Alike, From, To, Copies
  <2>3. QED
    BY <2>1, <2>2
<1>2. Alone'
  BY <1>1 DEF IInv, Alone
<1>3. \A x \in Workers : Active(x) => To(x) \in Sites
  BY JobFacts DEF IInv
<1>4. ASSUME NEW x \in Workers, Active(x)', NEW w \in W, To(w) = To(x)
      PROVE  promise'[To(x)] = None
  <2> SUFFICES ASSUME promise'[To(x)] # None PROVE FALSE
    OBVIOUS
  <2>1. Active(w) /\ job[w].clean /\ ~Active(w)'
    BY <1>1, <1>3, <1>4 DEF Own
  <2>2. x # w /\ Active(x) /\ w \in Workers
    BY <1>1, <1>4, <2>1
  <2>3. Touches(job[w].order) \cap Touches(job[x].order) = {}
    BY <2>1, <2>2 DEF IInv, Alone
  <2>4. QED
    BY <1>4, <2>3 DEF Touches, To
<1>5. Quiet'
  <2> SUFFICES ASSUME NEW x \in Workers, Active(x)' PROVE promise'[To(x)] = None
    BY <1>1 DEF Quiet
  <2>1. CASE \E w \in W : To(w) = To(x)
    BY <1>4, <2>1
  <2>2. CASE \A w \in W : To(x) # To(w)
    <3>1. Holds(To(x)) /\ promise[To(x)] = None
      BY <1>1, <1>3, <2>2 DEF Local, IInv, Quiet
    <3>2. QED
      BY <3>1 DEF Holds
  <2>3. QED
    BY <2>1, <2>2
<1>6. Loading'
  <2> SUFFICES ASSUME NEW x \in Workers, Streams(x)' PROVE Free(job[x].link.site)'
    BY DEF Loading
  <2>1. CASE x \in W
    BY <2>1 DEF Own
  <2>2. CASE x \notin W
    <3>1. Streams(x) /\ job'[x].link = job[x].link
      BY <2>2 DEF Local, Alike, Streams
    <3> DEFINE d == job[x].link.site
    <3>2. Free(d)
      BY <3>1 DEF IInv, Loading
    <3>3. ASSUME d \in Sites PROVE promise'[d] = None
      <4>1. CASE \A w \in W : d # To(w)
        BY <3>2, <3>3, <4>1 DEF Local, Holds, Free
      <4>2. CASE \E w \in W : d = To(w)
        <5> PICK w \in W : d = To(w)
          BY <4>2
        <5>1. promise'[d] # None => Active(w) /\ job[w].clean /\ Copies(w)
          BY <3>3 DEF Own
        <5>2. QED
          BY <3>2, <5>1 DEF Free
      <4>3. QED
        BY <4>1, <4>2
    <3>4. ASSUME NEW y \in Workers, Active(y)', job'[y].clean, Copies(y)'
          PROVE  To(y)' # d
      BY <1>1, <3>2, <3>4 DEF Free
    <3>5. d' = d
      BY <3>1
    <3> HIDE DEF d
    <3>6. Free(d)'
      BY <3>3, <3>4, <3>5 DEF Free
    <3>7. QED
      BY <3>6 DEF d
  <2>3. QED
    BY <2>1, <2>2
<1>7. Progress'
  <2> SUFFICES ASSUME NEW x \in Workers, Active(x)', job'[x].clean, Copies(x)'
               PROVE  CleanCopy(x)'
    BY DEF Progress
  <2>1. CASE x \in W
    BY <2>1 DEF Own
  <2>2. CASE x \notin W
    <3>1. /\ Active(x) /\ Alike(x) /\ Undisturbed(x) /\ Copies(x) /\ job[x].clean
          /\ CleanCopy(x)
      BY <1>1, <2>2 DEF Local, IInv, Progress
    <3>2. QED
      BY <3>1, AlikeIsClean
  <2>3. QED
    BY <2>1, <2>2
<1>8. CopyIsWhole'
  <2> SUFFICES ASSUME NEW s \in Sites, promise'[s] # None PROVE Kept(s)'
    BY DEF CopyIsWhole, Kept
  <2>1. CASE \E w \in W : s = To(w)
    <3> PICK w \in W : s = To(w)
      BY <2>1
    <3>1. QED
      BY DEF Own
  <2>2. CASE \A w \in W : s # To(w)
    <3>1. Holds(s)
      BY <2>2 DEF Local
    <3>2. QED
      BY <3>1 DEF Holds, Kept, IInv, CopyIsWhole
  <2>3. QED
    BY <2>1, <2>2
<1>9. QED
  BY <1>2, <1>5, <1>6, <1>7, <1>8 DEF IInv, Local

\* A step that puts another record of its job in the place of the old one. It
\* writes to the site of the job, or to a database that is free to be filled.
LEMMA OwnStep ==
    ASSUME IInv, NEW w \in Workers, Active(w), NEW j \in Job,
           job' = [job EXCEPT ![w] = j], j.order = job[w].order,
           j.clean => job[w].clean,
           SiteTypes', done' = done, promise' = promise,
           \A d \in Directories \ Written(w) : files'[d] = files[d],
           \A s \in Sites : s # To(w) /\ db'[s].data # db[s].data => Free(s),
           job'[w] = j /\ To(w)' = To(w) /\ From(w)' = From(w)
           /\ Copies(w) /\ CleanCopy(w) /\ job[w].clean /\ j.clean => CleanCopy(w)',
           Streams(w)' => Streams(w) /\ j.link = job[w].link
    PROVE  IInv'
<1>1. job'[w] = j /\ \A x \in Workers \ {w} : job'[x] = job[x]
  BY DEF IInv, JobTypes
<1>2. JobTypes'
  BY DEF IInv, JobTypes
<1>3. Active(w)' /\ To(w)' = To(w) /\ From(w)' = From(w) /\ (Copies(w)' <=> Copies(w))
  BY <1>1, JobIsNotIdle DEF Active, To, From, Copies
<1>4. ASSUME NEW x \in Workers \ {w} PROVE Alike(x) /\ Undisturbed(x)
  <2>1. job'[x] = job[x]
    BY <1>1
  <2>2. Alike(x)
    BY <2>1 DEF Alike, Active
  <2>3. ASSUME Active(x), job'[x].clean, Copies(x)
        PROVE  /\ files'[Source(x)] = files[Source(x)] /\ files'[Target(x)] = files[Target(x)]
               /\ db'[To(x)].data = db[To(x)].data
    <3>1. Touches(job[x].order) \cap Touches(job[w].order) = {}
      BY <2>1, <2>3 DEF IInv, Alone
    <3>2. From(x) # To(w) /\ To(x) # To(w)
      BY <3>1 DEF Touches, From, To
    <3>3. From(x) \in Sites /\ To(x) \in Sites /\ To(w) \in Sites
      BY <2>3, JobFacts DEF IInv
    <3>4. ~Free(To(x))
      BY <2>1, <2>3 DEF Free
    <3>5. {Source(x), Target(x)} \subseteq Directories \ Written(w)
      BY <3>2, <3>3, Apart DEF Source, Target, Written
    <3>6. QED
      BY <3>2, <3>3, <3>4, <3>5
  <2>4. QED
    BY <2>2, <2>3 DEF Undisturbed
<1>5. \A s \in Sites : s # To(w) => Holds(s)
  <2>1. To(w) \in Sites
    BY JobFacts DEF IInv
  <2>2. \A s \in Sites : s # To(w) => files'[Named[s]] = files[Named[s]]
    BY <2>1, Apart DEF Target, Written
  <2>3. QED
    BY <2>2 DEF Holds, Free
<1>6. Local({w})
  BY <1>2, <1>4, <1>5 DEF Local
<1>7. Active(w)' /\ job'[w].clean /\ Copies(w)' => CleanCopy(w)'
  BY <1>1, <1>3 DEF IInv, Progress
<1>8. ASSUME Streams(w)' PROVE Free(job[w].link.site)'
  <2>1. Streams(w) /\ job'[w].link = job[w].link
    BY <1>1, <1>8
  <2>2. Free(job[w].link.site)
    BY <2>1 DEF IInv, Loading
  <2>3. ~Copies(w)'
    BY <1>8 DEF Streams, Copies
  <2>4. ASSUME NEW x \in Workers, Active(x)', job'[x].clean, Copies(x)'
        PROVE  To(x)' # job[w].link.site
    <3>1. x # w
      BY <2>3, <2>4
    <3>2. job'[x] = job[x]
      BY <1>1, <3>1
    <3>3. QED
      BY <2>2, <2>4, <3>2 DEF Free, Active, Copies, To
  <2>5. QED
    BY <2>1, <2>2, <2>4 DEF Free
<1>9. promise'[To(w)] = None
  BY DEF IInv, Quiet
<1>10. Own(w)
  BY <1>1, <1>3, <1>7, <1>8, <1>9 DEF Own
<1>11. QED
  BY <1>6, <1>10, LocalStep

(* The job is one step further, and otherwise the same.                    *)
Moved(w) ==
    /\ To(w)' = To(w) /\ From(w)' = From(w)
    /\ job'[w].seen = job[w].seen /\ job'[w].snap = job[w].snap
    /\ job'[w].dump = job[w].dump /\ job'[w].load = job[w].load
    /\ job'[w].step = job[w].step + 1

\* A step that only advances its job, and does not begin to fill a database.
LEMMA AdvanceStep ==
    ASSUME IInv, NEW w \in Workers, Active(w), ~Done(w),
           job' = [job EXCEPT ![w].step = @ + 1],
           SiteTypes', done' = done, promise' = promise,
           \A d \in Directories \ Written(w) : files'[d] = files[d],
           \A s \in Sites : s # To(w) /\ db'[s].data # db[s].data => Free(s),
           Copies(w) /\ CleanCopy(w) /\ Moved(w) /\ job[w].clean => CleanCopy(w)',
           ~(Importing(w, 2) /\ job[w].order.db)
    PROVE  IInv'
<1> DEFINE j == [job[w] EXCEPT !.step = @ + 1]
<1>1. job[w] \in Job /\ job[w].step + 1 \in 1..9
  BY JobFacts, NotDone DEF IInv
<1>2. /\ j \in Job /\ j.order = job[w].order /\ j.clean = job[w].clean
      /\ j.seen = job[w].seen /\ j.snap = job[w].snap /\ j.link = job[w].link
      /\ j.dump = job[w].dump /\ j.load = job[w].load
      /\ j.step = job[w].step + 1
  BY <1>1 DEF Job
<1>3. job' = [job EXCEPT ![w] = j]
  OBVIOUS
<1> HIDE DEF j
<1>4. job'[w] = j /\ To(w)' = To(w) /\ From(w)' = From(w) => Moved(w)
  BY <1>2 DEF Moved
<1>5. job'[w] = j
  BY <1>3 DEF IInv, JobTypes
<1>6. ~Streams(w)'
  <2> SUFFICES ASSUME Streams(w)' PROVE FALSE
    OBVIOUS
  <2>1. Request(w) = "import" /\ job[w].order.db
    BY <1>2, <1>5 DEF Streams, Request
  <2>2. job[w].step + 1 = 3
    BY <1>2, <1>5 DEF Streams
  <2>3. job[w].step = 2
    BY <1>1, <2>2 DEF Job
  <2>4. QED
    BY <2>1, <2>3 DEF Importing
<1>7. QED
  BY <1>2, <1>3, <1>4, <1>6, OwnStep

\* A job that ends, without a promise or with one that holds.
LEMMA EndStep ==
    ASSUME IInv, NEW w \in Workers, Active(w), job' = [job EXCEPT ![w] = Idle],
           SiteTypes', done' \subseteq Orders, promise' \in [Sites -> Promise \cup {None}],
           \A d \in Directories \ Written(w) : files'[d] = files[d],
           \A s \in Sites : s # To(w) => promise'[s] = promise[s],
           db' = db,
           promise'[To(w)] # None =>
               job[w].clean /\ Copies(w) /\ \A s \in Sites : s = To(w) => Kept(s)'
    PROVE  IInv'
<1>1. job'[w] = Idle /\ \A x \in Workers \ {w} : job'[x] = job[x]
  BY DEF IInv, JobTypes
<1>2. JobTypes'
  BY DEF IInv, JobTypes
<1>3. ~Active(w)'
  BY <1>1 DEF Active
<1>4. ASSUME NEW x \in Workers \ {w} PROVE Alike(x) /\ Undisturbed(x)
  <2>1. job'[x] = job[x]
    BY <1>1
  <2>2. Alike(x)
    BY <2>1 DEF Alike, Active
  <2>3. ASSUME Active(x), job'[x].clean
        PROVE  files'[Source(x)] = files[Source(x)] /\ files'[Target(x)] = files[Target(x)]
    <3>1. Touches(job[x].order) \cap Touches(job[w].order) = {}
      BY <2>1, <2>3 DEF IInv, Alone
    <3>2. From(x) # To(w) /\ To(x) # To(w)
      BY <3>1 DEF Touches, From, To
    <3>3. From(x) \in Sites /\ To(x) \in Sites /\ To(w) \in Sites
      BY <2>3, JobFacts DEF IInv
    <3>4. {Source(x), Target(x)} \subseteq Directories \ Written(w)
      BY <3>2, <3>3, Apart DEF Source, Target, Written
    <3>5. QED
      BY <3>4
  <2>4. QED
    BY <2>2, <2>3 DEF Undisturbed
<1>5. \A s \in Sites : s # To(w) => Holds(s)
  <2>1. To(w) \in Sites
    BY JobFacts DEF IInv
  <2>2. \A s \in Sites : s # To(w) => files'[Named[s]] = files[Named[s]]
    BY <2>1, Apart DEF Target, Written
  <2>3. QED
    BY <2>2 DEF Holds
<1>6. Local({w})
  BY <1>2, <1>4, <1>5 DEF Local
<1>7. Own(w)
  BY <1>3 DEF Own, Streams
<1>8. QED
  BY <1>6, <1>7, LocalStep

-----------------------------------------------------------------------------
(* The steps of an installation and of an import.                          *)

\* The steps that are no part of a copy write to their own site, and one to the
\* database it has been filling.
LEMMA PlainIInv ==
    ASSUME IInv, NEW w \in Workers,
           \/ Provision(w) \/ OpenWPCLI(w) \/ FillWPCLI(w) \/ KeepCore(w)
           \/ DownloadCore(w) \/ ConfigureWP(w) \/ KeepTables(w)
           \/ EndLoad(w) \/ BeginExtract(w) \/ EndExtract(w)
    PROVE  IInv'
<1> USE DEF siteVars, dbVars
<1>1. Active(w) /\ ~Done(w)
  BY DEF Provision, OpenWPCLI, FillWPCLI, KeepCore, DownloadCore, ConfigureWP,
     KeepTables, EndLoad, BeginExtract, EndExtract, At
<1>2. To(w) \in Sites /\ To(w) \in Directories /\ job[w] \in Job
  BY <1>1, JobFacts, ContentConstants DEF IInv
<1>3. ~Copies(w) /\ ~(Importing(w, 2) /\ job[w].order.db)
  <2>1. \/ \E n \in {1, 3, 4, 5, 7, 8} : Installing(w, n)
        \/ Importing(w, 3)
        \/ Importing(w, 1) \/ Importing(w, 4)
        \/ (Importing(w, 2) /\ ~job[w].order.db) \/ Importing(w, 5)
    BY OtherPlaces DEF IInv, Provision, OpenWPCLI, FillWPCLI, KeepCore, DownloadCore,
       ConfigureWP, KeepTables, EndLoad, BeginExtract, EndExtract
  <2>2. QED
    BY <2>1 DEF Installing, Importing, Copies, Request
<1>4. /\ job' = [job EXCEPT ![w].step = @ + 1]
      /\ done' = done /\ promise' = promise
  BY DEF Provision, OpenWPCLI, FillWPCLI, KeepCore, DownloadCore, ConfigureWP,
     KeepTables, EndLoad, BeginExtract, EndExtract, Advance
<1>5. \A d \in Directories \ Written(w) : files'[d] = files[d]
  BY DEF Written, IInv, SiteTypes, Provision, OpenWPCLI, FillWPCLI, KeepCore, DownloadCore,
     ConfigureWP, KeepTables, EndLoad, BeginExtract, EndExtract
<1>6. \A s \in Sites : db'[s].data # db[s].data => Free(s)
  <2>1. CASE EndLoad(w)
    <3>1. Free(job[w].link.site)
      BY <2>1, StreamsLoad DEF EndLoad, IInv, Loading
    <3>2. \A s \in Sites : s # job[w].link.site => db'[s] = db[s]
      BY <2>1 DEF EndLoad, IInv, SiteTypes
    <3>3. QED
      BY <3>1, <3>2
  <2>2. CASE ~EndLoad(w)
    BY <2>2 DEF Provision, OpenWPCLI, FillWPCLI, KeepCore, DownloadCore, ConfigureWP,
       KeepTables, BeginExtract, EndExtract
  <2>3. QED
    BY <2>1, <2>2
<1>7. SiteTypes'
  <2>1. wpcli' \in {"none", "part", "whole"}
    BY DEF IInv, SiteTypes, Provision, OpenWPCLI, FillWPCLI, KeepCore, DownloadCore,
       ConfigureWP, KeepTables, EndLoad, BeginExtract, EndExtract
  <2>2. account' \subseteq Sites /\ stray' \subseteq Sites
    BY <1>2 DEF IInv, SiteTypes, Provision, OpenWPCLI, FillWPCLI, KeepCore, DownloadCore,
       ConfigureWP, KeepTables, EndLoad, BeginExtract, EndExtract
  <2>3. files' \in [Directories -> Contents \cup {None}]
    BY <1>2 DEF IInv, SiteTypes, Provision, OpenWPCLI, FillWPCLI, KeepCore, DownloadCore,
       ConfigureWP, KeepTables, EndLoad, BeginExtract, EndExtract, Contents
  <2>4. keys' \in [Directories -> Link \cup {None}]
    <3>1. CASE Provision(w)
      <4>1. [site |-> To(w), right |-> To(w) \notin account] \in Link
        BY <1>2, Zenon DEF Link
      <4>2. QED
        BY <3>1, <4>1 DEF IInv, SiteTypes, Provision
    <3>2. CASE ~Provision(w)
      BY <3>2 DEF IInv, SiteTypes, OpenWPCLI, FillWPCLI, KeepCore, DownloadCore,
         ConfigureWP, KeepTables, EndLoad, BeginExtract, EndExtract
    <3>3. QED
      BY <3>1, <3>2
  <2>5. config' \in [Directories -> Link \cup {None}]
    <3>1. Configured(w) \in Link \cup {None}
      BY <1>2 DEF IInv, SiteTypes, Configured, Job
    <3>2. QED
      BY <3>1 DEF IInv, SiteTypes, Provision, OpenWPCLI, FillWPCLI, KeepCore, DownloadCore,
         ConfigureWP, KeepTables, EndLoad, BeginExtract, EndExtract
  <2>6. db' \in [Sites -> Database]
    <3>1. [data |-> "archive", url |-> "elsewhere"] \in Database
      BY DEF Database, Contents, Addresses
    <3>2. QED
      BY <3>1 DEF IInv, SiteTypes, Provision, OpenWPCLI, FillWPCLI, KeepCore, DownloadCore,
         ConfigureWP, KeepTables, EndLoad, BeginExtract, EndExtract
  <2>7. edited' = edited /\ faults' = faults
    BY DEF Provision, OpenWPCLI, FillWPCLI, KeepCore, DownloadCore, ConfigureWP,
       KeepTables, EndLoad, BeginExtract, EndExtract, Advance
  <2>8. QED
    BY <2>1, <2>2, <2>3, <2>4, <2>5, <2>6, <2>7 DEF IInv, SiteTypes
<1>8. QED
  BY <1>1, <1>3, <1>4, <1>5, <1>6, <1>7, AdvanceStep

\* wp-cli is there or has to be downloaded.
LEMMA FindIInv ==
    ASSUME IInv, NEW w \in Workers, FindWPCLI(w)
    PROVE  IInv'
<1> USE DEF siteVars, dbVars, FindWPCLI
<1> DEFINE j == [job[w] EXCEPT !.step = IF wpcli = "none" THEN @ + 1 ELSE @ + 3]
<1>1. Active(w) /\ Installing(w, 2) /\ job[w] \in Job
  BY OtherPlaces, JobFacts DEF IInv, At
<1>2. job[w].step = 2 /\ ~Copies(w) /\ Request(w) = "install"
  BY <1>1 DEF Installing, Copies, Request
<1>3. j \in Job /\ j.order = job[w].order /\ j.clean = job[w].clean
  BY <1>1, <1>2 DEF Job
<1>4. job' = [job EXCEPT ![w] = j] /\ done' = done /\ promise' = promise
  OBVIOUS
<1> HIDE DEF j
<1>5. SiteTypes' /\ files' = files /\ db' = db
  BY DEF IInv, SiteTypes
<1>6. ~Streams(w)'
  BY <1>2, <1>3, <1>4 DEF Streams, Request, IInv, JobTypes
<1>7. QED
  BY <1>1, <1>2, <1>3, <1>4, <1>5, <1>6, OwnStep

\* The credentials file is read, whose ever it is.
LEMMA ReadIInv ==
    ASSUME IInv, NEW w \in Workers, ReadCredentials(w)
    PROVE  IInv'
<1> USE DEF siteVars, dbVars, ReadCredentials
<1> DEFINE i == [job[w] EXCEPT !.step = @ + 1]
<1> DEFINE j == [i EXCEPT !.link = keys[To(w)]]
<1>1. /\ Active(w) /\ job[w] \in Job /\ To(w) \in Directories
      /\ Installing(w, 6) \/ Importing(w, 1)
  BY OtherPlaces, JobFacts, ContentConstants DEF IInv, At
<1>2. job[w].step \in {1, 6} /\ ~Copies(w)
  BY <1>1 DEF Installing, Importing, Copies, Request
<1>3. i \in Job /\ i.order = job[w].order /\ i.clean = job[w].clean /\ i.step # 3
  BY <1>1, <1>2 DEF Job
<1>4. job' = [job EXCEPT ![w] = j] /\ done' = done /\ promise' = promise
  OBVIOUS
<1> HIDE DEF i
<1>5. j \in Job /\ j.order = job[w].order /\ j.clean = job[w].clean /\ j.step # 3
  BY <1>1, <1>3 DEF Job, IInv, SiteTypes
<1> HIDE DEF j
<1>6. SiteTypes' /\ files' = files /\ db' = db
  BY DEF IInv, SiteTypes
<1>7. ~Streams(w)'
  BY <1>4, <1>5 DEF Streams, IInv, JobTypes
<1>8. QED
  BY <1>1, <1>2, <1>4, <1>5, <1>6, <1>7, OwnStep

\* The address is replaced in the database, whose ever it is, or is not: the
\* content is another matter.
LEMMA ReplaceIInv ==
    ASSUME IInv, NEW w \in Workers, SearchReplace(w) \/ ReplaceFails(w)
    PROVE  IInv'
<1> USE DEF siteVars, dbVars
<1>1. /\ Active(w) /\ ~Done(w) /\ job[w] \in Job /\ To(w) \in Sites
      /\ Copying(w, 7) \/ Importing(w, 6)
  BY Places, JobFacts DEF IInv, At, SearchReplace, ReplaceFails
<1>2. job[w].step \in {6, 7} /\ (Copies(w) => job[w].step = 7)
  BY <1>1 DEF Copying, Importing, Copies, Request
<1>3. \A s \in Sites : db'[s].data = db[s].data /\ db'[s] \in Database
  <2>1. \A s \in Sites : db[s] \in Database
    BY DEF IInv, SiteTypes
  <2>2. \A s \in Sites : db'[s] = db[s] \/ db'[s] = [db[s] EXCEPT !.url = To(w)]
    BY DEF IInv, SiteTypes, SearchReplace, ReplaceFails
  <2>3. To(w) \in Addresses
    BY <1>1 DEF Addresses
  <2>4. QED
    BY <2>1, <2>2, <2>3 DEF Database
<1>4. db' \in [Sites -> Database]
  <2>1. DOMAIN db' = Sites /\ db' = [s \in DOMAIN db' |-> db'[s]]
    BY DEF IInv, SiteTypes, SearchReplace, ReplaceFails
  <2>2. QED
    BY <1>3, <2>1
<1>5. UNCHANGED <<files, done, promise>>
  BY DEF SearchReplace, ReplaceFails, Advance
<1>6. SiteTypes'
  <2>1. UNCHANGED <<wpcli, account, stray, files, keys, config, edited>>
    BY DEF SearchReplace, ReplaceFails, Advance
  <2>2. faults' = faults \/ (faults < MaxFaults /\ faults' = faults + 1)
    BY Zenon DEF SearchReplace, ReplaceFails, Advance
  <2>3. faults' \in 0..MaxFaults
    BY <2>2, ContentConstants DEF IInv, SiteTypes
  <2>4. QED
    BY <1>4, <2>1, <2>3 DEF IInv, SiteTypes
<1>7. CASE SearchReplace(w)
  <2>1. job' = [job EXCEPT ![w].step = @ + 1]
    BY <1>7 DEF SearchReplace, Advance
  <2>2. ASSUME Copies(w), CleanCopy(w), Moved(w) PROVE CleanCopy(w)'
    <3>1. Copied(w) => Copied(w)'
      BY <1>1, <1>3, <2>2 DEF Moved, Copied
    <3>2. Copied(w)
      BY <1>2, <2>2 DEF CleanCopy
    <3>3. job'[w].step = 8 /\ files'[Target(w)] = files[Target(w)] /\ Target(w)' = Target(w)
      BY <1>2, <1>5, <2>2 DEF Moved, Target
    <3>4. QED
      BY <1>2, <2>2, <3>1, <3>2, <3>3 DEF CleanCopy, Moved
  <2>3. ~(Importing(w, 2) /\ job[w].order.db)
    BY <1>2 DEF Importing
  <2>4. QED
    BY <1>1, <1>3, <1>5, <1>6, <2>1, <2>2, <2>3, AdvanceStep
<1>8. CASE ReplaceFails(w)
  <2> DEFINE i == [job[w] EXCEPT !.step = @ + 1]
  <2> DEFINE j == [i EXCEPT !.clean = FALSE]
  <2>1. i \in Job /\ i.order = job[w].order /\ i.step # 3
    BY <1>1, <1>2 DEF Job
  <2>2. job' = [job EXCEPT ![w] = j]
    BY <1>8 DEF ReplaceFails
  <2> HIDE DEF i
  <2>3. j \in Job /\ j.order = job[w].order /\ ~j.clean /\ j.step # 3
    BY <2>1 DEF Job
  <2> HIDE DEF j
  <2>4. ~Streams(w)'
    BY <2>2, <2>3 DEF Streams, IInv, JobTypes
  <2>5. job'[w] = j
    BY <2>2 DEF IInv, JobTypes
  <2>6. QED
    BY <1>1, <1>3, <1>5, <1>6, <2>2, <2>3, <2>4, OwnStep
<1>9. QED
  BY <1>7, <1>8

-----------------------------------------------------------------------------
(* The steps of a copy.                                                    *)

\* A clone makes the directory; nothing has been copied yet.
LEMMA MakeDirectoryIInv ==
    ASSUME IInv, NEW w \in Workers, MakeDirectory(w)
    PROVE  IInv'
<1> USE DEF siteVars, dbVars, MakeDirectory
<1>1. Active(w) /\ ~Done(w) /\ job[w] \in Job /\ Copying(w, 1)
  BY Places, JobFacts DEF IInv, At
<1>2. job[w].step = 1
  BY <1>1 DEF Copying
<1>3. SiteTypes' /\ db' = db /\ \A d \in Directories \ Written(w) : files'[d] = files[d]
  BY DEF IInv, SiteTypes, Contents, Advance, Written
<1>4. job' = [job EXCEPT ![w].step = @ + 1] /\ done' = done /\ promise' = promise
  BY DEF Advance
<1>5. ASSUME CleanCopy(w), Moved(w) PROVE CleanCopy(w)'
  BY <1>2, <1>5 DEF CleanCopy, Moved
<1>6. ~(Importing(w, 2) /\ job[w].order.db)
  BY <1>2 DEF Importing
<1>7. QED
  BY <1>1, <1>3, <1>4, <1>5, <1>6, AdvanceStep

\* The directory is a mixture for a while, then what rsync has seen if nobody
\* changed it meanwhile.
LEMMA BeginRsyncIInv ==
    ASSUME IInv, NEW w \in Workers, BeginRsync(w)
    PROVE  IInv'
<1> USE DEF siteVars, dbVars, BeginRsync
<1> DEFINE i == [job[w] EXCEPT !.step = @ + 1]
<1> DEFINE j == [i EXCEPT !.seen = files[Source(w)]]
<1>1. /\ Active(w) /\ job[w] \in Job /\ To(w) \in Sites /\ From(w) \in Sites
      /\ Copying(w, 2)
  BY Places, JobFacts DEF IInv, At
<1>2. job[w].step = 2 /\ Copies(w)
  BY <1>1 DEF Copying
<1>3. /\ i \in Job /\ i.order = job[w].order /\ i.clean = job[w].clean /\ i.step = 3
      /\ i.load = job[w].load
  BY <1>1, <1>2 DEF Job
<1>4. job' = [job EXCEPT ![w] = j] /\ done' = done /\ promise' = promise
  OBVIOUS
<1> HIDE DEF i
<1>5. Source(w) \in Directories /\ files[Source(w)] \in Contents \cup {None}
      /\ files[Source(w)] # None
  BY <1>1, ContentConstants DEF IInv, SiteTypes, Source
<1>6. /\ j \in Job /\ j.order = job[w].order /\ j.clean = job[w].clean /\ j.step = 3
      /\ j.load = job[w].load /\ j.seen = files[Source(w)]
  BY <1>1, <1>3, <1>5 DEF Job
<1> HIDE DEF j
<1>7. SiteTypes' /\ db' = db
  BY DEF IInv, SiteTypes, Contents
<1>8. \A d \in Directories \ {Target(w)} : files'[d] = files[d]
  BY DEF IInv, SiteTypes
<1>9. \A d \in Directories \ Written(w) : files'[d] = files[d]
  BY <1>8 DEF Written
<1>10. ~Streams(w)'
  BY <1>2, <1>4, <1>6 DEF Streams, Copies, IInv, JobTypes
<1>11. ASSUME CleanCopy(w), job'[w] = j, To(w)' = To(w), From(w)' = From(w), job[w].clean
       PROVE  CleanCopy(w)'
  <2>1. job[w].load = "no"
    BY <1>2, <1>11 DEF CleanCopy
  <2>2. job'[w].step = 3 /\ job'[w].load = "no" /\ job'[w].seen = files[Source(w)]
    BY <1>6, <1>11, <2>1
  <2>3. To(w) # From(w)
    BY <1>1, <1>2, JobFacts, ContentConstants DEF IInv, Copies, To, From, Job
  <2>4. Source(w) # Target(w)
    BY <1>1, <2>3, Apart DEF Source, Target
  <2>5. files'[Source(w)] = files[Source(w)] /\ Source(w)' = Source(w)
    BY <1>5, <1>8, <1>11, <2>4 DEF Source
  <2>6. QED
    BY <1>5, <2>2, <2>5 DEF CleanCopy
<1>12. QED
  BY <1>1, <1>2, <1>4, <1>6, <1>7, <1>9, <1>10, <1>11, OwnStep

\* What rsync has copied is what it has seen, if the source is still that.
LEMMA EndRsyncIInv ==
    ASSUME IInv, NEW w \in Workers, EndRsync(w)
    PROVE  IInv'
<1> USE DEF siteVars, dbVars, EndRsync
<1>1. /\ Active(w) /\ ~Done(w) /\ job[w] \in Job /\ To(w) \in Sites /\ From(w) \in Sites
      /\ Copying(w, 3)
  BY Places, JobFacts DEF IInv, At
<1>2. job[w].step = 3 /\ Copies(w) /\ Request(w) # "import"
  BY <1>1 DEF Copying, Copies, Request
<1>3. job[w].seen \in Contents \cup {None}
  BY <1>1 DEF Job
<1>4. Source(w) \in Directories /\ Target(w) \in Directories
  BY <1>1, ContentConstants DEF Source, Target
<1>5. SiteTypes' /\ db' = db /\ \A d \in Directories \ Written(w) : files'[d] = files[d]
  BY <1>3, <1>4 DEF IInv, SiteTypes, Contents, Advance, Written
<1>6. job' = [job EXCEPT ![w].step = @ + 1] /\ done' = done /\ promise' = promise
  BY DEF Advance
<1>7. ASSUME CleanCopy(w), Moved(w) PROVE CleanCopy(w)'
  <2>1. files[Source(w)] = job[w].seen /\ job[w].seen # None /\ job[w].load = "no"
    BY <1>2, <1>7 DEF CleanCopy
  <2>2. files'[Target(w)] = job[w].seen /\ Target(w)' = Target(w)
    BY <1>4, <1>7, <2>1 DEF IInv, SiteTypes, Moved, Target
  <2>3. job'[w].step = 4
    BY <1>2, <1>7 DEF Moved
  <2>4. QED
    BY <1>7, <2>1, <2>2, <2>3 DEF CleanCopy, Moved
<1>8. ~(Importing(w, 2) /\ job[w].order.db)
  BY <1>2 DEF Importing
<1>9. QED
  BY <1>1, <1>5, <1>6, <1>7, <1>8, AdvanceStep

\* The dump and its import are started; the dump is that of this moment.
LEMMA StartPipeIInv ==
    ASSUME IInv, NEW w \in Workers, StartPipe(w)
    PROVE  IInv'
<1> USE DEF siteVars, dbVars
<1>0. PICK large \in BOOLEAN :
           job' = [job EXCEPT ![w].step = @ + 1, ![w].snap = db[From(w)],
                       ![w].large = large, ![w].dump = "runs", ![w].load = "runs"]
  BY DEF StartPipe
<1> DEFINE i == [job[w] EXCEPT !.step = @ + 1]
<1> DEFINE i2 == [i EXCEPT !.snap = db[From(w)]]
<1> DEFINE i3 == [i2 EXCEPT !.large = large]
<1> DEFINE i4 == [i3 EXCEPT !.dump = "runs"]
<1> DEFINE j == [i4 EXCEPT !.load = "runs"]
<1>1. /\ Active(w) /\ job[w] \in Job /\ To(w) \in Sites /\ From(w) \in Sites
      /\ Copying(w, 4)
  BY Places, JobFacts DEF IInv, At, StartPipe
<1>2. job[w].step = 4 /\ Copies(w)
  BY <1>1 DEF Copying
<1>3. job' = [job EXCEPT ![w] = j]
  BY <1>0
<1>4. /\ i \in Job /\ i.order = job[w].order /\ i.clean = job[w].clean /\ i.step = 5
      /\ i.seen = job[w].seen
  BY <1>1, <1>2 DEF Job
<1> HIDE DEF i
<1>5. db[From(w)] \in Database
  BY <1>1 DEF IInv, SiteTypes
<1>6. /\ i2 \in Job /\ i2.order = job[w].order /\ i2.clean = job[w].clean /\ i2.step = 5
      /\ i2.seen = job[w].seen
  BY <1>4, <1>5 DEF Job
<1> HIDE DEF i2
<1>7. /\ i3 \in Job /\ i3.order = job[w].order /\ i3.clean = job[w].clean /\ i3.step = 5
      /\ i3.seen = job[w].seen
  BY <1>6 DEF Job
<1> HIDE DEF i3
<1>8. /\ i4 \in Job /\ i4.order = job[w].order /\ i4.clean = job[w].clean /\ i4.step = 5
      /\ i4.seen = job[w].seen
  BY <1>7 DEF Job, ProcessStates
<1> HIDE DEF i4
<1>9. /\ j \in Job /\ j.order = job[w].order /\ j.clean = job[w].clean /\ j.step = 5
      /\ j.seen = job[w].seen /\ j.load = "runs"
  BY <1>8 DEF Job, ProcessStates
<1> HIDE DEF j
<1>10. SiteTypes' /\ files' = files /\ db' = db /\ done' = done /\ promise' = promise
  BY DEF IInv, SiteTypes, StartPipe
<1>11. ~Streams(w)'
  BY <1>3, <1>9 DEF Streams, IInv, JobTypes
<1>12. ASSUME CleanCopy(w), job'[w] = j, To(w)' = To(w) PROVE CleanCopy(w)'
  <2>1. files[Target(w)] = job[w].seen /\ job[w].seen # None /\ Target(w)' = Target(w)
    BY <1>2, <1>12 DEF CleanCopy, Target
  <2>2. job'[w].step = 5 /\ job'[w].load = "runs" /\ job'[w].seen = job[w].seen
    BY <1>9, <1>12
  <2>3. QED
    BY <1>10, <1>12, <2>1, <2>2 DEF CleanCopy
<1>13. QED
  BY <1>1, <1>3, <1>9, <1>10, <1>11, <1>12, OwnStep

\* Of a clean copy only the import of its dump writes to its database, and only
\* between the start of the two and the job's last look at them.
LEMMA LoadingPlace ==
    ASSUME JobTypes, NEW w \in Workers, Active(w), Copies(w), CleanCopy(w),
           job[w].load # "no"
    PROVE  job[w].step \in {5, 6}
BY DEF CleanCopy

\* The import is let in, or ends.
LEMMA LoadIInv ==
    ASSUME IInv, NEW w \in Workers, LoadBegins(w) \/ LoadEnds(w)
    PROVE  IInv'
<1> USE DEF siteVars, dbVars, Piped
<1>1. Active(w) /\ job[w] \in Job /\ To(w) \in Sites
  BY JobFacts DEF IInv, LoadBegins, LoadEnds
<1>2. PICK state \in {"writes", "ok"} :
          job' = [job EXCEPT ![w].load = state] /\ (state = "writes" => LoadBegins(w))
          /\ (state = "ok" => LoadEnds(w))
  BY Zenon DEF LoadBegins, LoadEnds, Loads
<1> DEFINE j == [job[w] EXCEPT !.load = state]
<1>3. job' = [job EXCEPT ![w] = j]
  BY <1>2
<1>4. /\ j \in Job /\ j.order = job[w].order /\ j.clean = job[w].clean
      /\ j.step = job[w].step /\ j.link = job[w].link
  BY <1>1 DEF Job, ProcessStates
<1>5. /\ j.seen = job[w].seen /\ j.snap = job[w].snap /\ j.dump = job[w].dump
      /\ j.load = state
  BY <1>1 DEF Job
<1> HIDE DEF j
<1>6. \A s \in Sites : s # To(w) => db'[s] = db[s]
  BY <1>1 DEF LoadBegins, LoadEnds, IInv, SiteTypes
<1>7. SiteTypes'
  <2>1. job[w].snap \in Database
    BY <1>1 DEF Job
  <2>2. db' \in [Sites -> Database]
    <3>1. CASE LoadBegins(w)
      BY <1>1, <3>1 DEF LoadBegins, IInv, SiteTypes, Database, Contents
    <3>2. CASE LoadEnds(w)
      BY <1>1, <2>1, <3>2 DEF LoadEnds, IInv, SiteTypes
    <3>3. QED
      BY <3>1, <3>2
  <2>3. UNCHANGED <<wpcli, account, stray, files, keys, config, edited, faults>>
    BY DEF LoadBegins, LoadEnds, Loads
  <2>4. QED
    BY <2>2, <2>3 DEF IInv, SiteTypes
<1>8. files' = files /\ done' = done /\ promise' = promise
  BY DEF LoadBegins, LoadEnds, Loads
<1>9. job'[w] = j
  BY <1>3 DEF IInv, JobTypes
<1>10. Streams(w)' => Streams(w) /\ j.link = job[w].link
  <2>1. Active(w)' => Active(w)
    BY <1>1
  <2>2. QED
    BY <1>4, <1>9, <2>1 DEF Streams
<1>11. ASSUME Copies(w), CleanCopy(w), To(w)' = To(w), From(w)' = From(w), job[w].clean
       PROVE  CleanCopy(w)'
  <2>1. job[w].load # "no"
    BY DEF LoadBegins, LoadEnds
  <2>2. job[w].step \in {5, 6}
    BY <1>1, <1>11, <2>1, LoadingPlace DEF IInv
  <2>3. /\ job'[w].step = job[w].step /\ job'[w].seen = job[w].seen
        /\ job'[w].snap = job[w].snap /\ job'[w].dump = job[w].dump
        /\ job'[w].load = state
    BY <1>4, <1>5, <1>9
  <2>4. ASSUME state = "ok"
        PROVE  job[w].dump = "failed" \/ (job[w].dump = "ok" /\ Copied(w)')
    <3>1. LoadEnds(w)
      BY <1>2, <2>4
    <3>2. job[w].dump \in {"ok", "failed"}
      BY <3>1 DEF LoadEnds
    <3>3. Named[To(w)] = To(w) /\ (job[w].dump = "ok" => db'[To(w)] = job[w].snap)
      BY <1>1, <3>1 DEF LoadEnds, HasDatabase, IInv, SiteTypes
    <3>4. QED
      BY <1>11, <2>3, <3>2, <3>3 DEF Copied
  <2>5. job[w].step = 6 => job[w].dump = "ok"
    BY <1>11 DEF CleanCopy
  <2>6. files'[Target(w)] = job[w].seen /\ job[w].seen # None /\ Target(w)' = Target(w)
    BY <1>8, <1>11, <2>2 DEF CleanCopy, Target
  <2>7. QED
    BY <1>11, <2>2, <2>3, <2>4, <2>5, <2>6 DEF CleanCopy
<1>12. QED
  BY <1>1, <1>3, <1>4, <1>6, <1>7, <1>8, <1>10, <1>11, OwnStep

\* One of the two exits, and nothing is written.
LEMMA ExitIInv ==
    ASSUME IInv, NEW w \in Workers, DumpEnds(w) \/ NoDatabase(w) \/ ProcessFails(w)
    PROVE  IInv'
<1> USE DEF siteVars, dbVars, Piped
<1>1. Active(w) /\ job[w] \in Job
  BY JobFacts DEF IInv, DumpEnds, NoDatabase, ProcessFails, At
<1>2. /\ db' = db /\ files' = files /\ done' = done /\ promise' = promise
      /\ UNCHANGED <<wpcli, account, stray, keys, config, edited>>
  BY DEF DumpEnds, NoDatabase, ProcessFails, Dumps, Loads
<1>3. SiteTypes'
  <2>1. faults' = faults \/ (faults < MaxFaults /\ faults' = faults + 1)
    BY Zenon DEF DumpEnds, NoDatabase, ProcessFails
  <2>2. faults' \in 0..MaxFaults
    BY <2>1, ContentConstants DEF IInv, SiteTypes
  <2>3. QED
    BY <1>2, <2>2 DEF IInv, SiteTypes
<1>4. CASE \E state \in {"ok", "failed"} : job[w].dump = "runs" /\ Dumps(w, state)
  <2>1. PICK state \in {"ok", "failed"} : job[w].dump = "runs" /\ Dumps(w, state)
    BY <1>4
  <2> DEFINE j == [job[w] EXCEPT !.dump = state]
  <2>2. job' = [job EXCEPT ![w] = j]
    BY <2>1 DEF Dumps
  <2>3. /\ j \in Job /\ j.order = job[w].order /\ j.clean = job[w].clean
        /\ j.step = job[w].step /\ j.link = job[w].link
        /\ j.seen = job[w].seen /\ j.snap = job[w].snap /\ j.load = job[w].load
    BY <1>1 DEF Job, ProcessStates
  <2> HIDE DEF j
  <2>4. job'[w] = j
    BY <2>2 DEF IInv, JobTypes
  <2>5. Streams(w)' => Streams(w) /\ j.link = job[w].link
    BY <1>1, <2>3, <2>4 DEF Streams
  <2>6. ASSUME CleanCopy(w), To(w)' = To(w), From(w)' = From(w) PROVE CleanCopy(w)'
    <3>1. job[w].load # "ok" /\ job[w].step # 6
      BY <2>1, <2>6 DEF CleanCopy
    <3>2. Copied(w) => Copied(w)'
      BY <1>2, <2>3, <2>4, <2>6 DEF Copied
    <3>3. Source(w)' = Source(w) /\ Target(w)' = Target(w)
      BY <2>6 DEF Source, Target
    <3>4. QED
      BY <1>2, <2>3, <2>4, <2>6, <3>1, <3>2, <3>3 DEF CleanCopy
  <2>7. QED
    BY <1>1, <1>2, <1>3, <2>2, <2>3, <2>5, <2>6, OwnStep
<1>5. CASE job[w].load # "no" /\ Loads(w, "failed")
  <2> DEFINE j == [job[w] EXCEPT !.load = "failed"]
  <2>1. job' = [job EXCEPT ![w] = j]
    BY <1>5 DEF Loads
  <2>2. /\ j \in Job /\ j.order = job[w].order /\ j.clean = job[w].clean
        /\ j.step = job[w].step /\ j.link = job[w].link
        /\ j.seen = job[w].seen /\ j.snap = job[w].snap /\ j.dump = job[w].dump
        /\ j.load = "failed"
    BY <1>1 DEF Job, ProcessStates
  <2> HIDE DEF j
  <2>3. job'[w] = j
    BY <2>1 DEF IInv, JobTypes
  <2>4. Streams(w)' => Streams(w) /\ j.link = job[w].link
    BY <1>1, <2>2, <2>3 DEF Streams
  <2>5. ASSUME Copies(w), CleanCopy(w), To(w)' = To(w), From(w)' = From(w)
        PROVE  CleanCopy(w)'
    <3>1. job[w].step \in {5, 6}
      BY <1>1, <1>5, <2>5, LoadingPlace DEF IInv
    <3>2. QED
      BY <1>2, <2>2, <2>3, <2>5, <3>1 DEF CleanCopy, Target
  <2>6. QED
    BY <1>1, <1>2, <1>3, <2>1, <2>2, <2>4, <2>5, OwnStep
<1>6. QED
  BY <1>4, <1>5 DEF DumpEnds, NoDatabase, ProcessFails

\* The job has seen the dump end well, or the import.
LEMMA WaitIInv ==
    ASSUME IInv, NEW w \in Workers, WaitDump(w) \/ WaitLoad(w)
    PROVE  IInv'
<1> USE DEF siteVars, dbVars
<1>1. Active(w) /\ ~Done(w) /\ job[w] \in Job /\ Copies(w)
  BY Places, JobFacts DEF IInv, At, WaitDump, WaitLoad, Copying
<1>2. files' = files /\ db' = db /\ done' = done /\ promise' = promise
  BY DEF WaitDump, WaitLoad, Advance
<1>3. SiteTypes'
  BY DEF IInv, SiteTypes, WaitDump, WaitLoad, Advance
<1>4. CASE WaitDump(w)
  <2>1. job[w].step = 5 /\ job[w].dump = "ok"
    BY <1>4, Places DEF IInv, WaitDump, Copying
  <2>2. job' = [job EXCEPT ![w].step = @ + 1]
    BY <1>4 DEF WaitDump, Advance
  <2>3. ASSUME CleanCopy(w), Moved(w) PROVE CleanCopy(w)'
    <3>1. Copied(w) => Copied(w)'
      BY <1>2, <2>3 DEF Moved, Copied
    <3>2. job'[w].step = 6 /\ files'[Target(w)] = files[Target(w)] /\ Target(w)' = Target(w)
      BY <1>2, <2>1, <2>3 DEF Moved, Target
    <3>3. QED
      BY <2>1, <2>3, <3>1, <3>2 DEF CleanCopy, Moved
  <2>4. ~(Importing(w, 2) /\ job[w].order.db)
    BY <2>1 DEF Importing
  <2>5. QED
    BY <1>1, <1>2, <1>3, <2>2, <2>3, <2>4, AdvanceStep
<1>5. CASE WaitLoad(w)
  <2> DEFINE i == [job[w] EXCEPT !.step = @ + 1]
  <2> DEFINE i2 == [i EXCEPT !.dump = "no"]
  <2> DEFINE j == [i2 EXCEPT !.load = "no"]
  <2>1. job[w].step = 6 /\ job[w].load = "ok"
    BY <1>5, Places DEF IInv, WaitLoad, Copying, ImportIsDone
  <2>2. job' = [job EXCEPT ![w] = j]
    BY <1>5 DEF WaitLoad
  <2>3. /\ i \in Job /\ i.order = job[w].order /\ i.clean = job[w].clean /\ i.step = 7
        /\ i.seen = job[w].seen /\ i.snap = job[w].snap
    BY <1>1, <2>1 DEF Job
  <2> HIDE DEF i
  <2>4. /\ i2 \in Job /\ i2.order = job[w].order /\ i2.clean = job[w].clean /\ i2.step = 7
        /\ i2.seen = job[w].seen /\ i2.snap = job[w].snap
    BY <2>3 DEF Job, ProcessStates
  <2> HIDE DEF i2
  <2>5. /\ j \in Job /\ j.order = job[w].order /\ j.clean = job[w].clean /\ j.step = 7
        /\ j.seen = job[w].seen /\ j.snap = job[w].snap /\ j.load = "no"
    BY <2>4 DEF Job, ProcessStates
  <2> HIDE DEF j
  <2>6. job'[w] = j
    BY <2>2 DEF IInv, JobTypes
  <2>7. ~Streams(w)'
    BY <2>5, <2>6 DEF Streams
  <2>8. ASSUME CleanCopy(w), To(w)' = To(w) PROVE CleanCopy(w)'
    <3>1. /\ Copied(w) /\ files[Target(w)] = job[w].seen /\ job[w].seen # None
          /\ Target(w)' = Target(w)
      BY <2>1, <2>8 DEF CleanCopy, Target
    <3>2. Copied(w)'
      BY <1>2, <2>5, <2>6, <2>8, <3>1 DEF Copied
    <3>3. QED
      BY <1>2, <2>5, <2>6, <2>8, <3>1, <3>2 DEF CleanCopy
  <2>9. QED
    BY <1>1, <1>2, <1>3, <2>2, <2>5, <2>7, <2>8, OwnStep
<1>6. QED
  BY <1>4, <1>5

-----------------------------------------------------------------------------
(* The ends of a job.                                                      *)

\* A job that fails promises nothing, and what it has done stays.
LEMMA FailIInv ==
    ASSUME IInv, NEW w \in Workers,
           \/ Refused(w) \/ Accident(w) \/ DownloadCut(w)
           \/ DumpFailed(w) \/ LoadFailed(w)
    PROVE  IInv'
<1> USE DEF siteVars, dbVars
<1>1. Active(w)
  BY DEF Refused, Lacks, Accident, DownloadCut, DumpFailed, LoadFailed, At
<1>2. To(w) \in Sites
  BY <1>1, JobFacts DEF IInv
<1>3. /\ job' = [job EXCEPT ![w] = Idle] /\ db' = db /\ done' = done /\ promise' = promise
      /\ UNCHANGED <<wpcli, account, keys, config, edited>>
  BY DEF Refused, Accident, DownloadCut, DumpFailed, LoadFailed, Fails
<1>4. \A d \in Directories \ Written(w) : files'[d] = files[d]
  BY DEF Written, Refused, Accident, DownloadCut, DumpFailed, LoadFailed, Fails, IInv, SiteTypes
<1>5. files' \in [Directories -> Contents \cup {None}]
  <2>1. files' = files \/ files' = [files EXCEPT ![To(w)] = "part"]
    BY DEF Refused, Accident, DownloadCut, DumpFailed, LoadFailed, Fails
  <2>2. QED
    BY <1>2, <2>1 DEF IInv, SiteTypes, Contents
<1>6. stray' \subseteq Sites
  BY <1>2 DEF Refused, Accident, DownloadCut, DumpFailed, LoadFailed, IInv, SiteTypes
<1>7. faults' \in 0..MaxFaults
  <2>1. faults' = faults \/ (faults < MaxFaults /\ faults' = faults + 1)
    BY Zenon DEF Refused, Accident, DownloadCut, DumpFailed, LoadFailed
  <2>2. QED
    BY <2>1, ContentConstants DEF IInv, SiteTypes
<1>8. SiteTypes'
  BY <1>3, <1>5, <1>6, <1>7 DEF IInv, SiteTypes
<1>9. promise'[To(w)] = None
  BY <1>1, <1>3 DEF IInv, Quiet
<1>10. done' \subseteq Orders /\ promise' \in [Sites -> Promise \cup {None}]
  BY <1>3 DEF IInv, JobTypes
<1>11. \A s \in Sites : promise'[s] = promise[s]
  BY <1>3
<1>12. QED
  BY <1>1, <1>3, <1>4, <1>8, <1>9, <1>10, <1>11, EndStep

\* What a clean copy that is done has promised is there.
LEMMA FinishIInv ==
    ASSUME IInv, NEW w \in Workers, Finish(w)
    PROVE  IInv'
<1> USE DEF siteVars, dbVars, Finish
<1>1. /\ Active(w) /\ Done(w) /\ job[w] \in Job /\ job[w].order \in Orders
      /\ To(w) \in Sites /\ From(w) \in Sites /\ job[w].order.db \in BOOLEAN
  BY JobFacts DEF IInv
<1>2. ASSUME job[w].clean, Copies(w)
      PROVE  /\ job[w].seen # None /\ files[Target(w)] = job[w].seen
             /\ job[w].order.db => Copied(w)
  <2>1. CleanCopy(w)
    BY <1>1, <1>2 DEF IInv, Progress
  <2>2. job[w].step > 3 /\ (job[w].order.db => job[w].step > 6)
    <3>1. job[w].step \in 1..9
      BY <1>1 DEF Job
    <3>2. Request(w) = "clone" \/ Request(w) = "push"
      BY <1>2 DEF Copies, Request
    <3>3. /\ ~job[w].order.db => job[w].step > 3
          /\ job[w].order.db => job[w].step > 6 \/ job[w].step > 7
      BY <1>1, <1>2, <3>2, Position DEF IInv
    <3>4. QED
      BY <1>1, <3>1, <3>3
  <2>3. job[w].step > 2
    BY <1>1, <2>2 DEF Job
  <2>4. QED
    BY <2>1, <2>2, <2>3 DEF CleanCopy
<1>3. Outcome(w) \in Promise \cup {None}
  <2>1. CASE job[w].clean /\ Copies(w)
    <3> DEFINE data == IF job[w].order.db THEN job[w].snap.data ELSE None
    <3>1. job[w].seen \in Contents /\ data \in Contents \cup {None}
      BY <1>1, <1>2, <2>1 DEF Job, Database
    <3>2. Outcome(w) = [files |-> job[w].seen, from |-> From(w), data |-> data]
      BY <2>1 DEF Outcome, Copies
    <3> HIDE DEF data
    <3>3. QED
      BY <1>1, <3>1, <3>2 DEF Promise
  <2>2. CASE ~(job[w].clean /\ Copies(w))
    BY <2>2 DEF Outcome, Copies
  <2>3. QED
    BY <2>1, <2>2
<1>4. promise' \in [Sites -> Promise \cup {None}] /\ promise'[To(w)] = Outcome(w)
  BY <1>1, <1>3 DEF IInv, JobTypes
<1>5. SiteTypes' /\ files' = files /\ db' = db
  BY DEF IInv, SiteTypes
<1>6. \A s \in Sites : s # To(w) => promise'[s] = promise[s]
  BY DEF IInv, JobTypes
<1>7. job' = [job EXCEPT ![w] = Idle] /\ done' \subseteq Orders
  BY <1>1 DEF IInv, JobTypes
<1>8. ASSUME promise'[To(w)] # None
      PROVE  job[w].clean /\ Copies(w) /\ \A s \in Sites : s = To(w) => Kept(s)'
  <2>1. job[w].clean /\ Copies(w)
    BY <1>4, <1>8 DEF Outcome, Copies
  <2>2. /\ Outcome(w).files = job[w].seen
        /\ Outcome(w).data = IF job[w].order.db THEN job[w].snap.data ELSE None
    BY <2>1 DEF Outcome, Copies
  <2>3. \A s \in Sites : s = To(w) =>
           /\ files'[Named[s]] = promise'[s].files
           /\ promise'[s].data # None => Named[s] = s /\ db'[s].data = promise'[s].data
    BY <1>2, <1>4, <1>5, <2>1, <2>2 DEF Copied, Target
  <2>4. QED
    BY <2>1, <2>3 DEF Kept
<1>9. QED
  BY <1>1, <1>4, <1>5, <1>6, <1>7, <1>8, EndStep

-----------------------------------------------------------------------------
(* The steps that spoil what other jobs copy.                              *)

\* What Spoilt makes of a job: the same, unless it reads or writes what is
\* touched or its database is written; then it is no longer clean.
LEMMA SpoiltFacts ==
    ASSUME JobTypes, NEW touched, NEW written
    PROVE  /\ Spoilt(touched, written) \in [Workers -> Job \cup {Idle}]
           /\ \A x \in Workers : Spoilt(touched, written)[x] # Idle <=> Active(x)
           /\ \A x \in Workers : ~Active(x) => Spoilt(touched, written)[x] = Idle
           /\ \A x \in Workers : Active(x) =>
                 \E j \in Job :
                     /\ Spoilt(touched, written)[x] = j
                     /\ j.order = job[x].order /\ j.step = job[x].step
                     /\ j.seen = job[x].seen /\ j.snap = job[x].snap
                     /\ j.dump = job[x].dump /\ j.load = job[x].load
                     /\ j.link = job[x].link
                     /\ j.clean => /\ job[x].clean
                                   /\ Touches(job[x].order) \cap touched = {}
                                   /\ To(x) \notin written
<1>1. ASSUME NEW x \in Workers, Active(x)
      PROVE  \E j \in Job :
                 /\ Spoilt(touched, written)[x] = j
                 /\ j.order = job[x].order /\ j.step = job[x].step
                 /\ j.seen = job[x].seen /\ j.snap = job[x].snap
                 /\ j.dump = job[x].dump /\ j.load = job[x].load
                 /\ j.link = job[x].link
                 /\ j.clean => /\ job[x].clean
                               /\ Touches(job[x].order) \cap touched = {}
                               /\ To(x) \notin written
  <2>1. job[x] \in Job
    BY <1>1, JobFacts
  <2>2. CASE Touches(job[x].order) \cap touched # {} \/ To(x) \in written
    <3> DEFINE j == [job[x] EXCEPT !.clean = FALSE]
    <3>1. /\ j \in Job /\ j.order = job[x].order /\ j.step = job[x].step
          /\ j.seen = job[x].seen /\ j.snap = job[x].snap
          /\ j.dump = job[x].dump /\ j.load = job[x].load
          /\ j.link = job[x].link /\ ~j.clean
      BY <2>1 DEF Job
    <3>2. Spoilt(touched, written)[x] = j
      BY <1>1, <2>2 DEF Spoilt
    <3> HIDE DEF j
    <3>3. QED
      BY <3>1, <3>2
  <2>3. CASE ~(Touches(job[x].order) \cap touched # {} \/ To(x) \in written)
    <3>1. Spoilt(touched, written)[x] = job[x]
      BY <2>3 DEF Spoilt
    <3>2. QED
      BY <2>1, <2>3, <3>1
  <2>4. QED
    BY <2>2, <2>3
<1>2. ASSUME NEW x \in Workers, ~Active(x) PROVE Spoilt(touched, written)[x] = Idle
  BY <1>2 DEF Spoilt, Active
<1>3. \A x \in Workers : Spoilt(touched, written)[x] # Idle <=> Active(x)
  BY <1>1, <1>2, JobIsNotIdle
<1>4. Spoilt(touched, written) =
          [x \in Workers |-> Spoilt(touched, written)[x]]
  BY DEF Spoilt
<1>5. \A x \in Workers : Spoilt(touched, written)[x] \in Job \cup {Idle}
  BY <1>1, <1>2
<1>6. Spoilt(touched, written) \in [Workers -> Job \cup {Idle}]
  BY <1>4, <1>5
<1>7. QED
  BY <1>1, <1>2, <1>3, <1>6

\* A job that Spoilt is all that happens to, is alike; what is touched or written
\* belongs to no clean copy.
LEMMA SpoiltIsAlike ==
    ASSUME JobTypes, NEW touched \in SUBSET Sites, NEW written, NEW x \in Workers,
           job'[x] = Spoilt(touched, written)[x],
           \A d \in Directories \ touched : files'[d] = files[d],
           \A s \in Sites \ written : db'[s].data = db[s].data
    PROVE  /\ Alike(x) /\ Undisturbed(x)
           /\ Active(x) /\ job'[x].clean =>
                 Touches(job[x].order) \cap touched = {} /\ To(x) \notin written
<1>1. Active(x)' <=> Active(x)
  BY SpoiltFacts DEF Active
<1>2. ASSUME Active(x)
      PROVE  /\ job'[x].order = job[x].order /\ job'[x].step = job[x].step
             /\ job'[x].seen = job[x].seen /\ job'[x].snap = job[x].snap
             /\ job'[x].dump = job[x].dump /\ job'[x].load = job[x].load
             /\ job'[x].link = job[x].link
             /\ job'[x].clean => /\ job[x].clean
                                 /\ Touches(job[x].order) \cap touched = {}
                                 /\ To(x) \notin written
  BY <1>2, SpoiltFacts
<1>3. Alike(x)
  BY <1>1, <1>2 DEF Alike
<1>4. ASSUME Active(x), job'[x].clean
      PROVE  /\ files'[Source(x)] = files[Source(x)] /\ files'[Target(x)] = files[Target(x)]
             /\ db'[To(x)].data = db[To(x)].data
  <2>1. /\ From(x) \in Sites /\ To(x) \in Sites /\ To(x) \notin written
        /\ From(x) \notin touched /\ To(x) \notin touched
    BY <1>2, <1>4, JobFacts DEF Touches, From, To
  <2>2. {Source(x), Target(x)} \subseteq Directories \ touched
    BY <2>1, Untouched DEF Source, Target
  <2>3. QED
    BY <2>1, <2>2
<1>5. QED
  BY <1>2, <1>3, <1>4 DEF Undisturbed

\* What is promised of the sites that are not withdrawn.
LEMMA WithdrawnFacts ==
    ASSUME JobTypes, NEW S
    PROVE  /\ Withdrawn(S) \in [Sites -> Promise \cup {None}]
           /\ \A s \in Sites : s \in S => Withdrawn(S)[s] = None
           /\ \A s \in Sites : s \notin S => Withdrawn(S)[s] = promise[s]
BY DEF JobTypes, Withdrawn

\* A step of no job: it touches a directory or writes a database and withdraws
\* what was promised of it.
LEMMA SpoilStep ==
    ASSUME IInv, NEW touched \in SUBSET Sites, NEW written,
           job' = Spoilt(touched, written), promise' = Withdrawn(touched \cup written),
           SiteTypes', done' = done,
           \A d \in Directories \ touched : files'[d] = files[d],
           \A s \in Sites \ written : db'[s].data = db[s].data
    PROVE  IInv'
<1>1. JobTypes
  BY DEF IInv
<1>2. JobTypes'
  BY <1>1, SpoiltFacts, WithdrawnFacts DEF JobTypes
<1>3. \A x \in Workers : Alike(x) /\ Undisturbed(x)
  BY <1>1, SpoiltIsAlike
<1>4. \A s \in Sites : Holds(s)
  BY <1>1, WithdrawnFacts, Untouched DEF Holds
<1>5. Local({})
  BY <1>2, <1>3, <1>4 DEF Local
<1>6. QED
  BY <1>5, LocalStep

\* A step of a job that is no copy and writes to a database that may be another
\* site's: what was promised of that is withdrawn.
LEMMA FillStep ==
    ASSUME IInv, NEW w \in Workers, NEW d \in Sites, Active(w), ~Copies(w),
           NEW j \in Job \cup {Idle},
           j # Idle => j.order = job[w].order /\ j.clean = job[w].clean,
           job' = [Spoilt({}, {d}) EXCEPT ![w] = j], promise' = Withdrawn({d}),
           SiteTypes', done' = done, files' = files,
           \A s \in Sites \ {d} : db'[s] = db[s],
           Streams(w)' => job'[w].link.site = d
    PROVE  IInv'
<1>1. JobTypes
  BY DEF IInv
<1>2. job'[w] = j /\ \A x \in Workers \ {w} : job'[x] = Spoilt({}, {d})[x]
  BY <1>1, SpoiltFacts
<1>3. JobTypes'
  BY <1>1, SpoiltFacts, WithdrawnFacts DEF JobTypes
<1>4. \A x \in Workers \ {w} :
         /\ Alike(x) /\ Undisturbed(x)
         /\ Active(x) /\ job'[x].clean => To(x) # d
  <2>1. \A x \in Directories \ {} : files'[x] = files[x]
    OBVIOUS
  <2>2. \A s \in Sites \ {d} : db'[s].data = db[s].data
    OBVIOUS
  <2> SUFFICES ASSUME NEW x \in Workers \ {w}
               PROVE  /\ Alike(x) /\ Undisturbed(x)
                      /\ Active(x) /\ job'[x].clean => To(x) # d
    OBVIOUS
  <2>3. job'[x] = Spoilt({}, {d})[x]
    BY <1>2
  <2>4. /\ Alike(x) /\ Undisturbed(x)
        /\ Active(x) /\ job'[x].clean =>
              Touches(job[x].order) \cap {} = {} /\ To(x) \notin {d}
    BY <1>1, <2>1, <2>2, <2>3, SpoiltIsAlike
  <2>5. QED
    BY <2>4
<1>5. \A s \in Sites : Holds(s)
  BY <1>1, WithdrawnFacts DEF Holds
<1>6. Local({w})
  BY <1>3, <1>4, <1>5 DEF Local
<1>7. ~Copies(w)' \/ ~Active(w)'
  BY <1>2 DEF Copies, Active
<1>8. ASSUME Streams(w)' PROVE Free(job[w].link.site)'
  <2>1. promise'[d] = None
    BY <1>1, WithdrawnFacts
  <2>2. ASSUME NEW x \in Workers, Active(x)', job'[x].clean, Copies(x)' PROVE To(x)' # d
    <3>1. x # w
      BY <1>7, <2>2
    <3>2. To(x) # d /\ job'[x].order = job[x].order
      BY <1>4, <2>2, <3>1 DEF Alike
    <3>3. QED
      BY <3>2 DEF To
  <2>3. QED
    BY <1>8, <2>1, <2>2 DEF Free
<1>9. promise'[To(w)] = None
  <2>1. To(w) \in Sites /\ promise[To(w)] = None
    BY JobFacts DEF IInv, Quiet
  <2>2. QED
    BY <1>1, <2>1, WithdrawnFacts
<1>10. Own(w)
  <2>1. Active(w)' => job'[w].order = job[w].order /\ (job'[w].clean => job[w].clean)
    BY <1>2 DEF Active
  <2>2. QED
    BY <1>7, <1>8, <1>9, <2>1 DEF Own
<1>11. QED
  BY <1>6, <1>10, LocalStep

\* The core is installed into a database, or a part of it, or an import begins
\* to fill one.
LEMMA FillIInv ==
    ASSUME IInv, NEW w \in Workers, InstallCore(w) \/ InstallCut(w) \/ BeginLoad(w)
    PROVE  IInv'
<1> USE DEF siteVars, dbVars
<1>1. Active(w) /\ job[w] \in Job
  BY JobFacts DEF IInv, InstallCore, InstallCut, BeginLoad, At
<1>2. Installing(w, 8) \/ (Importing(w, 2) /\ job[w].order.db)
  BY OtherPlaces DEF IInv, InstallCore, InstallCut, BeginLoad
<1>3. ~Copies(w) /\ job[w].step \in {2, 8}
  BY <1>2 DEF Installing, Importing, Copies, Request
<1>4. files' = files /\ done' = done
  BY DEF InstallCore, InstallCut, BeginLoad
<1>5. UNCHANGED <<wpcli, account, stray, keys, config, edited>> /\ faults' \in 0..MaxFaults
  <2>1. faults' = faults \/ (faults < MaxFaults /\ faults' = faults + 1)
    BY Zenon DEF InstallCore, InstallCut, BeginLoad
  <2>2. faults' \in 0..MaxFaults
    BY <2>1, ContentConstants DEF IInv, SiteTypes
  <2>3. QED
    BY <2>2 DEF InstallCore, InstallCut, BeginLoad
<1> DEFINE i == [job[w] EXCEPT !.step = @ + 1]
<1>6. /\ i \in Job /\ i.order = job[w].order /\ i.clean = job[w].clean
      /\ i.step = job[w].step + 1 /\ i.link = job[w].link
  BY <1>1, <1>3 DEF Job
<1>7. To(w) \in Sites
  BY <1>1, JobFacts DEF IInv
<1>8. Opens(job[w].link) => job[w].link.site \in Sites
  BY <1>1 DEF Opens, Job, Link
<1>9. Opens(config[To(w)]) => config[To(w)].site \in Sites
  BY <1>7 DEF Opens, IInv, SiteTypes, Link
<1> HIDE DEF i
<1>10. PICK d \in Sites, j \in {i, Idle}, data \in {"part", "fresh"} :
          /\ job' = [Spoilt({}, {d}) EXCEPT ![w] = j]
          /\ promise' = Withdrawn({d})
          /\ \/ db' = [db EXCEPT ![d] = [data |-> data, url |-> To(w)]]
             \/ db' = [db EXCEPT ![d].data = data]
          /\ At(w, "install") \/ d = job[w].link.site
  <2>1. CASE InstallCore(w)
    <3> DEFINE c == config[To(w)].site
    <3>1. /\ job' = [Spoilt({}, {c}) EXCEPT ![w] = i] /\ promise' = Withdrawn({c})
          /\ db' = [db EXCEPT ![c] = [data |-> "fresh", url |-> To(w)]]
          /\ At(w, "install") /\ Opens(config[To(w)])
      BY <2>1, Zenon DEF InstallCore, i
    <3>2. c \in Sites
      BY <1>9, <3>1
    <3> HIDE DEF c
    <3>3. QED
      BY <3>1, <3>2
  <2>2. CASE InstallCut(w)
    <3> DEFINE c == config[To(w)].site
    <3>1. /\ job' = [Spoilt({}, {c}) EXCEPT ![w] = Idle] /\ promise' = Withdrawn({c})
          /\ db' = [db EXCEPT ![c].data = "part"]
          /\ At(w, "install") /\ Opens(config[To(w)])
      BY <2>2, Zenon DEF InstallCut
    <3>2. c \in Sites
      BY <1>9, <3>1
    <3> HIDE DEF c
    <3>3. QED
      BY <3>1, <3>2
  <2>3. CASE BeginLoad(w)
    <3> DEFINE c == job[w].link.site
    <3>1. /\ job' = [Spoilt({}, {c}) EXCEPT ![w] = i] /\ promise' = Withdrawn({c})
          /\ db' = [db EXCEPT ![c].data = "part"]
          /\ Opens(job[w].link)
      BY <2>3, Zenon DEF BeginLoad, i
    <3>2. c \in Sites
      BY <1>8, <3>1
    <3>3. c = job[w].link.site
      OBVIOUS
    <3> HIDE DEF c
    <3>4. QED
      BY <3>1, <3>2, <3>3
  <2>4. QED
    BY <2>1, <2>2, <2>3
<1>11. db' \in [Sites -> Database] /\ \A s \in Sites \ {d} : db'[s] = db[s]
  <2>1. [data |-> data, url |-> To(w)] \in Database
    BY <1>7 DEF Database, Contents, Addresses
  <2>2. [db[d] EXCEPT !.data = data] \in Database
    BY DEF IInv, SiteTypes, Database, Contents
  <2>3. QED
    BY <1>10, <2>1, <2>2 DEF IInv, SiteTypes
<1>12. SiteTypes'
  BY <1>4, <1>5, <1>11 DEF IInv, SiteTypes
<1>13. job'[w] = j
  <2>1. Spoilt({}, {d}) \in [Workers -> Job \cup {Idle}]
    BY SpoiltFacts DEF IInv
  <2>2. QED
    BY <1>10, <2>1
<1>14. Streams(w)' => job'[w].link.site = d
  <2> SUFFICES ASSUME Streams(w)' PROVE job'[w].link.site = d
    OBVIOUS
  <2>1. job'[w] = i
    BY <1>13 DEF Streams, Active
  <2>2. job[w].step = 2
    BY <1>3, <1>6, <2>1 DEF Streams
  <2>3. ~Installing(w, 8)
    BY <2>2 DEF Installing
  <2>4. ~At(w, "install")
    BY <2>3, OtherPlaces, Zenon DEF IInv
  <2>5. d = job[w].link.site
    BY <1>10, <2>4, Zenon
  <2>6. QED
    BY <1>6, <2>1, <2>5
<1>15. j \in Job \cup {Idle} /\ (j # Idle => j.order = job[w].order /\ j.clean = job[w].clean)
  BY <1>6
<1>16. QED
  BY <1>1, <1>3, <1>4, <1>10, <1>11, <1>12, <1>14, <1>15, FillStep

\* An import that nobody waits for writes, or ends, or a customer changes a site.
LEMMA OutsideIInv ==
    ASSUME IInv, NEW s \in Sites,
           \/ StrayWrites(s) \/ StrayEnds(s)
           \/ \E e \in Edits : EditFiles(s, e) \/ EditData(s, e)
    PROVE  IInv'
<1> USE DEF siteVars, dbVars
<1>1. CASE StrayWrites(s)
  <2>1. SiteTypes'
    <3>1. [db[s] EXCEPT !.data = "part"] \in Database
      BY DEF IInv, SiteTypes, Database, Contents
    <3>2. QED
      BY <1>1, <3>1 DEF IInv, SiteTypes, StrayWrites
  <2>2. \A x \in Sites \ {s} : db'[x].data = db[x].data
    BY <1>1 DEF IInv, SiteTypes, StrayWrites
  <2>3. /\ job' = Spoilt({}, {s}) /\ promise' = Withdrawn({} \cup {s})
        /\ done' = done /\ \A x \in Directories \ {} : files'[x] = files[x]
    BY <1>1 DEF StrayWrites
  <2>4. QED
    BY <2>1, <2>2, <2>3, SpoilStep
<1>2. CASE StrayEnds(s)
  <2>1. SiteTypes' /\ JobTypes'
    BY <1>2 DEF IInv, SiteTypes, JobTypes, StrayEnds
  <2>2. UNCHANGED <<job, promise, files, db>>
    BY <1>2 DEF StrayEnds
  <2>3. \A x \in Workers : Alike(x) /\ Undisturbed(x)
    BY <2>2 DEF Alike, Undisturbed, Active
  <2>4. \A x \in Sites : Holds(x)
    BY <2>2 DEF Holds
  <2>5. Local({})
    BY <2>1, <2>3, <2>4 DEF Local
  <2>6. QED
    BY <2>5, LocalStep
<1>3. ASSUME NEW e \in Edits, EditFiles(s, e) PROVE IInv'
  <2>1. SiteTypes'
    BY <1>3 DEF IInv, SiteTypes, EditFiles, Contents
  <2>2. \A x \in Directories \ {s} : files'[x] = files[x]
    BY <1>3 DEF IInv, SiteTypes, EditFiles
  <2>3. /\ job' = Spoilt({s}, {}) /\ promise' = Withdrawn({s} \cup {})
        /\ done' = done /\ \A x \in Sites \ {} : db'[x].data = db[x].data
    BY <1>3 DEF EditFiles
  <2>4. QED
    BY <2>1, <2>2, <2>3, SpoilStep
<1>4. ASSUME NEW e \in Edits, EditData(s, e) PROVE IInv'
  <2> DEFINE d == config[s].site
  <2>1. d \in Sites
    BY <1>4 DEF EditData, Opens, IInv, SiteTypes, Link
  <2>2. db' = [db EXCEPT ![d].data = e]
    BY <1>4 DEF EditData
  <2>3. /\ job' = Spoilt({}, {d}) /\ promise' = Withdrawn({} \cup {d})
        /\ done' = done /\ \A x \in Directories \ {} : files'[x] = files[x]
        /\ UNCHANGED <<wpcli, account, stray, files, keys, config, faults>>
        /\ edited' = edited \cup {e}
    BY <1>4 DEF EditData
  <2> HIDE DEF d
  <2>4. SiteTypes'
    <3>1. [db[d] EXCEPT !.data = e] \in Database
      BY <2>1 DEF IInv, SiteTypes, Database, Contents
    <3>2. QED
      BY <2>1, <2>2, <2>3, <3>1 DEF IInv, SiteTypes
  <2>5. \A x \in Sites \ {d} : db'[x].data = db[x].data
    BY <2>1, <2>2 DEF IInv, SiteTypes
  <2>6. QED
    BY <2>3, <2>4, <2>5, SpoilStep
<1>5. QED
  BY <1>1, <1>2, <1>3, <1>4

-----------------------------------------------------------------------------
(* The beginning and the end of everything.                                *)

\* A job that starts is at its first step, and clean only if nobody is near and
\* nothing writes to its database; the jobs near it are not clean any more.
LEMMA StartIInv ==
    ASSUME IInv, NEW w \in Workers, NEW o \in Orders, Start(w, o)
    PROVE  IInv'
<1> USE DEF siteVars, dbVars
<1> DEFINE alone == /\ \A x \in Workers : Active(x) => Touches(job[x].order) \cap Touches(o) = {}
                    /\ o.to \notin stray \cup Filled
<1> DEFINE new == [order |-> o, step |-> 1, clean |-> alone, link |-> None,
                   seen |-> None, snap |-> Nothing, large |-> FALSE,
                   dump |-> "no", load |-> "no"]
<1>1. JobTypes /\ ~Active(w)
  BY DEF IInv, Start
<1>2. /\ job' = [Spoilt(Touches(o), {}) EXCEPT ![w] = new] /\ promise' = Withdrawn({o.to})
      /\ UNCHANGED <<wpcli, account, stray, files, keys, config, db, done, edited, faults>>
  BY Zenon DEF Start
<1>3. o.to \in Sites /\ o.from \in Sites
  BY ContentConstants DEF Order
<1>4. new \in Job
  <2>1. alone \in BOOLEAN
    BY Zenon
  <2> HIDE DEF alone
  <2>2. Nothing \in Database
    BY DEF Nothing, Database, Contents, Addresses
  <2>3. QED
    BY <2>1, <2>2 DEF Job, ProcessStates
<1>5. /\ new.order = o /\ new.step = 1 /\ new.load = "no" /\ (new.clean <=> alone)
  <2>1. new.order = o /\ new.step = 1 /\ new.load = "no" /\ new.clean = alone
    BY Zenon
  <2>2. QED
    BY <2>1
<1> HIDE DEF new
<1>6. job'[w] = new /\ \A x \in Workers \ {w} : job'[x] = Spoilt(Touches(o), {})[x]
  BY <1>1, <1>2, SpoiltFacts
<1>7. SiteTypes'
  BY <1>2 DEF IInv, SiteTypes
<1>8. JobTypes'
  BY <1>1, <1>2, <1>4, SpoiltFacts, WithdrawnFacts DEF JobTypes
<1>9. \A x \in Workers \ {w} :
         /\ Alike(x) /\ Undisturbed(x)
         /\ Active(x) /\ job'[x].clean => Touches(job[x].order) \cap Touches(o) = {}
  <2> SUFFICES ASSUME NEW x \in Workers \ {w}
               PROVE  /\ Alike(x) /\ Undisturbed(x)
                      /\ Active(x) /\ job'[x].clean =>
                            Touches(job[x].order) \cap Touches(o) = {}
    OBVIOUS
  <2>1. job'[x] = Spoilt(Touches(o), {})[x]
    BY <1>6
  <2>2. /\ Touches(o) \subseteq Sites
        /\ \A d \in Directories \ Touches(o) : files'[d] = files[d]
        /\ \A s \in Sites \ {} : db'[s].data = db[s].data
    BY <1>2, <1>3 DEF Touches
  <2>3. QED
    BY <1>1, <2>1, <2>2, SpoiltIsAlike
<1>10. To(w)' = o.to /\ Touches(job'[w].order) = Touches(o)
  BY <1>5, <1>6 DEF To, Touches
<1>11. Alone'
  <2> SUFFICES ASSUME NEW x \in Workers, NEW y \in Workers,
                      Active(x)', Active(y)', x # y, job'[x].clean
               PROVE  Touches(job'[x].order) \cap Touches(job'[y].order) = {}
    BY DEF Alone, Touches
  <2>1. CASE x = w
    <3>1. Active(y) /\ job'[y].order = job[y].order
      BY <1>9, <2>1 DEF Alike
    <3>2. alone
      BY <1>5, <1>6, <2>1
    <3>3. Touches(job[y].order) \cap Touches(o) = {}
      BY <3>1, <3>2
    <3>4. QED
      BY <1>10, <2>1, <3>1, <3>3
  <2>2. CASE y = w
    <3>1. Active(x) /\ job'[x].order = job[x].order
      BY <1>9, <2>2 DEF Alike
    <3>2. Touches(job[x].order) \cap Touches(o) = {}
      BY <1>9, <2>2, <3>1
    <3>3. QED
      BY <1>10, <2>2, <3>1, <3>2
  <2>3. CASE x # w /\ y # w
    BY <1>9, <2>3 DEF Alike, IInv, Alone
  <2>4. QED
    BY <2>1, <2>2, <2>3
<1>12. Quiet'
  <2> SUFFICES ASSUME NEW x \in Workers, Active(x)' PROVE promise'[To(x)'] = None
    BY DEF Quiet
  <2>1. CASE x = w
    BY <1>1, <1>2, <1>3, <1>10, <2>1, WithdrawnFacts
  <2>2. CASE x # w
    <3>1. Active(x) /\ To(x)' = To(x)
      BY <1>9, <2>2 DEF Alike, To
    <3>2. To(x) \in Sites /\ promise[To(x)] = None
      BY <1>1, <3>1, JobFacts DEF IInv, Quiet
    <3>3. promise'[To(x)] = None
      BY <1>1, <1>2, <3>2, WithdrawnFacts
    <3>4. QED
      BY <3>1, <3>3
  <2>3. QED
    BY <2>1, <2>2
<1>13. Loading'
  <2> SUFFICES ASSUME NEW x \in Workers, Streams(x)' PROVE Free(job[x].link.site)'
    BY DEF Loading
  <2>1. x # w
    BY <1>5, <1>6 DEF Streams
  <2>2. Streams(x) /\ job'[x].link = job[x].link
    BY <1>9, <2>1 DEF Alike, Streams
  <2> DEFINE d == job[x].link.site
  <2>3. Free(d) /\ d \in Filled
    BY <1>1, <2>2, StreamsLoad DEF IInv, Loading, Filled
  <2>4. d' = d
    BY <2>2
  <2> HIDE DEF d
  <2>5. d \in Sites => promise'[d] = None
    BY <1>1, <1>2, <2>3, WithdrawnFacts DEF Free
  <2>6. ASSUME NEW y \in Workers, Active(y)', job'[y].clean, Copies(y)'
        PROVE  To(y)' # d
    <3>1. CASE y = w
      <4>1. alone
        BY <1>5, <1>6, <2>6, <3>1
      <4>2. QED
        BY <1>10, <2>3, <3>1, <4>1
    <3>2. CASE y # w
      BY <1>9, <2>3, <2>6, <3>2 DEF Alike, Free, To, Copies
    <3>3. QED
      BY <3>1, <3>2
  <2>7. Free(d)'
    BY <2>4, <2>5, <2>6 DEF Free
  <2>8. QED
    BY <2>7 DEF d
<1>14. Progress'
  <2> SUFFICES ASSUME NEW x \in Workers, Active(x)', job'[x].clean, Copies(x)'
               PROVE  CleanCopy(x)'
    BY DEF Progress
  <2>1. CASE x = w
    BY <1>5, <1>6, <2>1 DEF CleanCopy
  <2>2. CASE x # w
    <3>1. /\ Active(x) /\ Alike(x) /\ Undisturbed(x) /\ Copies(x) /\ job[x].clean
      BY <1>9, <2>2 DEF Alike, Copies
    <3>2. CleanCopy(x)
      BY <3>1 DEF IInv, Progress
    <3>3. QED
      BY <3>1, <3>2, AlikeIsClean
  <2>3. QED
    BY <2>1, <2>2
<1>15. CopyIsWhole'
  <2>1. \A s \in Sites : promise'[s] # None => promise'[s] = promise[s]
    BY <1>1, <1>2, WithdrawnFacts
  <2>2. QED
    BY <1>2, <2>1 DEF IInv, CopyIsWhole
<1>16. QED
  BY <1>7, <1>8, <1>11, <1>12, <1>13, <1>14, <1>15 DEF IInv

\* A crash ends all jobs and leaves the sites as they are.
LEMMA CrashIInv ==
    ASSUME IInv, Crash
    PROVE  IInv'
<1> USE DEF siteVars, dbVars, Crash
<1>1. \A w \in Workers : ~Active(w)'
  BY DEF Active
<1>2. SiteTypes'
  BY ContentConstants DEF IInv, SiteTypes
<1>3. JobTypes'
  BY DEF IInv, JobTypes
<1>4. Alone' /\ Quiet' /\ Progress'
  BY <1>1 DEF Alone, Quiet, Progress
<1>5. Loading'
  BY <1>1 DEF Loading, Streams
<1>6. CopyIsWhole'
  BY DEF IInv, CopyIsWhole
<1>7. QED
  BY <1>2, <1>3, <1>4, <1>5, <1>6 DEF IInv

\* A step that changes nothing.
LEMMA StutterIInv ==
    ASSUME IInv, UNCHANGED vars
    PROVE  IInv'
<1> USE DEF vars, siteVars, dbVars
<1>1. SiteTypes' /\ JobTypes'
  BY DEF IInv, SiteTypes, JobTypes
<1>2. \A x \in Workers : Alike(x) /\ Undisturbed(x)
  BY DEF Alike, Undisturbed, Active
<1>3. Local({})
  BY <1>1, <1>2 DEF Local, Holds
<1>4. QED
  BY <1>3, LocalStep

\* In the beginning there is no job, and nothing is promised.
LEMMA InitIInv == Init => IInv
<1> SUFFICES ASSUME Init PROVE IInv
  OBVIOUS
<1>1. SiteTypes
  <2>1. Nothing \in Database
    BY DEF Nothing, Database, Contents, Addresses
  <2>2. keys \in [Directories -> Link \cup {None}]
    <3>1. \A d \in Ready : [site |-> d, right |-> TRUE] \in Link
      BY ContentConstants DEF Link
    <3>2. QED
      BY <3>1 DEF Init
  <2>3. db \in [Sites -> Database]
    <3>1. [data |-> "old", url |-> "elsewhere"] \in Database
      BY DEF Database, Contents, Addresses
    <3>2. QED
      BY <2>1, <3>1 DEF Init
  <2>4. /\ files \in [Directories -> Contents \cup {None}]
        /\ config \in [Directories -> Link \cup {None}]
    BY DEF Init, Contents
  <2>5. faults \in 0..MaxFaults
    BY ContentConstants DEF Init
  <2>6. /\ wpcli \in {"none", "part", "whole"} /\ account \subseteq Sites
        /\ stray \subseteq Sites /\ edited \subseteq Edits
    BY ContentConstants DEF Init
  <2>7. QED
    BY <2>2, <2>3, <2>4, <2>5, <2>6 DEF SiteTypes
<1>2. JobTypes
  BY DEF Init, JobTypes
<1>3. \A w \in Workers : ~Active(w)
  BY DEF Init, Active
<1>4. Alone /\ Quiet /\ Progress /\ Loading
  BY <1>3 DEF Alone, Quiet, Progress, Loading, Streams
<1>5. CopyIsWhole
  BY DEF Init, CopyIsWhole
<1>6. QED
  BY <1>1, <1>2, <1>4, <1>5 DEF IInv

\* Every step keeps the inductive invariant.
LEMMA NextIInv == IInv /\ [Next]_vars => IInv'
<1> SUFFICES ASSUME IInv, [Next]_vars PROVE IInv'
  OBVIOUS
<1>1. ASSUME NEW w \in Workers, NEW o \in Orders, Start(w, o) PROVE IInv'
  BY <1>1, StartIInv
<1>2. ASSUME NEW w \in Workers, JobStep(w) PROVE IInv'
  <2>1. CASE InstallStep(w)
    BY <2>1, PlainIInv, FindIInv, ReadIInv, FillIInv DEF InstallStep
  <2>2. CASE CopyStep(w)
    BY <2>2, MakeDirectoryIInv, BeginRsyncIInv, EndRsyncIInv, StartPipeIInv, LoadIInv, ExitIInv,
       WaitIInv, FailIInv DEF CopyStep
  <2>3. CASE ImportStep(w)
    BY <2>3, FillIInv, PlainIInv, ReplaceIInv DEF ImportStep
  <2>4. CASE Refused(w) \/ Finish(w)
    BY <2>4, FailIInv, FinishIInv
  <2>5. QED
    BY <1>2, <2>1, <2>2, <2>3, <2>4 DEF JobStep
<1>3. ASSUME NEW w \in Workers, Fault(w) PROVE IInv'
  BY <1>3, FailIInv, FillIInv, ExitIInv, ReplaceIInv DEF Fault
<1>4. ASSUME NEW s \in Sites, StrayWrites(s) \/ StrayEnds(s) PROVE IInv'
  BY <1>4, OutsideIInv
<1>5. ASSUME NEW s \in Sites, NEW e \in Edits, EditFiles(s, e) \/ EditData(s, e)
      PROVE  IInv'
  BY <1>5, OutsideIInv
<1>6. QED
  BY <1>1, <1>2, <1>3, <1>4, <1>5, CrashIInv, StutterIInv DEF Next

\* The inductive invariant holds in every state of every run.
THEOREM Invariance == Spec => []IInv
BY InitIInv, NextIInv, PTL DEF Spec

\* Every state is well formed: what is in a site and its database, whose
\* database a site shows, what each goroutine has seen and is doing.
THEOREM TypeCorrect == Spec => []TypeOK
<1>1. IInv => TypeOK
  BY DEF IInv, SiteTypes, JobTypes, TypeOK
<1>2. QED
  BY <1>1, Invariance, PTL

\* After a clone or a push that nobody disturbed is reported DONE, and until
\* somebody writes to the copy, the directory named after the target is what
\* rsync found and its database, if it was asked for, what the dump found; and
\* there is no such DONE when the name is not the one the database goes by. This
\* for any number of sites, whatever directories their ids name, of jobs at a
\* time and of failed attempts before, whose imports may live on, and although
\* an import fills whatever database the credentials file of its site names.
THEOREM CopiesAreWhole == Spec => []CopyIsWhole
<1>1. IInv => CopyIsWhole
  BY DEF IInv
<1>2. QED
  BY <1>1, Invariance, PTL
=============================================================================
