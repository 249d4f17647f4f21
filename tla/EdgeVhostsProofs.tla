-------------------------- MODULE EdgeVhostsProofs --------------------------
(***************************************************************************)
(* Theorems about EdgeVhosts, for any domains, contents, orders and        *)
(* goroutines and any number of accidents.                                 *)
(***************************************************************************)
EXTENDS EdgeVhosts, TLAPS

(* A job that is alone is the only one on its file, and while anything is  *)
(* promised of a file no job works on it.                                  *)
Alone == \A w \in Workers : Active(w) /\ job[w].alone => Working(Key(w)) = {w}
Quiet == \A k \in Keys : promise[k] # "unknown" => Working(k) = {}

(* What a job that is alone has made of its file, by how far it has come.  *)
Created(k, content, n) ==
    /\ n > 5 => disk[k] = content
    /\ n > 7 => live[k] = content /\ PairWhole(k)
Deleted(k, n) ==
    /\ n > 1 => disk[k] = "none"
    /\ n > 2 => live[k] = "none"
Synced(k, content, n) ==
    /\ n > 2 => disk[k] = content
    /\ n > 3 => live[k] = content

Written(w) ==
    /\ job[w].order.kind = "create" => Created(Key(w), job[w].order.content, job[w].step)
    /\ job[w].order.kind = "delete" => Deleted(Key(w), job[w].step)
    /\ job[w].order.kind = "sync" => Synced(Key(w), job[w].order.content, job[w].step)

Progress == \A w \in Workers : Active(w) /\ job[w].alone => Written(w)

(* What is promised of a file is on the disk too: the reload of any other  *)
(* job loads it again.                                                     *)
Kept(k) ==
    /\ promise[k] \in Contents \cup {"none"} => disk[k] = promise[k] /\ live[k] = promise[k]
    /\ k \in Domains => ~Bad(k) /\ ~Torn(k)
Standing == \A k \in Keys : promise[k] # "unknown" => Kept(k)

IInv == TypeOK /\ Alone /\ Quiet /\ Progress /\ Standing

-----------------------------------------------------------------------------
(* The places of the steps in their chains.                                *)

On(w, kind, n) == Active(w) /\ job[w].order.kind = kind /\ job[w].step = n

\* A job that is under way is a record with an order.
LEMMA JobFacts ==
    ASSUME TypeOK, NEW w \in Workers, Active(w)
    PROVE  /\ job[w] \in Job /\ job[w].order \in Orders /\ job[w].step \in 1..8
           /\ job[w].order.kind \in Kinds /\ job[w].order.content \in Contents
           /\ job[w].order.kind \in {"create", "delete"} <=> Key(w) \in Domains
           /\ job[w].order.kind = "sync" <=> Key(w) = Rules
<1>1. job[w] \in Job
  BY DEF TypeOK, Active
<1>2. job[w].order \in Orders /\ job[w].step \in 1..8
  BY <1>1 DEF Job
<1>3. QED
  BY <1>1, <1>2, EdgeConstants DEF Order, Key

\* How long the chains are, and what stands where in them.
LEMMA Chains ==
    /\ Len(Chain.create) = 7 /\ Len(Chain.delete) = 2 /\ Len(Chain.sync) = 3
    /\ Len(Chain.issue) = 1 /\ Len(Chain.reload) = 1
    /\ Chain.create[1] = "certificate" /\ Chain.create[2] = "fullchain"
    /\ Chain.create[3] = "privkey" /\ Chain.create[4] = "open"
    /\ Chain.create[5] = "fill" /\ Chain.create[6] = "test" /\ Chain.create[7] = "reload"
    /\ Chain.delete[1] = "remove" /\ Chain.delete[2] = "reload"
    /\ Chain.sync[1] = "open" /\ Chain.sync[2] = "fill" /\ Chain.sync[3] = "reload"
    /\ Chain.issue[1] = "try reload" /\ Chain.reload[1] = "reload"
BY DEF Chain, CreateEdgeVhost, DeleteEdgeVhost, SyncWafRules, IssueCertificate

\* How far a job is that is not over, and over which step it stands.
LEMMA Position ==
    ASSUME TypeOK, NEW w \in Workers, Active(w)
    PROVE  /\ job[w].order.kind = "create" =>
                Steps(w) = Chain.create /\ (Over(w) <=> job[w].step > 7)
           /\ job[w].order.kind = "delete" =>
                Steps(w) = Chain.delete /\ (Over(w) <=> job[w].step > 2)
           /\ job[w].order.kind = "sync" =>
                Steps(w) = Chain.sync /\ (Over(w) <=> job[w].step > 3)
           /\ job[w].order.kind = "issue" =>
                Steps(w) = Chain.issue /\ (Over(w) <=> job[w].step > 1)
           /\ job[w].order.kind = "reload" =>
                Steps(w) = Chain.reload /\ (Over(w) <=> job[w].step > 1)
<1>1. CASE job[w].order.kind = "create"
  <2>1. Steps(w) = Chain.create
    BY <1>1 DEF Steps, Chain
  <2>2. QED
    BY <1>1, <2>1, Chains DEF Over
<1>2. CASE job[w].order.kind = "delete"
  <2>1. Steps(w) = Chain.delete
    BY <1>2 DEF Steps, Chain
  <2>2. QED
    BY <1>2, <2>1, Chains DEF Over
<1>3. CASE job[w].order.kind = "sync"
  <2>1. Steps(w) = Chain.sync
    BY <1>3 DEF Steps, Chain
  <2>2. QED
    BY <1>3, <2>1, Chains DEF Over
<1>4. CASE job[w].order.kind = "issue"
  <2>1. Steps(w) = Chain.issue
    BY <1>4 DEF Steps, Chain
  <2>2. QED
    BY <1>4, <2>1, Chains DEF Over
<1>5. CASE job[w].order.kind = "reload"
  <2>1. Steps(w) = Chain.reload
    BY <1>5 DEF Steps, Chain
  <2>2. QED
    BY <1>5, <2>1, Chains DEF Over
<1>6. QED
  BY <1>1, <1>2, <1>3, <1>4, <1>5, JobFacts DEF Kinds

\* Which jobs can be at a step, and how far they have come.
LEMMA Places ==
    ASSUME TypeOK, NEW w \in Workers
    PROVE  /\ At(w, "certificate") => On(w, "create", 1)
           /\ At(w, "fullchain") => On(w, "create", 2)
           /\ At(w, "privkey") => On(w, "create", 3)
           /\ At(w, "open") => On(w, "create", 4) \/ On(w, "sync", 1)
           /\ At(w, "fill") => On(w, "create", 5) \/ On(w, "sync", 2)
           /\ At(w, "test") => On(w, "create", 6)
           /\ At(w, "reload") => \/ On(w, "create", 7) \/ On(w, "delete", 2)
                                 \/ On(w, "sync", 3) \/ On(w, "reload", 1)
           /\ At(w, "try reload") => On(w, "issue", 1)
           /\ At(w, "remove") => On(w, "delete", 1)
<1> SUFFICES ASSUME Active(w), ~Over(w)
             PROVE  /\ Steps(w)[job[w].step] = "certificate" => On(w, "create", 1)
                    /\ Steps(w)[job[w].step] = "fullchain" => On(w, "create", 2)
                    /\ Steps(w)[job[w].step] = "privkey" => On(w, "create", 3)
                    /\ Steps(w)[job[w].step] = "open" =>
                         On(w, "create", 4) \/ On(w, "sync", 1)
                    /\ Steps(w)[job[w].step] = "fill" =>
                         On(w, "create", 5) \/ On(w, "sync", 2)
                    /\ Steps(w)[job[w].step] = "test" => On(w, "create", 6)
                    /\ Steps(w)[job[w].step] = "reload" =>
                         \/ On(w, "create", 7) \/ On(w, "delete", 2)
                         \/ On(w, "sync", 3) \/ On(w, "reload", 1)
                    /\ Steps(w)[job[w].step] = "try reload" => On(w, "issue", 1)
                    /\ Steps(w)[job[w].step] = "remove" => On(w, "delete", 1)
  BY DEF At
<1>1. job[w].step \in 1..8 /\ job[w].order.kind \in Kinds
  BY JobFacts
<1>2. CASE job[w].order.kind = "create"
  <2>1. \/ job[w].step = 1 \/ job[w].step = 2 \/ job[w].step = 3 \/ job[w].step = 4
        \/ job[w].step = 5 \/ job[w].step = 6 \/ job[w].step = 7
    <3>1. ~(job[w].step > 7)
      BY <1>2, Position
    <3>2. QED
      BY <1>1, <3>1
  <2>2. Steps(w) = Chain.create
    BY <1>2, Position
  <2>3. QED
    BY <1>2, <2>1, <2>2, Chains DEF On
<1>3. CASE job[w].order.kind = "delete"
  <2>1. job[w].step = 1 \/ job[w].step = 2
    <3>1. ~(job[w].step > 2)
      BY <1>3, Position
    <3>2. QED
      BY <1>1, <3>1
  <2>2. Steps(w) = Chain.delete
    BY <1>3, Position
  <2>3. QED
    BY <1>3, <2>1, <2>2, Chains DEF On
<1>4. CASE job[w].order.kind = "sync"
  <2>1. job[w].step = 1 \/ job[w].step = 2 \/ job[w].step = 3
    <3>1. ~(job[w].step > 3)
      BY <1>4, Position
    <3>2. QED
      BY <1>1, <3>1
  <2>2. Steps(w) = Chain.sync
    BY <1>4, Position
  <2>3. QED
    BY <1>4, <2>1, <2>2, Chains DEF On
<1>5. CASE job[w].order.kind \in {"issue", "reload"}
  <2>1. job[w].step = 1
    <3>1. ~(job[w].step > 1)
      BY <1>5, Position
    <3>2. QED
      BY <1>1, <3>1
  <2>2. Steps(w) = IF job[w].order.kind = "issue" THEN Chain.issue ELSE Chain.reload
    BY <1>5, Position
  <2>3. QED
    BY <1>5, <2>1, <2>2, Chains DEF On
<1>6. QED
  BY <1>1, <1>2, <1>3, <1>4, <1>5 DEF Kinds

-----------------------------------------------------------------------------
(* What all steps have in common.                                          *)

\* No record of a job is the record of having none.
LEMMA JobIsNotIdle == \A j \in Job : j # Idle
BY DEF Job, Idle

Same(k) ==
    /\ disk'[k] = disk[k] /\ live'[k] \in {live[k], disk[k]}
    /\ k \in Domains => fullchain'[k] = fullchain[k] /\ privkey'[k] = privkey[k]

(* A step of a job, or its end, is local: other jobs and other files are   *)
(* left as they are, but for what a reload finds on the disk.              *)
Local(w) ==
    /\ TypeOK'
    /\ \A x \in Workers \ {w} : job'[x] = job[x]
    /\ job'[w] # Idle => /\ job'[w].order = job[w].order
                         /\ job'[w].alone => job[w].alone
    /\ \A k \in Keys : k # Key(w) => Same(k) /\ promise'[k] = promise[k]

\* A local step keeps the inductive invariant if it makes of its own file what
\* its place in the chain says and promises of it only what is the case.
LEMMA LocalStep ==
    ASSUME IInv, NEW w \in Workers, Active(w), Local(w),
           Active(w)' /\ job'[w].alone => Written(w)',
           \A k \in Keys : k = Key(w) /\ promise'[k] # "unknown" =>
               job[w].alone /\ job'[w] = Idle /\ Kept(k)'
    PROVE  IInv'
<1> USE DEF Local
<1>1. \A x \in Workers : Active(x)' => Active(x) /\ Key(x)' = Key(x)
  BY DEF Active, Key
<1>2. \A k : Working(k)' \subseteq Working(k)
  BY <1>1 DEF Working
<1>3. \A x \in Workers : Active(x)' /\ job'[x].alone => job[x].alone
  BY DEF Active
<1>4. Alone'
  <2> SUFFICES ASSUME NEW x \in Workers, Active(x)', job'[x].alone
               PROVE  Working(Key(x))' = {x}
    BY DEF Alone
  <2>1. Key(x)' = Key(x) /\ Working(Key(x)) = {x}
    BY <1>1, <1>3 DEF IInv, Alone
  <2>2. x \in Working(Key(x))'
    BY DEF Working
  <2>3. QED
    BY <1>2, <2>1, <2>2
<1>5. Quiet'
  <2> SUFFICES ASSUME NEW k \in Keys, promise'[k] # "unknown" PROVE Working(k)' = {}
    BY DEF Quiet
  <2>1. CASE k = Key(w)
    <3>1. Working(k) = {w} /\ job'[w] = Idle
      BY <2>1 DEF IInv, Alone
    <3>2. w \notin Working(k)'
      BY <3>1 DEF Working, Active
    <3>3. QED
      BY <1>2, <3>1, <3>2
  <2>2. CASE k # Key(w)
    BY <2>2, <1>2 DEF IInv, Quiet
  <2>3. QED
    BY <2>1, <2>2
<1>6. Progress'
  <2> SUFFICES ASSUME NEW x \in Workers, Active(x)', job'[x].alone PROVE Written(x)'
    BY DEF Progress
  <2>1. CASE x = w
    BY <2>1
  <2>2. CASE x # w
    <3>1. Active(x) /\ job'[x] = job[x] /\ job[x].alone /\ Key(x)' = Key(x)
      BY <1>1, <2>2
    <3>2. Working(Key(x)) = {x} /\ Written(x)
      BY <3>1 DEF IInv, Alone, Progress
    <3>3. Key(x) # Key(w)
      BY <2>2, <3>2 DEF Working
    <3>4. Key(x) \in Keys => Same(Key(x))
      BY <3>3
    <3>5. CASE job[x].order.kind \in {"create", "delete", "sync"}
      <4>1. Key(x) \in Keys /\ (job[x].order.kind = "create" => Key(x) \in Domains)
        BY <3>1, <3>5, JobFacts DEF IInv, Keys
      <4>2. job[x].step \in 1..8
        BY <3>1, JobFacts DEF IInv
      <4>3. QED
        BY <3>1, <3>2, <3>4, <4>1, <4>2
        DEF Written, Created, Deleted, Synced, Same, PairWhole
    <3>6. CASE job[x].order.kind \notin {"create", "delete", "sync"}
      BY <3>1, <3>6 DEF Written
    <3>7. QED
      BY <3>5, <3>6
  <2>3. QED
    BY <2>1, <2>2
<1>7. Standing'
  <2> SUFFICES ASSUME NEW k \in Keys, promise'[k] # "unknown" PROVE Kept(k)'
    BY DEF Standing
  <2>1. CASE k = Key(w)
    BY <2>1
  <2>2. CASE k # Key(w)
    <3>1. Same(k) /\ promise'[k] = promise[k] /\ Kept(k)
      BY <2>2 DEF IInv, Standing
    <3>2. QED
      BY <3>1 DEF Kept, Same, Bad, Torn, PairWhole
  <2>3. QED
    BY <2>1, <2>2
<1>8. QED
  BY <1>4, <1>5, <1>6, <1>7 DEF IInv

Onward(w, n) ==
    /\ job' = [job EXCEPT ![w].step = @ + n]
    /\ UNCHANGED <<done, promise>> /\ faults' \in 0..MaxFaults

Typed ==
    /\ fullchain' \in [Domains -> Pem] /\ privkey' \in [Domains -> Pem]
    /\ disk' \in [Keys -> File] /\ live' \in [Keys -> File]
    /\ siteBad' \in BOOLEAN

\* A step that only advances its job promises nothing.
LEMMA OnwardStep ==
    ASSUME IInv, NEW w \in Workers, Active(w), NEW n \in {1, 3}, Onward(w, n),
           job[w].step + n \in 1..8, Typed,
           \A k \in Keys : k # Key(w) => Same(k),
           job[w].alone /\ Written(w) /\ job'[w].order = job[w].order
           /\ job'[w].step = job[w].step + n => Written(w)'
    PROVE  IInv'
<1> DEFINE j == [job[w] EXCEPT !.step = @ + n]
<1>1. job[w] \in Job
  BY JobFacts DEF IInv
<1>2. j \in Job /\ j.order = job[w].order /\ j.alone = job[w].alone /\ j.step = job[w].step + n
  BY <1>1 DEF Job
<1>3. job' = [job EXCEPT ![w] = j]
  BY DEF Onward
<1> HIDE DEF j
<1>4. job'[w] = j /\ \A x \in Workers \ {w} : job'[x] = job[x]
  BY <1>3 DEF IInv, TypeOK
<1>5. job' \in [Workers -> Job \cup {Idle}]
  BY <1>2, <1>3 DEF IInv, TypeOK
<1>6. TypeOK'
  BY <1>5 DEF IInv, TypeOK, Onward, Typed
<1>7. Local(w)
  BY <1>2, <1>4, <1>6 DEF Local, Onward
<1>8. Active(w)' /\ job'[w].alone => Written(w)'
  BY <1>2, <1>4 DEF IInv, Progress
<1>9. \A k \in Keys : k = Key(w) => promise'[k] = "unknown"
  BY DEF IInv, Quiet, Working, Onward
<1>10. QED
  BY <1>7, <1>8, <1>9, LocalStep

Ends(w) ==
    /\ job' = [job EXCEPT ![w] = Idle]
    /\ done' \subseteq Orders /\ faults' \in 0..MaxFaults

\* A job that ends, without a promise or with one that holds.
LEMMA EndStep ==
    ASSUME IInv, NEW w \in Workers, Active(w), Ends(w), Typed,
           \A k \in Keys : k # Key(w) => Same(k),
           \/ promise' = promise
           \/ \E what \in Contents \cup {"none", "rejected"} :
                 /\ Promised(w, what)
                 /\ \A k \in Keys : k = Key(w) /\ job[w].alone /\ promise'[k] = what => Kept(k)'
    PROVE  IInv'
<1>1. /\ job' \in [Workers -> Job \cup {Idle}] /\ job'[w] = Idle
      /\ \A x \in Workers \ {w} : job'[x] = job[x]
  BY DEF IInv, TypeOK, Ends
<1>2. \A k \in Keys : k = Key(w) => promise[k] = "unknown"
  BY DEF IInv, Quiet, Working
<1>3. ~Active(w)'
  BY <1>1 DEF Active
<1>4. CASE promise' = promise
  <2>1. TypeOK'
    BY <1>1, <1>4 DEF IInv, TypeOK, Ends, Typed
  <2>2. Local(w)
    BY <1>1, <1>4, <2>1 DEF Local
  <2>3. QED
    BY <1>2, <1>3, <1>4, <2>2, LocalStep
<1>5. CASE \E what \in Contents \cup {"none", "rejected"} :
             /\ Promised(w, what)
             /\ \A k \in Keys : k = Key(w) /\ job[w].alone /\ promise'[k] = what => Kept(k)'
  <2> PICK what \in Contents \cup {"none", "rejected"} :
             /\ Promised(w, what)
             /\ \A k \in Keys : k = Key(w) /\ job[w].alone /\ promise'[k] = what => Kept(k)'
    BY <1>5
  <2>1. \A k \in Keys : promise'[k] = IF k = Key(w) /\ job[w].alone THEN what ELSE promise[k]
    BY DEF Promised
  <2>2. promise' \in [Keys -> Contents \cup {"none", "rejected", "unknown"}]
    BY DEF IInv, TypeOK, Promised
  <2>3. TypeOK'
    BY <1>1, <2>2 DEF IInv, TypeOK, Ends, Typed
  <2>4. Local(w)
    BY <1>1, <2>1, <2>3 DEF Local
  <2>5. \A k \in Keys : k = Key(w) /\ promise'[k] # "unknown" => job[w].alone /\ Kept(k)'
    BY <1>2, <2>1
  <2>6. QED
    BY <1>1, <1>3, <2>4, <2>5, LocalStep
<1>6. QED
  BY <1>4, <1>5

-----------------------------------------------------------------------------
(* The steps.                                                              *)

\* A job's place and file, at the steps that have a file.
LEMMA AtFile ==
    ASSUME IInv, NEW w \in Workers
    PROVE  /\ At(w, "certificate") \/ At(w, "fullchain") \/ At(w, "privkey")
              \/ At(w, "test") \/ At(w, "remove") => Active(w) /\ Key(w) \in Domains
           /\ At(w, "open") \/ At(w, "fill") => Active(w) /\ Key(w) \in Keys
<1>1. TypeOK
  BY DEF IInv
<1>2. ASSUME At(w, "certificate") \/ At(w, "fullchain") \/ At(w, "privkey")
             \/ At(w, "test") \/ At(w, "remove")
      PROVE  Active(w) /\ job[w].order.kind \in {"create", "delete"}
  BY <1>1, <1>2, Places DEF On
<1>3. ASSUME At(w, "open") \/ At(w, "fill")
      PROVE  Active(w) /\ job[w].order.kind \in {"create", "sync"}
  BY <1>1, <1>3, Places DEF On
<1>4. QED
  BY <1>1, <1>2, <1>3, JobFacts DEF Keys

\* The certificate is found, or downloaded and written.
LEMMA CertificateIInv ==
    ASSUME IInv, NEW w \in Workers,
           \/ CertificateFound(w) \/ FetchCertificate(w)
           \/ WriteFullchain(w) \/ WritePrivkey(w)
    PROVE  IInv'
<1> USE DEF certVars, nginxVars
<1>1. Active(w) /\ Key(w) \in Domains
  BY AtFile DEF CertificateFound, FetchCertificate, WriteFullchain, WritePrivkey
<1>2. /\ On(w, "create", 1) \/ On(w, "create", 2) \/ On(w, "create", 3)
      /\ CertificateFound(w) => On(w, "create", 1)
  BY Places DEF IInv, CertificateFound, FetchCertificate, WriteFullchain, WritePrivkey
<1>3. UNCHANGED <<disk, live, siteBad>> /\ faults' \in 0..MaxFaults
  BY DEF CertificateFound, FetchCertificate, WriteFullchain, WritePrivkey, Advance,
     IInv, TypeOK
<1>4. Typed
  BY <1>1, <1>3 DEF Typed, CertificateFound, FetchCertificate, WriteFullchain,
     WritePrivkey, IInv, TypeOK, Pem
<1>5. \A k \in Keys : k # Key(w) => Same(k)
  BY <1>1, <1>3 DEF Same, CertificateFound, FetchCertificate, WriteFullchain,
     WritePrivkey, IInv, TypeOK
<1>6. \E n \in {1, 3} : /\ Onward(w, n) /\ job[w].step + n \in 1..8
                        /\ job[w].step + n <= 4
  <2>1. CASE CertificateFound(w)
    <3>1. Onward(w, 3)
      BY <1>3, <2>1 DEF CertificateFound, Onward
    <3>2. job[w].step = 1
      BY <1>2, <2>1 DEF On
    <3>3. QED
      BY <3>1, <3>2
  <2>2. CASE ~CertificateFound(w)
    <3>1. Onward(w, 1)
      BY <1>3, <2>2 DEF FetchCertificate, WriteFullchain, WritePrivkey, Advance, Onward
    <3>2. job[w].step \in 1..3
      BY <1>2 DEF On
    <3>3. QED
      BY <3>1, <3>2
  <2>3. QED
    BY <2>1, <2>2
<1>7. PICK n \in {1, 3} : /\ Onward(w, n) /\ job[w].step + n \in 1..8
                          /\ job[w].step + n <= 4
  BY <1>6
<1>8. ASSUME job'[w].order = job[w].order, job'[w].step = job[w].step + n PROVE Written(w)'
  <2>1. job'[w].step \in 1..4 /\ job'[w].order.kind = "create"
    BY <1>2, <1>7, <1>8 DEF On
  <2>2. QED
    BY <2>1 DEF Written, Created
<1>9. QED
  BY <1>1, <1>4, <1>5, <1>7, <1>8, OnwardStep

\* The file is truncated and written; the test changes nothing.
LEMMA FileIInv ==
    ASSUME IInv, NEW w \in Workers, OpenFile(w) \/ FillFile(w) \/ TestAccepts(w)
    PROVE  IInv'
<1> USE DEF certVars, nginxVars
<1>1. Active(w) /\ Key(w) \in Keys
  BY AtFile DEF OpenFile, FillFile, TestAccepts, Keys
<1>2. \/ OpenFile(w) /\ (On(w, "create", 4) \/ On(w, "sync", 1))
      \/ FillFile(w) /\ (On(w, "create", 5) \/ On(w, "sync", 2))
      \/ TestAccepts(w) /\ On(w, "create", 6)
  BY Places DEF IInv, OpenFile, FillFile, TestAccepts
<1>3. UNCHANGED <<fullchain, privkey, live, siteBad>> /\ Onward(w, 1)
  BY DEF OpenFile, FillFile, TestAccepts, Advance, Onward, IInv, TypeOK
<1>4. job[w].order.content \in Contents
  BY <1>1, JobFacts DEF IInv
<1>5. Typed
  BY <1>1, <1>2, <1>3, <1>4 DEF Typed, OpenFile, FillFile, TestAccepts, IInv, TypeOK, File
<1>6. \A k \in Keys : k # Key(w) => Same(k)
  BY <1>2, <1>3 DEF Same, OpenFile, FillFile, TestAccepts, IInv, TypeOK
<1>7. job[w].step + 1 \in 1..8
  BY <1>2 DEF On
<1>8. FillFile(w) => disk'[Key(w)] = job[w].order.content
  BY <1>1 DEF FillFile, IInv, TypeOK
<1>9. TestAccepts(w) => disk' = disk
  BY DEF TestAccepts
<1>10. ASSUME Written(w), job'[w].order = job[w].order, job'[w].step = job[w].step + 1
       PROVE  Written(w)'
  <2>1. Key(w)' = Key(w)
    BY <1>10 DEF Key
  <2>2. CASE OpenFile(w) /\ (On(w, "create", 4) \/ On(w, "sync", 1))
    BY <1>10, <2>2 DEF On, Written, Created, Synced
  <2>3. CASE FillFile(w) /\ (On(w, "create", 5) \/ On(w, "sync", 2))
    BY <1>8, <1>10, <2>1, <2>3 DEF On, Written, Created, Synced
  <2>4. CASE TestAccepts(w) /\ On(w, "create", 6)
    BY <1>9, <1>10, <2>1, <2>4 DEF On, Written, Created
  <2>5. QED
    BY <1>2, <2>2, <2>3, <2>4
<1>11. QED
  BY <1>1, <1>3, <1>5, <1>6, <1>7, <1>10, OnwardStep

\* An edge vhost is removed; that it was not there is no error.
LEMMA RemoveIInv ==
    ASSUME IInv, NEW w \in Workers, RemoveEdgeVhost(w)
    PROVE  IInv'
<1> USE DEF certVars, nginxVars, RemoveEdgeVhost
<1>1. Active(w) /\ Key(w) \in Keys /\ On(w, "delete", 1)
  BY AtFile, Places DEF IInv, Keys
<1>2. UNCHANGED <<fullchain, privkey, live, siteBad>> /\ Onward(w, 1)
  BY DEF Advance, Onward, IInv, TypeOK
<1>3. Typed
  BY <1>1, <1>2 DEF Typed, IInv, TypeOK, File
<1>4. \A k \in Keys : k # Key(w) => Same(k)
  BY <1>2 DEF Same, IInv, TypeOK
<1>5. job[w].step + 1 \in 1..8
  BY <1>1 DEF On
<1>6. disk'[Key(w)] = "none"
  BY <1>1 DEF IInv, TypeOK
<1>7. ASSUME job'[w].order = job[w].order, job'[w].step = job[w].step + 1
      PROVE  Written(w)'
  <2>1. Key(w)' = Key(w)
    BY <1>7 DEF Key
  <2>2. QED
    BY <1>1, <1>6, <1>7, <2>1 DEF On, Written, Deleted
<1>8. QED
  BY <1>1, <1>2, <1>3, <1>4, <1>5, <1>7, OnwardStep

\* A reload brings what is on the disk, for every file; Nginx has accepted the
\* vhost then, with both halves of its certificate.
LEMMA ReloadIInv ==
    ASSUME IInv, NEW w \in Workers, Reload(w) \/ ReloadOverlooked(w)
    PROVE  IInv'
<1> USE DEF certVars, nginxVars
<1>1. /\ \/ On(w, "create", 7) \/ On(w, "delete", 2) \/ On(w, "sync", 3)
         \/ On(w, "reload", 1) \/ On(w, "issue", 1)
      /\ ReloadOverlooked(w) => On(w, "issue", 1)
  BY Places DEF IInv, Reload, ReloadOverlooked
<1>2. Active(w)
  BY <1>1 DEF On
<1>3. /\ UNCHANGED <<fullchain, privkey, disk, siteBad>> /\ Onward(w, 1)
      /\ live' \in {live, disk}
  BY DEF Reload, ReloadOverlooked, Advance, Onward, IInv, TypeOK
<1>4. Typed
  BY <1>3 DEF Typed, IInv, TypeOK
<1>5. \A k \in Keys : k # Key(w) => Same(k)
  BY <1>3 DEF Same
<1>6. job[w].step + 1 \in 1..8
  BY <1>1 DEF On
<1>7. ASSUME Written(w), job'[w].order = job[w].order, job'[w].step = job[w].step + 1
      PROVE  Written(w)'
  <2>1. Key(w)' = Key(w)
    BY <1>7 DEF Key
  <2>2. CASE On(w, "create", 7) /\ ~ReloadOverlooked(w)
    <3>1. disk[Key(w)] = job[w].order.content /\ live' = disk
      <4>1. disk[Key(w)] = job[w].order.content
        BY <2>2, <1>7 DEF On, Written, Created
      <4>2. live' = disk
        BY <2>2 DEF Reload
      <4>3. QED
        BY <4>1, <4>2
    <3>2. Key(w) \in Domains /\ job[w].order.content \in Contents
      BY <1>2, <2>2, JobFacts DEF IInv, On
    <3>3. PairWhole(Key(w))
      BY <2>2, <3>1, <3>2 DEF Reload, MayAccept, Bad, Keys
    <3>4. PairWhole(Key(w))'
      BY <1>3, <2>1, <3>3 DEF PairWhole
    <3>5. QED
      BY <1>3, <1>7, <2>1, <2>2, <3>1, <3>4 DEF On, Written, Created
  <2>3. CASE (On(w, "delete", 2) \/ On(w, "sync", 3)) /\ ~ReloadOverlooked(w)
    <3>1. live' = disk
      BY <2>3 DEF Reload
    <3>2. QED
      BY <1>3, <1>7, <2>1, <2>3, <3>1 DEF On, Written, Deleted, Synced
  <2>4. CASE On(w, "reload", 1) \/ On(w, "issue", 1)
    BY <1>7, <2>4 DEF On, Written
  <2>5. QED
    BY <1>1, <2>2, <2>3, <2>4 DEF On
<1>8. QED
  BY <1>2, <1>3, <1>4, <1>5, <1>6, <1>7, OnwardStep

\* DONE is reported, with what the job promises of its file if it was alone.
LEMMA FinishIInv ==
    ASSUME IInv, NEW w \in Workers, Finish(w)
    PROVE  IInv'
<1> USE DEF certVars, nginxVars
<1> DEFINE o == job[w].order
<1>1. /\ Active(w) /\ Over(w) /\ Promised(w, Outcome(o))
      /\ UNCHANGED <<fullchain, privkey, disk, live, siteBad>>
  BY DEF Finish
<1>2. /\ o \in Orders /\ o.kind \in Kinds /\ o.content \in Contents /\ job[w].step \in 1..8
      /\ o.kind \in {"create", "delete"} <=> Key(w) \in Domains
      /\ o.kind = "sync" <=> Key(w) = Rules
  BY <1>1, JobFacts DEF IInv
<1>3. Ends(w) /\ Typed
  BY <1>2 DEF Finish, Ends, Typed, IInv, TypeOK
<1>4. \A k \in Keys : k # Key(w) => Same(k)
  BY <1>1 DEF Same
<1>5. Outcome(o) \in Contents \cup {"none", "rejected"}
  BY <1>2 DEF Outcome
<1>6. ASSUME NEW k \in Keys, k = Key(w), job[w].alone, promise'[k] = Outcome(o)
      PROVE  Kept(k)'
  <2>1. Written(w)
    BY <1>1, <1>6 DEF IInv, Progress
  <2>2. CASE o.kind = "create"
    <3>1. job[w].step = 8
      <4>1. job[w].step > 7
        BY <1>1, <2>2, Position DEF IInv
      <4>2. QED
        BY <1>2, <4>1
    <3>2. disk[k] = o.content /\ live[k] = o.content /\ PairWhole(k)
      BY <1>6, <2>1, <2>2, <3>1 DEF Written, Created
    <3>3. o.content # "torn" /\ Outcome(o) = o.content
      BY <1>2, <2>2, EdgeConstants DEF Outcome
    <3>4. QED
      BY <1>1, <1>6, <3>2, <3>3 DEF Kept, Bad, Torn, PairWhole
  <2>3. CASE o.kind = "delete"
    <3>1. disk[k] = "none" /\ live[k] = "none"
      <4>1. job[w].step > 2
        BY <1>1, <2>3, Position DEF IInv
      <4>2. Deleted(k, job[w].step)
        BY <1>6, <2>1, <2>3 DEF Written
      <4>3. QED
        BY <1>2, <4>1, <4>2 DEF Deleted
    <3>2. Outcome(o) = "none"
      BY <2>3 DEF Outcome
    <3>3. QED
      BY <1>1, <1>6, <3>1, <3>2, EdgeConstants DEF Kept, Bad, Torn
  <2>4. CASE o.kind = "sync"
    <3>1. disk[k] = o.content /\ live[k] = o.content
      <4>1. job[w].step > 3
        BY <1>1, <2>4, Position DEF IInv
      <4>2. Synced(k, o.content, job[w].step)
        BY <1>6, <2>1, <2>4 DEF Written
      <4>3. QED
        BY <1>2, <4>1, <4>2 DEF Synced
    <3>2. Outcome(o) = o.content
      BY <2>4 DEF Outcome
    <3>3. k \notin Domains
      BY <1>2, <1>6, <2>4, EdgeConstants
    <3>4. QED
      BY <1>1, <1>6, <3>1, <3>2, <3>3 DEF Kept
  <2>5. QED
    BY <1>2, <1>6, <2>2, <2>3, <2>4 DEF Keys
<1>7. QED
  BY <1>1, <1>3, <1>4, <1>5, <1>6, EndStep

\* What the test rejects is removed from the disk.
LEMMA RejectedIInv ==
    ASSUME IInv, NEW w \in Workers, TestRejects(w)
    PROVE  IInv'
<1> USE DEF certVars, nginxVars, TestRejects
<1>1. /\ Active(w) /\ Key(w) \in Keys /\ Promised(w, "rejected")
      /\ UNCHANGED <<fullchain, privkey, live, siteBad>>
      /\ disk' = [disk EXCEPT ![Key(w)] = "none"]
  BY AtFile DEF Keys, AfterRejection
<1>2. Ends(w) /\ Typed
  BY <1>1 DEF Ends, Typed, IInv, TypeOK, File
<1>3. \A k \in Keys : k # Key(w) => Same(k)
  BY <1>1 DEF Same, IInv, TypeOK
<1>4. disk'[Key(w)] = "none"
  BY <1>1 DEF IInv, TypeOK
<1>5. ASSUME NEW k \in Keys, k = Key(w), promise'[k] = "rejected" PROVE Kept(k)'
  BY <1>4, <1>5, EdgeConstants DEF Kept, Bad, Torn
<1>6. QED
  BY <1>1, <1>2, <1>3, <1>5, EndStep

\* A job that fails promises nothing, whatever it leaves behind.
LEMMA FailsIInv ==
    ASSUME IInv, NEW w \in Workers, ReloadFails(w) \/ StepFails(w) \/ WriteCutShort(w)
    PROVE  IInv'
<1> USE DEF certVars, nginxVars
<1>1. Active(w) /\ (WriteCutShort(w) => Key(w) \in Keys)
  BY AtFile DEF ReloadFails, StepFails, WriteCutShort, At, Keys
<1>2. Ends(w) /\ promise' = promise
  BY EdgeConstants DEF ReloadFails, StepFails, WriteCutShort, Accident, Ends, IInv, TypeOK
<1>3. Typed
  BY <1>1 DEF ReloadFails, StepFails, WriteCutShort, Typed, IInv, TypeOK, Pem, File
<1>4. \A k \in Keys : k # Key(w) => Same(k)
  BY DEF ReloadFails, StepFails, WriteCutShort, Same, IInv, TypeOK
<1>5. QED
  BY <1>1, <1>2, <1>3, <1>4, EndStep

\* The warden dies with all its jobs, or a site's vhost becomes bad or good.
LEMMA AccidentIInv ==
    ASSUME IInv, Crash \/ SiteRejected \/ SiteRepaired
    PROVE  IInv'
<1> USE DEF certVars, nginxVars
<1>1. /\ UNCHANGED <<fullchain, privkey, disk, live, done, promise>>
      /\ job' = job \/ job' = [w \in Workers |-> Idle]
      /\ siteBad' \in BOOLEAN /\ faults' \in 0..MaxFaults
  <2>1. siteBad \in BOOLEAN
    BY DEF IInv, TypeOK
  <2>2. siteBad' \in BOOLEAN
    BY <2>1, Zenon DEF Crash, SiteRejected, SiteRepaired
  <2>3. faults' \in 0..MaxFaults
    BY EdgeConstants DEF Crash, SiteRejected, SiteRepaired, Accident, IInv, TypeOK
  <2>4. QED
    BY <2>2, <2>3 DEF Crash, SiteRejected, SiteRepaired
<1>2. \A x \in Workers : Active(x)' => Active(x) /\ job'[x] = job[x] /\ Key(x)' = Key(x)
  BY <1>1 DEF Active, Key
<1>3. TypeOK'
  BY <1>1 DEF IInv, TypeOK
<1>4. \A k : Working(k)' = Working(k) \/ Working(k)' = {}
  BY <1>1 DEF Working, Active, Key
<1>5. Quiet'
  BY <1>1, <1>4 DEF IInv, Quiet
<1>6. Alone' /\ Progress' /\ Standing'
  <2>1. CASE job' = job
    BY <1>1, <2>1 DEF IInv, Alone, Progress, Standing, Kept, Bad, Torn, PairWhole,
       Written, Created, Deleted, Synced, Active, Working, Key
  <2>2. CASE job' = [w \in Workers |-> Idle]
    BY <1>1, <2>2 DEF IInv, Alone, Progress, Standing, Kept, Bad, Torn, PairWhole, Active
  <2>3. QED
    BY <1>1, <2>1, <2>2
<1>7. QED
  BY <1>3, <1>5, <1>6 DEF IInv

\* A new job takes the promise of its file back, and no other job of the file
\* is alone from there on.
LEMMA StartIInv ==
    ASSUME IInv, NEW w \in Workers, NEW o \in Orders, Start(w, o)
    PROVE  IInv'
<1> USE DEF certVars, nginxVars
<1> DEFINE new == [order |-> o, step |-> 1, alone |-> Working(o.key) = {}]
<1>1. Working(o.key) \ {w} = Working(o.key) /\ ~Active(w)
  BY DEF Start, Working
<1>2. /\ UNCHANGED <<fullchain, privkey, disk, live, siteBad, done, faults>>
      /\ job' = [x \in Workers |->
                    IF x = w THEN new
                    ELSE IF x \in Working(o.key) THEN [job[x] EXCEPT !.alone = FALSE]
                    ELSE job[x]]
      /\ promise' = [k \in Keys |-> IF k = o.key THEN "unknown" ELSE promise[k]]
  BY <1>1 DEF Start
<1>3. new \in Job
  <2>1. (Working(o.key) = {}) \in BOOLEAN
    OBVIOUS
  <2>2. QED
    BY <2>1 DEF Job
<1>4. new.order = o /\ new.step = 1 /\ (new.alone <=> Working(o.key) = {})
  OBVIOUS
<1> HIDE DEF new
<1>5. \A x \in Working(o.key) : x \in Workers /\ Active(x) /\ job[x] \in Job /\ x # w
  BY <1>1, JobFacts DEF IInv, Working
<1>6. ASSUME NEW x \in Working(o.key)
      PROVE  job'[x] \in Job /\ ~job'[x].alone /\ job'[x].order = job[x].order
  <2>1. job'[x] = [job[x] EXCEPT !.alone = FALSE]
    BY <1>2, <1>5
  <2>2. QED
    BY <1>5, <2>1 DEF Job
<1>7. job'[w] = new /\ \A x \in Workers \ ({w} \cup Working(o.key)) : job'[x] = job[x]
  BY <1>2
<1>8. TypeOK'
  <2>1. \A x \in Workers : job'[x] \in Job \cup {Idle}
    BY <1>3, <1>6, <1>7 DEF IInv, TypeOK
  <2>2. job' \in [Workers -> Job \cup {Idle}]
    BY <1>2, <2>1
  <2>3. promise' \in [Keys -> Contents \cup {"none", "rejected", "unknown"}]
    BY <1>2 DEF IInv, TypeOK
  <2>4. QED
    BY <1>2, <2>2, <2>3 DEF IInv, TypeOK
<1>9. \A x \in Workers \ {w} : (Active(x)' <=> Active(x)) /\ (Active(x) => Key(x)' = Key(x))
  BY <1>5, <1>6, <1>7, JobIsNotIdle DEF Active, Key
<1>10. Active(w)' /\ Key(w)' = o.key
  BY <1>3, <1>4, <1>7, JobIsNotIdle DEF Active, Key
<1>11. Working(o.key)' = Working(o.key) \cup {w}
  BY <1>5, <1>9, <1>10 DEF Working
<1>12. \A k : k # o.key => Working(k)' = Working(k)
  BY <1>1, <1>9, <1>10 DEF Working
<1>13. ASSUME NEW x \in Workers, Active(x)', job'[x].alone
       PROVE  Working(Key(x))' = {x} /\ Written(x)'
  <2>1. CASE x = w
    <3>1. Working(o.key) = {}
      BY <2>1, <1>4, <1>7, <1>13
    <3>2. Working(Key(x))' = {x}
      BY <2>1, <3>1, <1>10, <1>11
    <3>3. job'[x].step = 1
      BY <2>1, <1>4, <1>7
    <3>4. QED
      BY <3>2, <3>3 DEF Written, Created, Deleted, Synced
  <2>2. CASE x # w
    <3>1. x \notin Working(o.key) /\ Active(x)
      BY <2>2, <1>6, <1>9, <1>13
    <3>2. job'[x] = job[x] /\ Key(x) # o.key /\ Key(x)' = Key(x)
      BY <2>2, <3>1, <1>7, <1>9 DEF Working
    <3>3. Working(Key(x)) = {x} /\ Written(x)
      BY <3>1, <3>2, <1>13 DEF IInv, Alone, Progress
    <3>4. QED
      BY <3>2, <3>3, <1>2, <1>12 DEF Written, Created, Deleted, Synced, PairWhole
  <2>3. QED
    BY <2>1, <2>2
<1>14. \A k \in Keys : promise'[k] # "unknown" => k # o.key /\ promise'[k] = promise[k]
  BY <1>2
<1>15. Alone' /\ Quiet' /\ Progress'
  BY <1>12, <1>13, <1>14 DEF Alone, Quiet, Progress, IInv
<1>16. Standing'
  BY <1>2, <1>14 DEF IInv, Standing, Kept, Bad, Torn, PairWhole
<1>17. QED
  BY <1>8, <1>15, <1>16 DEF IInv

-----------------------------------------------------------------------------
(* The theorems.                                                           *)

\* An empty configuration satisfies the inductive invariant.
LEMMA InitIInv == Init => IInv
<1> SUFFICES ASSUME Init PROVE IInv
  OBVIOUS
<1>1. TypeOK
  <2>1. siteBad \in BOOLEAN
    BY Zenon DEF Init
  <2>2. QED
    BY <2>1, EdgeConstants DEF Init, TypeOK, Pem, File
<1>2. \A w \in Workers : ~Active(w)
  BY DEF Init, Active
<1>3. QED
  BY <1>1, <1>2 DEF Init, IInv, Alone, Quiet, Progress, Standing

\* Every step keeps the inductive invariant.
LEMMA NextIInv == IInv /\ [Next]_vars => IInv'
<1> SUFFICES ASSUME IInv, [Next]_vars PROVE IInv'
  OBVIOUS
<1>1. ASSUME NEW w \in Workers, JobStep(w) \/ StepFails(w) \/ WriteCutShort(w) PROVE IInv'
  BY <1>1, CertificateIInv, FileIInv, RemoveIInv, ReloadIInv, FinishIInv, RejectedIInv,
     FailsIInv DEF JobStep
<1>2. CASE UNCHANGED vars
  BY <1>2 DEF vars, certVars, nginxVars, IInv, TypeOK, Alone, Quiet, Progress, Standing,
     Kept, Bad, Torn, PairWhole, Written, Created, Deleted, Synced, Active, Working, Key
<1>3. QED
  BY <1>1, <1>2, StartIInv, AccidentIInv DEF Next

\* Every state that can be reached satisfies the inductive invariant.
THEOREM Invariance == Spec => []IInv
BY InitIInv, NextIInv, PTL DEF Spec

\* The variables have their types.
THEOREM TypeCorrect == Spec => []TypeOK
<1>1. IInv => TypeOK
  BY DEF IInv
<1>2. QED
  BY <1>1, Invariance, PTL

\* What was reported DONE is what Nginx serves, whatever the jobs on other
\* files do, and also when they fail half way.
THEOREM DoneStaysLoaded == Spec => []DoneIsLoaded
<1>1. IInv => DoneIsLoaded
  BY EdgeConstants DEF IInv, Standing, Kept, DoneIsLoaded
<1>2. QED
  BY <1>1, Invariance, PTL

\* An edge job that ended by itself leaves no file that makes Nginx reject the
\* configuration of everybody else.
THEOREM NobodyIsBlocked == Spec => []EdgeBlocksNobody
<1>1. IInv => EdgeBlocksNobody
  BY DEF IInv, Standing, Kept, EdgeBlocksNobody, Keys
<1>2. QED
  BY <1>1, Invariance, PTL
=============================================================================
