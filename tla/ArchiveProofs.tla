---------------------------- MODULE ArchiveProofs ----------------------------
(***************************************************************************)
(* Proofs about archive jobs, for any number of jobs, galleries, clients    *)
(* and workers: what is handed out is stored, leases are their holders',    *)
(* and builds of a gallery do not overlap beyond its cap.                   *)
(***************************************************************************)
EXTENDS ArchiveJob, LeaseProofs, WellFoundedInduction

(* Jobs that messages, builds and requests are about were created; nothing  *)
(* is about one that was not.                                               *)
AllCreated ==
    /\ \A j \in Job : status[j] # "NONE" => scope[j] \in Scope
    /\ \A j \in Job : status[j] = "NONE" => Quiet(j) /\ exp[j] = "unset"
    /\ \A c \in Client : client[c].pc = "enqueue" => status[client[c].job] # "NONE"

Runs == [pc : RunPc, job : Job, tries : 0..MaxRetries]

(* What a build is at.                                                      *)
LEMMA RunFacts ==
    ASSUME ArchiveTypeOK, AllCreated, NEW r \in Run, run[r] # Idle
    PROVE  /\ run[r] \in Runs /\ run[r].job \in Job /\ run[r].tries \in 0..MaxRetries
           /\ status[run[r].job] # "NONE" /\ G(run[r].job) \in Gallery
<1>1. run[r] \in Runs /\ run[r].job \in Job /\ run[r].tries \in 0..MaxRetries
  BY DEF ArchiveTypeOK, Runs
<1>2. status[run[r].job] # "NONE"
  BY <1>1 DEF AllCreated, Quiet
<1>3. G(run[r].job) \in Gallery
  BY <1>1, <1>2, ArchiveAssumption DEF AllCreated, G
<1> QED
  BY <1>1, <1>2, <1>3

(* A build that is somewhere is not at rest.                                *)
LEMMA PcFacts ==
    ASSUME NEW r
    PROVE  /\ \A pc \in RunPc : Running(r, pc) => run[r] # Idle
           /\ Holding(r) => run[r] # Idle
           /\ run[r].pc \in {"mark", "build", "stored"} => run[r] # Idle
BY DEF Running, Holding, Idle, RunPc

(* A build goes on, or ends: what either writes is well typed.              *)
LEMMA GotoTyped ==
    ASSUME ArchiveTypeOK, AllCreated, NEW r \in Run, run[r] # Idle, NEW pc \in RunPc, Goto(r, pc)
    PROVE  /\ run' \in [Run -> {Idle} \cup Runs]
           /\ run'[r] = [run[r] EXCEPT !.pc = pc]
           /\ \A q \in Run : q # r => run'[q] = run[q]
<1>1. run[r] \in Runs
  BY RunFacts
<1>2. [run[r] EXCEPT !.pc = pc] \in Runs
  BY <1>1 DEF Runs
<1>3. run \in [Run -> {Idle} \cup Runs] /\ run' = [run EXCEPT ![r] = [run[r] EXCEPT !.pc = pc]]
  BY DEF ArchiveTypeOK, Runs, Goto
<1> QED
  BY <1>2, <1>3

LEMMA EndTyped ==
    ASSUME ArchiveTypeOK, NEW r \in Run, End(r)
    PROVE  /\ run' \in [Run -> {Idle} \cup Runs]
           /\ run'[r] = Idle /\ \A q \in Run : q # r => run'[q] = run[q]
           /\ since' \in [Gallery -> 0..CounterTTL]
<1>1. run \in [Run -> {Idle} \cup Runs]
  BY DEF ArchiveTypeOK, Runs
<1>2. since' \in [Gallery -> 0..CounterTTL]
  BY LeaseBounds DEF End, ArchiveTypeOK
<1> QED
  BY <1>1, <1>2 DEF End

(* What a retry, a loss and a second delivery put into the broker.          *)
LEMMA QueueTyped ==
    ASSUME ArchiveTypeOK, AllCreated, NEW r \in Run, run[r] # Idle,
           Retry(r) \/ queue' = queue \cup {Held(r)} \/ queue' = queue
    PROVE  /\ queue' \in SUBSET Message
           /\ \A m \in queue' : m \in queue \/ m.job = run[r].job
<1>1. run[r].job \in Job /\ run[r].tries \in 0..MaxRetries
  BY RunFacts
<1>2. CASE Retry(r) /\ run[r].tries < MaxRetries
  <2>1. run[r].tries + 1 \in 0..MaxRetries
    BY <1>1, <1>2, ArchiveAssumption
  <2>2. [job |-> run[r].job, tries |-> run[r].tries + 1] \in Message
    BY <1>1, <2>1 DEF Message
  <2> QED
    BY <1>2, <2>2 DEF Retry, ArchiveTypeOK
<1>3. CASE queue' = queue \cup {Held(r)}
  BY <1>1, <1>3 DEF Held, Message, ArchiveTypeOK
<1>4. CASE queue' = queue
  BY <1>4 DEF ArchiveTypeOK
<1> QED
  BY <1>2, <1>3, <1>4 DEF Retry

(* A row is written, or is not there.                                       *)
LEMMA WriteTyped ==
    ASSUME ArchiveTypeOK, NEW j \in Job, NEW st \in Status \ {"NONE"}
    PROVE  /\ Write(j, st) \in [Job -> Status]
           /\ \A k \in Job : Write(j, st)[k] = "NONE" <=> status[k] = "NONE"
           /\ \A k \in Job : k # j => Write(j, st)[k] = status[k]
           /\ Write(j, st)[j] \in {st, "NONE", "GONE"}
BY DEF Write, Exists, ArchiveTypeOK, Status

LEMMA ResumeTyped ==
    ASSUME ArchiveTypeOK, NEW S
    PROVE  /\ ResumeStale(S) \in [Job -> Status]
           /\ \A k \in Job : ResumeStale(S)[k] = "NONE" <=> status[k] = "NONE"
           /\ \A k \in Job : ResumeStale(S)[k] \in {"PENDING", status[k]}
BY DEF ResumeStale, Stale, ArchiveTypeOK, Status

(* The next job is one that was not created.                                *)
LEMMA FreshJob ==
    ASSUME ArchiveTypeOK, {j \in Job : status[j] = "NONE"} # {}
    PROVE  LET fresh == {j \in Job : status[j] = "NONE"}
               j == CHOOSE k \in fresh : \A i \in fresh : k <= i
           IN  j \in Job /\ status[j] = "NONE"
<1> DEFINE fresh == {j \in Job : status[j] = "NONE"}
<1>1. fresh \subseteq Nat /\ fresh # {}
  BY ArchiveAssumption
<1>2. PICK below : /\ IsWellFoundedOn(below, Nat)
                    /\ \A i, k \in Nat : <<i, k>> \in below <=> i < k
  <2>1. \A i, k \in Nat : <<i, k>> \in OpToRel(<, Nat) <=> i < k
    BY DEF OpToRel
  <2> QED
    BY <2>1, NatLessThanWellFounded
<1>3. \A i, k \in Nat : ~(i < k) => k <= i
  OBVIOUS
<1> HIDE DEF fresh
<1>4. \E x \in fresh : \A i \in fresh : x <= i
  <2>1. \E k \in fresh : \A i \in fresh : ~(<<i, k>> \in below)
    <3>1. fresh \subseteq Nat /\ fresh # {} /\ IsWellFoundedOn(below, Nat)
      BY <1>1, <1>2
    <3> QED
      BY <3>1, WFMin, Zenon
  <2> QED
    BY <1>1, <1>2, <1>3, <2>1, Zenon
<1>5. (CHOOSE x \in fresh : \A i \in fresh : x <= i) \in fresh
  BY <1>4
<1> QED
  BY <1>5 DEF fresh
-----------------------------------------------------------------------------
(* Types.                                                                   *)

Clients == {Idle} \cup [pc : {"create"}, scope : Scope] \cup [pc : {"enqueue"}, job : Job]

(* What a request is at.                                                    *)
LEMMA ClientFacts ==
    ASSUME ArchiveTypeOK, NEW c \in Client
    PROVE  /\ client[c].pc = "create" => client[c].scope \in Scope
           /\ client[c].pc = "enqueue" => client[c].job \in Job
           /\ \A d \in Clients : [client EXCEPT ![c] = d] \in [Client -> Clients]
BY DEF ArchiveTypeOK, Clients, Idle

(* The semaphore's keys are left alone.                                     *)
LEMMA LeaseSame ==
    ASSUME LeaseTypeOK, UNCHANGED leaseVars
    PROVE  LeaseTypeOK'
BY DEF leaseVars, LeaseTypeOK

(* A request's step is well typed.                                          *)
LEMMA ClientTyped ==
    ASSUME ArchiveTypeOK, AllCreated, NEW c \in Client,
           AskFull(c) \/ AskFavorites(c) \/ CreateJob(c) \/ Enqueue(c) \/ DropRequest(c)
    PROVE  ArchiveTypeOK'
<1>0. LeaseTypeOK'
  BY LeaseSame DEF ArchiveTypeOK, AskFull, AskFavorites, Ask, CreateJob, Enqueue, DropRequest
<1>1. ASSUME NEW s \in Scope, Ask(c, s)
      PROVE  ArchiveTypeOK'
  <2>1. status' \in [Job -> Status]
    BY <1>1, ResumeTyped DEF Ask
  <2>2. client' \in [Client -> Clients]
    <3>1. [pc |-> "create", scope |-> s] \in Clients
      BY DEF Clients
    <3>2. client' = client \/ client' = [client EXCEPT ![c] = [pc |-> "create", scope |-> s]]
      BY <1>1 DEF Ask
    <3> QED
      BY <3>1, <3>2, ClientFacts DEF ArchiveTypeOK, Clients
  <2>3. UNCHANGED <<scope, age, exp, object, queue, run, listed, since, faults>>
    BY <1>1 DEF Ask
  <2> QED
    BY <1>0, <2>1, <2>2, <2>3 DEF ArchiveTypeOK, Clients
<1>2. CASE CreateJob(c)
  <2>1. PICK j \in Job : /\ status[j] = "NONE"
                         /\ status' = [status EXCEPT ![j] = "PENDING"]
                         /\ scope' = [scope EXCEPT ![j] = client[c].scope]
                         /\ client' = [client EXCEPT ![c] = [pc |-> "enqueue", job |-> j]]
    BY <1>2, FreshJob DEF CreateJob
  <2>2. client[c].scope \in Scope
    BY <1>2, ClientFacts DEF CreateJob
  <2>3. status' \in [Job -> Status] /\ scope' \in [Job -> Scope \cup {None}]
    BY <2>1, <2>2 DEF ArchiveTypeOK, Status
  <2>4. client' \in [Client -> Clients]
    <3>1. [pc |-> "enqueue", job |-> j] \in Clients
      BY DEF Clients
    <3> QED
      BY <2>1, <3>1, ClientFacts
  <2>5. UNCHANGED <<age, exp, object, queue, run, listed, since, faults>>
    BY <1>2 DEF CreateJob
  <2> QED
    BY <1>0, <2>3, <2>4, <2>5 DEF ArchiveTypeOK, Clients
<1>3. CASE Enqueue(c) \/ DropRequest(c)
  <2>1. queue' \in SUBSET Message
    <3>1. CASE Enqueue(c)
      <4>1. 0 \in 0..MaxRetries
        BY ArchiveAssumption
      <4>2. client[c].job \in Job
        BY <3>1, ClientFacts DEF Enqueue
      <4>3. [job |-> client[c].job, tries |-> 0] \in Message
        BY <4>1, <4>2 DEF Message
      <4> QED
        BY <3>1, <4>3 DEF Enqueue, ArchiveTypeOK
    <3>2. CASE DropRequest(c)
      BY <3>2 DEF DropRequest, ArchiveTypeOK
    <3> QED
      BY <1>3, <3>1, <3>2
  <2>2. client' \in [Client -> Clients]
    BY <1>3, ClientFacts DEF Enqueue, DropRequest, Clients
  <2>3. UNCHANGED <<status, scope, age, exp, object, run, listed, since, faults>>
    BY <1>3 DEF Enqueue, DropRequest
  <2> QED
    BY <1>0, <2>1, <2>2, <2>3 DEF ArchiveTypeOK, Clients
<1> QED
  BY <1>1, <1>2, <1>3 DEF AskFull, AskFavorites, Scope

(* A build's step is well typed.                                            *)
LEMMA BuildTyped ==
    ASSUME ArchiveTypeOK, AllCreated, NEW r \in Run,
           \/ \E m \in queue : Start(r, m)
           \/ Granted(r) \/ Refused(r) \/ MarkProcessing(r) \/ RefuseDisk(r) \/ Beat(r)
           \/ Store(r) \/ Complete(r) \/ Fail(r) \/ Finish(r) \/ Crash(r) \/ Redeliver(r)
    PROVE  ArchiveTypeOK'
<1>0. /\ {"acquire", "mark", "build", "stored", "release"} = RunPc
      /\ {"PENDING", "PROCESSING", "COMPLETED", "FAILED", "GONE"} = Status \ {"NONE"}
      /\ \A q : Running(q, "acquire") \/ Running(q, "mark") \/ Running(q, "build")
                \/ Running(q, "stored") \/ Running(q, "release") => run[q] # Idle
  BY PcFacts DEF RunPc, Status
<1>1. ASSUME NEW m \in queue, Start(r, m)
      PROVE  ArchiveTypeOK'
  <2>1. m \in Message /\ m.job \in Job /\ m.tries \in 0..MaxRetries
    BY DEF ArchiveTypeOK, Message
  <2>2. [pc |-> "acquire", job |-> m.job, tries |-> m.tries] \in Runs
    BY <2>1 DEF Runs, RunPc
  <2>3. run' \in [Run -> {Idle} \cup Runs]
    <3>1. run' = run \/ run' = [run EXCEPT ![r] = [pc |-> "acquire", job |-> m.job, tries |-> m.tries]]
      BY <1>1 DEF Start
    <3> QED
      BY <2>2, <3>1 DEF ArchiveTypeOK, Runs
  <2>4. status' \in [Job -> Status] /\ queue' \in SUBSET Message
    BY <1>1, ResumeTyped DEF Start, ArchiveTypeOK
  <2>5. LeaseTypeOK'
    BY <1>1, LeaseSame DEF Start, ArchiveTypeOK
  <2>6. UNCHANGED <<scope, age, exp, object, client, listed, since, faults>>
    BY <1>1 DEF Start
  <2> QED
    BY <2>3, <2>4, <2>5, <2>6 DEF ArchiveTypeOK, Runs
<1>2. CASE Granted(r)
  <2>1. run[r] # Idle
    BY <1>0, <1>2 DEF Granted
  <2>2. LeaseTypeOK'
    BY <1>2, <2>1, RunFacts, AcquireTyped DEF Granted, ArchiveTypeOK
  <2>3. run' \in [Run -> {Idle} \cup Runs]
    BY <1>0, <1>2, <2>1, GotoTyped DEF Granted
  <2>4. UNCHANGED <<status, scope, age, exp, object, queue, client, listed, since, faults>>
    BY <1>2 DEF Granted
  <2> QED
    BY <2>2, <2>3, <2>4 DEF ArchiveTypeOK, Runs
<1>3. CASE Refused(r) \/ Finish(r)
  <2>1. run[r] # Idle
    BY <1>0, <1>3 DEF Refused, Finish
  <2>2. LeaseTypeOK'
    BY <1>3, <2>1, RunFacts, RefuseTyped, ReleaseTyped, LeaseSame DEF Refused, Finish, ArchiveTypeOK
  <2>3. run' \in [Run -> {Idle} \cup Runs] /\ since' \in [Gallery -> 0..CounterTTL]
    BY <1>3, EndTyped DEF Refused, Finish
  <2>4. queue' \in SUBSET Message
    BY <1>3, <2>1, QueueTyped DEF Refused, Finish
  <2>5. UNCHANGED <<status, scope, age, exp, object, client, listed, faults>>
    BY <1>3 DEF Refused, Finish
  <2> QED
    BY <2>2, <2>3, <2>4, <2>5 DEF ArchiveTypeOK, Runs
<1>4. CASE MarkProcessing(r) \/ RefuseDisk(r) \/ Store(r) \/ Complete(r) \/ Fail(r)
  <2>1. run[r] # Idle
    BY <1>0, <1>4, PcFacts DEF MarkProcessing, RefuseDisk, Store, Complete, Fail
  <2>2. run[r].job \in Job
    BY <2>1, RunFacts
  <2>3. LeaseTypeOK'
    BY <1>4, LeaseSame DEF MarkProcessing, RefuseDisk, Store, Complete, Fail, ArchiveTypeOK
  <2>4. run' \in [Run -> {Idle} \cup Runs]
    BY <1>0, <1>4, <2>1, GotoTyped DEF MarkProcessing, RefuseDisk, Store, Complete, Fail
  <2>5. status' \in [Job -> Status]
    <3>1. \A st \in {"PROCESSING", "FAILED", "COMPLETED"} : Write(run[r].job, st) \in [Job -> Status]
      BY <1>0, <2>2, WriteTyped
    <3>2. status' = status \/ \E st \in {"PROCESSING", "FAILED", "COMPLETED"} :
                                 status' = Write(run[r].job, st)
      BY <1>4 DEF MarkProcessing, RefuseDisk, Store, Complete, Fail
    <3> QED
      BY <3>1, <3>2 DEF ArchiveTypeOK
  <2>6. queue' \in SUBSET Message
    BY <1>4, <2>1, QueueTyped DEF MarkProcessing, RefuseDisk, Store, Complete, Fail
  <2>7. object' \in SUBSET Job
    BY <1>4, <2>2 DEF MarkProcessing, RefuseDisk, Store, Complete, Fail, ArchiveTypeOK
  <2>8. exp' \in [Job -> {"unset", "ahead", "past"}]
    <3>1. exp' = exp \/ exp' = [exp EXCEPT ![run[r].job] = "ahead"]
      BY <1>4 DEF MarkProcessing, RefuseDisk, Store, Complete, Fail
    <3> QED
      BY <2>2, <3>1 DEF ArchiveTypeOK
  <2>9. UNCHANGED <<scope, age, client, listed, since, faults>>
    BY <1>4 DEF MarkProcessing, RefuseDisk, Store, Complete, Fail
  <2> QED
    BY <2>3, <2>4, <2>5, <2>6, <2>7, <2>8, <2>9 DEF ArchiveTypeOK, Runs
<1>5. CASE Beat(r)
  <2>1. run[r].job \in Job
    BY <1>0, <1>5, RunFacts DEF Beat
  <2>2. LeaseTypeOK'
    BY <1>5, <2>1, HeartbeatTyped DEF Beat, ArchiveTypeOK
  <2> QED
    BY <1>5, <2>2 DEF Beat, archiveVars, ArchiveTypeOK
<1>6. CASE Crash(r) \/ Redeliver(r)
  <2>1. run[r] # Idle /\ faults' = faults + 1 /\ faults < MaxFaults
    BY <1>6 DEF Crash, Redeliver
  <2>2. queue' \in SUBSET Message
    BY <1>6, <2>1, QueueTyped DEF Crash, Redeliver
  <2>3. run' \in [Run -> {Idle} \cup Runs] /\ since' \in [Gallery -> 0..CounterTTL]
    <3>1. CASE Crash(r)
      BY <3>1, EndTyped DEF Crash
    <3>2. CASE Redeliver(r)
      BY <3>2 DEF Redeliver, ArchiveTypeOK, Runs
    <3> QED
      BY <1>6, <3>1, <3>2
  <2>4. LeaseTypeOK'
    BY <1>6, LeaseSame DEF Crash, Redeliver, ArchiveTypeOK
  <2>5. faults' \in 0..MaxFaults
    BY <2>1, ArchiveAssumption DEF ArchiveTypeOK
  <2>6. UNCHANGED <<status, scope, age, exp, object, client, listed>>
    BY <1>6 DEF Crash, Redeliver
  <2> QED
    BY <2>2, <2>3, <2>4, <2>5, <2>6 DEF ArchiveTypeOK, Runs
<1> QED
  BY <1>1, <1>2, <1>3, <1>4, <1>5, <1>6

(* Time, the purge and the gallery's end are well typed.                    *)
LEMMA EndingsTyped ==
    ASSUME ArchiveTypeOK,
           \/ \E j \in Job : Expire(j) \/ PurgeObject(j) \/ PurgeRow(j) \/ PurgeFails(j)
           \/ PurgeList
           \/ \E g \in Gallery : DeleteGallery(g)
           \/ Clock
    PROVE  ArchiveTypeOK'
<1>1. ASSUME NEW j \in Job, Expire(j) \/ PurgeObject(j) \/ PurgeRow(j) \/ PurgeFails(j)
      PROVE  ArchiveTypeOK'
  <2>1. Write(j, "GONE") \in [Job -> Status]
    BY WriteTyped DEF Status
  <2>2. /\ status' \in [Job -> Status]
        /\ exp' \in [Job -> {"unset", "ahead", "past"}]
        /\ object' \in SUBSET Job /\ listed' \in SUBSET Job
    BY <1>1, <2>1 DEF Expire, PurgeObject, PurgeRow, PurgeFails, ArchiveTypeOK
  <2>3. LeaseTypeOK' /\ UNCHANGED <<scope, age, queue, run, client, since, faults>>
    BY <1>1, LeaseSame DEF Expire, PurgeObject, PurgeRow, PurgeFails, ArchiveTypeOK
  <2> QED
    BY <2>2, <2>3 DEF ArchiveTypeOK
<1>2. CASE PurgeList
  <2>1. LeaseTypeOK'
    BY <1>2, LeaseSame DEF PurgeList, ArchiveTypeOK
  <2> QED
    BY <1>2, <2>1 DEF PurgeList, ArchiveTypeOK
<1>3. ASSUME NEW g \in Gallery, DeleteGallery(g)
      PROVE  ArchiveTypeOK'
  <2>1. LeaseTypeOK'
    BY <1>3, LeaseSame DEF DeleteGallery, ArchiveTypeOK
  <2>2. status' \in [Job -> Status]
    BY <1>3 DEF DeleteGallery, ArchiveTypeOK, Status
  <2> QED
    BY <1>3, <2>1, <2>2 DEF DeleteGallery, ArchiveTypeOK
<1>4. CASE Clock
  <2>1. LeaseTypeOK'
    BY <1>4, TickTyped DEF Clock, ArchiveTypeOK
  <2>2. age' \in [Job -> 0..(StaleAfter + 1)]
    <3>1. StaleAfter \in Nat
      BY LeaseBounds DEF StaleAfter
    <3>2. \A n \in 0..(StaleAfter + 1) : n <= StaleAfter => n + 1 \in 0..(StaleAfter + 1)
      BY <3>1
    <3> QED
      BY <1>4, <3>2 DEF Clock, ArchiveTypeOK
  <2>3. since' \in [Gallery -> 0..CounterTTL]
    <3>1. \A n \in 0..CounterTTL : n < CounterTTL => n + 1 \in 0..CounterTTL
      BY LeaseBounds
    <3> QED
      BY <1>4, <3>1 DEF Clock, ArchiveTypeOK
  <2> QED
    BY <1>4, <2>1, <2>2, <2>3 DEF Clock, ArchiveTypeOK
<1> QED
  BY <1>1, <1>2, <1>3, <1>4
-----------------------------------------------------------------------------
(* What is handed out is stored.                                            *)

(* A request, and a purge, is about a job that nothing else is about.       *)
MessagesOnce ==
    /\ \A c \in Client : client[c].pc = "enqueue" =>
          Quiet(client[c].job) /\ exp[client[c].job] = "unset"
    /\ \A c, d \in Client :
          client[c].pc = "enqueue" /\ client[d].pc = "enqueue" /\ c # d =>
             client[c].job # client[d].job
    /\ \A j \in Job : exp[j] = "past" => Quiet(j)
    /\ \A j \in listed : exp[j] = "past"

(* An archive is stored before its row says so, and kept while it does.     *)
StoredFirst ==
    /\ \A r \in Run : run[r].pc = "stored" => run[r].job \in object
    /\ \A j \in Job : status[j] = "COMPLETED" /\ exp[j] = "ahead" => j \in object

JobsInv == ArchiveTypeOK /\ AllCreated /\ MessagesOnce /\ StoredFirst

(* A step of a build.                                                       *)
BuildStep(r) ==
    \/ \E m \in queue : Start(r, m)
    \/ Granted(r) \/ Refused(r) \/ MarkProcessing(r) \/ RefuseDisk(r) \/ Beat(r)
    \/ Store(r) \/ Complete(r) \/ Fail(r) \/ Finish(r) \/ Crash(r) \/ Redeliver(r)

(* A job is quiet when no message and no build is about it.                 *)
LEMMA QuietMeans ==
    \A j : Quiet(j) <=> /\ \A m \in queue : m.job # j
                        /\ \A r \in Run : run[r] # Idle => run[r].job # j
BY DEF Quiet

(* A build's step leaves the rows there are, and what requests are about;   *)
(* it is at the job it was at, or at one a message is about.                *)
LEMMA BuildLeaves ==
    ASSUME ArchiveTypeOK, AllCreated, NEW r \in Run, BuildStep(r)
    PROVE  /\ UNCHANGED <<scope, client, listed>>
           /\ \A j \in Job : status'[j] = "NONE" <=> status[j] = "NONE"
           /\ \A q \in Run : q # r => run'[q] = run[q]
           /\ run'[r] # Idle =>
                 \/ run[r] # Idle /\ run'[r].job = run[r].job
                 \/ \E m \in queue : run'[r].job = m.job
           /\ \A m \in queue' : m \in queue \/ (run[r] # Idle /\ m.job = run[r].job)
           /\ \A j \in Job : \/ exp'[j] = exp[j]
                             \/ run[r] # Idle /\ run[r].job = j /\ exp'[j] = "ahead"
<1>0. /\ {"acquire", "mark", "build", "stored", "release"} = RunPc
      /\ {"PENDING", "PROCESSING", "COMPLETED", "FAILED", "GONE"} = Status \ {"NONE"}
      /\ \A q : Running(q, "acquire") \/ Running(q, "mark") \/ Running(q, "build")
                \/ Running(q, "stored") \/ Running(q, "release") => run[q] # Idle
  BY PcFacts DEF RunPc, Status
<1>1. ASSUME NEW m \in queue, Start(r, m)
      PROVE  /\ UNCHANGED <<scope, client, listed, exp>>
             /\ \A j \in Job : status'[j] = "NONE" <=> status[j] = "NONE"
             /\ \A q \in Run : q # r => run'[q] = run[q]
             /\ run'[r] # Idle => run'[r].job = m.job
             /\ queue' \subseteq queue
  <2>1. \A q \in Run : q # r => run'[q] = run[q]
    BY <1>1 DEF Start, ArchiveTypeOK
  <2>2. run'[r] # Idle => run'[r].job = m.job
    BY <1>1 DEF Start, ArchiveTypeOK
  <2>3. \A j \in Job : status'[j] = "NONE" <=> status[j] = "NONE"
    BY <1>1, ResumeTyped DEF Start
  <2> QED
    BY <1>1, <2>1, <2>2, <2>3 DEF Start
<1>2. CASE Granted(r) \/ Beat(r) \/ Store(r)
  <2>1. run[r] # Idle
    BY <1>0, <1>2 DEF Granted, Beat, Store
  <2>2. UNCHANGED <<scope, client, listed, exp, status, queue>>
    BY <1>2 DEF Granted, Beat, Store, archiveVars
  <2>3. run'[r].job = run[r].job /\ \A q \in Run : q # r => run'[q] = run[q]
    <3>1. CASE Beat(r)
      BY <3>1 DEF Beat, archiveVars
    <3>2. CASE Granted(r) \/ Store(r)
      <4>1. PICK pc \in RunPc : Goto(r, pc)
        BY <1>0, <3>2 DEF Granted, Store
      <4> QED
        BY <2>1, <4>1, GotoTyped, RunFacts DEF Runs
    <3> QED
      BY <1>2, <3>1, <3>2
  <2> QED
    BY <2>1, <2>2, <2>3
<1>3. CASE MarkProcessing(r) \/ RefuseDisk(r) \/ Complete(r) \/ Fail(r)
  <2>1. run[r] # Idle
    BY <1>0, <1>3, PcFacts DEF MarkProcessing, RefuseDisk, Complete, Fail
  <2>2. run[r].job \in Job
    BY <2>1, RunFacts
  <2>3. \A j \in Job : status'[j] = "NONE" <=> status[j] = "NONE"
    <3>1. PICK st \in Status \ {"NONE"} : status' = Write(run[r].job, st)
      BY <1>0, <1>3 DEF MarkProcessing, RefuseDisk, Complete, Fail
    <3> QED
      BY <2>2, <3>1, WriteTyped
  <2>4. run'[r].job = run[r].job /\ \A q \in Run : q # r => run'[q] = run[q]
    <3>1. PICK pc \in RunPc : Goto(r, pc)
      BY <1>0, <1>3 DEF MarkProcessing, RefuseDisk, Complete, Fail
    <3> QED
      BY <2>1, <3>1, GotoTyped, RunFacts DEF Runs
  <2>5. \A m \in queue' : m \in queue \/ m.job = run[r].job
    BY <1>3, <2>1, QueueTyped DEF MarkProcessing, RefuseDisk, Complete, Fail
  <2>6. \A j \in Job : exp'[j] = exp[j] \/ (run[r].job = j /\ exp'[j] = "ahead")
    <3>1. exp' = exp \/ exp' = [exp EXCEPT ![run[r].job] = "ahead"]
      BY <1>3 DEF MarkProcessing, RefuseDisk, Complete, Fail
    <3> QED
      BY <2>2, <3>1 DEF ArchiveTypeOK
  <2>7. UNCHANGED <<scope, client, listed>>
    BY <1>3 DEF MarkProcessing, RefuseDisk, Complete, Fail
  <2> QED
    BY <2>1, <2>3, <2>4, <2>5, <2>6, <2>7
<1>4. CASE Refused(r) \/ Finish(r) \/ Crash(r) \/ Redeliver(r)
  <2>1. run[r] # Idle
    BY <1>0, <1>4 DEF Refused, Finish, Crash, Redeliver
  <2>2. UNCHANGED <<scope, client, listed, exp, status>>
    BY <1>4 DEF Refused, Finish, Crash, Redeliver
  <2>3. /\ run'[r] # Idle => run'[r].job = run[r].job
        /\ \A q \in Run : q # r => run'[q] = run[q]
    <3>1. CASE Redeliver(r)
      BY <3>1 DEF Redeliver
    <3>2. CASE End(r)
      BY <3>2, EndTyped
    <3> QED
      BY <1>4, <3>1, <3>2 DEF Refused, Finish, Crash
  <2>4. \A m \in queue' : m \in queue \/ m.job = run[r].job
    BY <1>4, <2>1, QueueTyped DEF Refused, Finish, Crash, Redeliver
  <2> QED
    BY <2>1, <2>2, <2>3, <2>4
<1> QED
  BY <1>1, <1>2, <1>3, <1>4 DEF BuildStep

(* So a quiet job stays quiet, and its day does not begin.                  *)
LEMMA BuildKeepsQuiet ==
    ASSUME ArchiveTypeOK, AllCreated, NEW r \in Run, BuildStep(r), NEW j \in Job, Quiet(j)
    PROVE  Quiet(j)' /\ exp'[j] = exp[j]
<1>1. /\ \A m \in queue : m.job # j
      /\ \A q \in Run : run[q] # Idle => run[q].job # j
  BY QuietMeans
<1>2. \A m \in queue' : m.job # j
  BY <1>1, BuildLeaves
<1>3. \A q \in Run : run'[q] # Idle => run'[q].job # j
  <2> SUFFICES ASSUME NEW q \in Run, run'[q] # Idle
               PROVE  run'[q].job # j
    OBVIOUS
  <2>1. CASE q = r
    BY <1>1, <2>1, BuildLeaves
  <2>2. CASE q # r
    BY <1>1, <2>2, BuildLeaves
  <2> QED
    BY <2>1, <2>2
<1>4. Quiet(j)'
  BY <1>2, <1>3 DEF Quiet
<1>5. exp'[j] = exp[j]
  BY <1>1, BuildLeaves
<1> QED
  BY <1>4, <1>5

(* A build's step keeps what jobs are about in order.                       *)
LEMMA BuildKeepsJobs ==
    ASSUME JobsInv, NEW r \in Run, BuildStep(r)
    PROVE  AllCreated' /\ MessagesOnce'
<1> USE DEF JobsInv
<1>1. /\ UNCHANGED <<scope, client, listed>>
      /\ \A j \in Job : status'[j] = "NONE" <=> status[j] = "NONE"
      /\ \A j \in Job : exp'[j] = exp[j] \/ exp'[j] = "ahead"
  BY BuildLeaves
<1>2. \A j \in Job : Quiet(j) => Quiet(j)' /\ exp'[j] = exp[j]
  BY BuildKeepsQuiet
<1>3. \A c \in Client : client[c].pc = "enqueue" => client[c].job \in Job
  BY ClientFacts
<1>4. AllCreated'
  <2>1. \A j \in Job : status'[j] # "NONE" => scope'[j] \in Scope
    BY <1>1 DEF AllCreated
  <2>2. \A j \in Job : status'[j] = "NONE" => Quiet(j)' /\ exp'[j] = "unset"
    BY <1>1, <1>2 DEF AllCreated
  <2>3. \A c \in Client : client'[c].pc = "enqueue" => status'[client'[c].job] # "NONE"
    BY <1>1, <1>3 DEF AllCreated
  <2> QED
    BY <2>1, <2>2, <2>3 DEF AllCreated
<1>5. MessagesOnce'
  <2>1. \A c \in Client : client'[c].pc = "enqueue" =>
           Quiet(client[c].job)' /\ exp'[client'[c].job] = "unset"
    BY <1>1, <1>2, <1>3 DEF MessagesOnce
  <2>2. \A j \in Job : exp'[j] = "past" => Quiet(j)'
    BY <1>1, <1>2 DEF MessagesOnce
  <2>3. \A j \in listed : exp'[j] = "past"
    BY <1>2 DEF MessagesOnce, ArchiveTypeOK
  <2> QED
    BY <1>1, <2>1, <2>2, <2>3 DEF MessagesOnce
<1> QED
  BY <1>4, <1>5

(* A build stores before it completes, and only then.                       *)
LEMMA BuildStoresFirst ==
    ASSUME JobsInv, NEW r \in Run, BuildStep(r)
    PROVE  StoredFirst'
<1> USE DEF JobsInv
<1>0. /\ \A q : Running(q, "acquire") \/ Running(q, "mark") \/ Running(q, "build")
                \/ Running(q, "stored") \/ Running(q, "release") => run[q] # Idle
      /\ "PROCESSING" \in Status \ {"NONE"} /\ "FAILED" \in Status \ {"NONE"}
      /\ "COMPLETED" \in Status \ {"NONE"}
      /\ "mark" \in RunPc /\ "build" \in RunPc /\ "stored" \in RunPc /\ "release" \in RunPc
  BY PcFacts DEF RunPc, Status
<1>1. \A q \in Run : q # r => run'[q] = run[q]
  BY BuildLeaves
<1>2. object \subseteq object'
  BY DEF BuildStep, Start, Granted, Refused, MarkProcessing, RefuseDisk, Beat, archiveVars,
         Store, Complete, Fail, Finish, Crash, Redeliver
<1>3. run'[r].pc = "stored" => run'[r].job \in object'
  <2>1. ASSUME NEW m \in queue, Start(r, m)
        PROVE  run'[r].pc = "stored" => run'[r].job \in object'
    <3>1. run'[r].pc = "acquire" \/ run'[r] = run[r]
      BY <2>1 DEF Start, ArchiveTypeOK
    <3> QED
      BY <1>2, <3>1 DEF StoredFirst
  <2>2. CASE Granted(r) \/ MarkProcessing(r) \/ RefuseDisk(r) \/ Complete(r) \/ Fail(r)
    <3>1. run[r] # Idle
      BY <1>0, <2>2, PcFacts DEF Granted, MarkProcessing, RefuseDisk, Complete, Fail
    <3>2. PICK pc \in RunPc \ {"stored"} : Goto(r, pc)
      BY <1>0, <2>2 DEF Granted, MarkProcessing, RefuseDisk, Complete, Fail
    <3>3. run'[r] = [run[r] EXCEPT !.pc = pc] /\ run[r] \in Runs
      BY <3>1, <3>2, GotoTyped, RunFacts
    <3> QED
      BY <3>2, <3>3 DEF Runs
  <2>3. CASE Store(r)
    <3>1. run'[r] = [run[r] EXCEPT !.pc = "stored"] /\ run[r] \in Runs
      BY <1>0, <2>3, GotoTyped, RunFacts DEF Store
    <3> QED
      BY <2>3, <3>1 DEF Store, Runs
  <2>4. CASE Refused(r) \/ Finish(r) \/ Crash(r)
    <3>1. run'[r] = Idle
      BY <2>4, EndTyped DEF Refused, Finish, Crash
    <3> QED
      BY <3>1 DEF Idle
  <2>5. CASE Beat(r) \/ Redeliver(r)
    BY <1>2, <2>5 DEF Beat, Redeliver, archiveVars, StoredFirst
  <2> QED
    BY <2>1, <2>2, <2>3, <2>4, <2>5 DEF BuildStep
<1>4. \A j \in Job : status'[j] = "COMPLETED" /\ exp'[j] = "ahead" => j \in object'
  <2>1. CASE Complete(r)
    <3> DEFINE k == run[r].job
    <3>1. run[r].pc = "stored" /\ run[r] # Idle
      BY <1>0, <2>1 DEF Complete, Running
    <3>2. k \in Job /\ k \in object
      BY <3>1, RunFacts DEF StoredFirst
    <3>3. \A j \in Job : j # k => status'[j] = status[j] /\ exp'[j] = exp[j]
      <4>1. \A j \in Job : j # k => status'[j] = status[j]
        BY <1>0, <2>1, <3>2, WriteTyped DEF Complete
      <4>2. exp' = exp \/ exp' = [exp EXCEPT ![k] = "ahead"]
        BY <2>1 DEF Complete
      <4> QED
        BY <3>2, <4>1, <4>2 DEF ArchiveTypeOK
    <3> QED
      BY <1>2, <3>2, <3>3 DEF StoredFirst
  <2>2. CASE ~Complete(r)
    <3>1. exp' = exp
      BY <2>2 DEF BuildStep, Start, Granted, Refused, MarkProcessing, RefuseDisk, Beat,
                  archiveVars, Store, Fail, Finish, Crash, Redeliver
    <3>2. \A j \in Job : status'[j] = "COMPLETED" => status[j] = "COMPLETED"
      <4>1. ASSUME NEW m \in queue, Start(r, m)
            PROVE  \A j \in Job : status'[j] = "COMPLETED" => status[j] = "COMPLETED"
        BY <4>1, ResumeTyped DEF Start
      <4>2. CASE MarkProcessing(r) \/ RefuseDisk(r) \/ Fail(r)
        <5>1. run[r].job \in Job
          BY <1>0, <4>2, PcFacts, RunFacts DEF MarkProcessing, RefuseDisk, Fail
        <5>2. PICK st \in Status \ {"NONE", "COMPLETED"} : status' = Write(run[r].job, st)
          BY <1>0, <4>2 DEF MarkProcessing, RefuseDisk, Fail
        <5> QED
          BY <5>1, <5>2, WriteTyped
      <4>3. CASE status' = status
        BY <4>3
      <4> QED
        BY <2>2, <4>1, <4>2, <4>3 DEF BuildStep, Granted, Refused, Beat, archiveVars, Store,
                                      Finish, Crash, Redeliver
    <3> QED
      BY <1>2, <3>1, <3>2 DEF StoredFirst
  <2> QED
    BY <2>1, <2>2
<1>5. \A q \in Run : run'[q].pc = "stored" => run'[q].job \in object'
  BY <1>1, <1>2, <1>3 DEF StoredFirst
<1> QED
  BY <1>4, <1>5 DEF StoredFirst

(* A request's step keeps jobs in order.                                    *)
LEMMA ClientKeepsJobs ==
    ASSUME JobsInv, NEW c \in Client,
           AskFull(c) \/ AskFavorites(c) \/ CreateJob(c) \/ Enqueue(c) \/ DropRequest(c)
    PROVE  AllCreated' /\ MessagesOnce' /\ StoredFirst'
<1> USE DEF JobsInv
<1>0. UNCHANGED <<exp, object, run, listed>>
  BY DEF AskFull, AskFavorites, Ask, CreateJob, Enqueue, DropRequest
<1>1. \A d \in Client : client[d].pc = "enqueue" => client[d].job \in Job
  BY ClientFacts
<1>2. ASSUME \A d \in Client : client'[d].pc = "enqueue" => client'[d] = client[d],
             \A j \in Job : status'[j] = "NONE" <=> status[j] = "NONE",
             \A j \in Job : status'[j] = "COMPLETED" => status[j] = "COMPLETED",
             UNCHANGED <<scope, queue>>
      PROVE  AllCreated' /\ MessagesOnce' /\ StoredFirst'
  <2>1. \A j : Quiet(j)' <=> Quiet(j)
    BY <1>0, <1>2 DEF Quiet
  <2>2. AllCreated'
    BY <1>0, <1>1, <1>2, <2>1 DEF AllCreated
  <2>3. MessagesOnce'
    BY <1>0, <1>1, <1>2, <2>1 DEF MessagesOnce
  <2>4. StoredFirst'
    BY <1>0, <1>2 DEF StoredFirst
  <2> QED
    BY <2>2, <2>3, <2>4
<1>3. ASSUME NEW s \in Scope, Ask(c, s)
      PROVE  AllCreated' /\ MessagesOnce' /\ StoredFirst'
  <2>1. \A d \in Client : client'[d].pc = "enqueue" => client'[d] = client[d]
    BY <1>3 DEF Ask, ArchiveTypeOK
  <2>2. \A j \in Job : status'[j] \in {"PENDING", status[j]}
    BY <1>3, ResumeTyped DEF Ask
  <2>3. \A j \in Job : status'[j] = "NONE" <=> status[j] = "NONE"
    BY <1>3, ResumeTyped DEF Ask
  <2> QED
    BY <1>2, <1>3, <2>1, <2>2, <2>3 DEF Ask
<1>4. CASE DropRequest(c)
  <2>1. \A d \in Client : client'[d].pc = "enqueue" => client'[d] = client[d]
    BY <1>4 DEF DropRequest, ArchiveTypeOK, Idle
  <2> QED
    BY <1>2, <1>4, <2>1 DEF DropRequest
<1>5. CASE CreateJob(c)
  <2>1. PICK j \in Job : /\ status[j] = "NONE"
                         /\ status' = [status EXCEPT ![j] = "PENDING"]
                         /\ scope' = [scope EXCEPT ![j] = client[c].scope]
                         /\ client' = [client EXCEPT ![c] = [pc |-> "enqueue", job |-> j]]
    BY <1>5, FreshJob DEF CreateJob
  <2>2. client[c].scope \in Scope /\ queue' = queue
    BY <1>5, ClientFacts DEF CreateJob
  <2>3. \A k : Quiet(k)' <=> Quiet(k)
    BY <1>0, <2>2 DEF Quiet
  <2>4. /\ status'[j] = "PENDING" /\ scope'[j] \in Scope
        /\ \A k \in Job : k # j => status'[k] = status[k] /\ scope'[k] = scope[k]
        /\ client'[c].pc = "enqueue" /\ client'[c].job = j
        /\ \A d \in Client : d # c => client'[d] = client[d]
        /\ Quiet(j) /\ exp[j] = "unset"
    BY <2>1, <2>2 DEF ArchiveTypeOK, AllCreated
  <2>5. \A d \in Client : d # c /\ client[d].pc = "enqueue" => client[d].job # j
    BY <2>1 DEF AllCreated
  <2>6. AllCreated'
    BY <1>0, <1>1, <2>3, <2>4, <2>5 DEF AllCreated
  <2>7. MessagesOnce'
    BY <1>0, <1>1, <2>3, <2>4, <2>5 DEF MessagesOnce
  <2>8. StoredFirst'
    BY <1>0, <2>4 DEF StoredFirst
  <2> QED
    BY <2>6, <2>7, <2>8
<1>6. CASE Enqueue(c)
  <2> DEFINE j == client[c].job
  <2>1. /\ client[c].pc = "enqueue" /\ j \in Job /\ status[j] # "NONE"
        /\ Quiet(j) /\ exp[j] = "unset"
    BY <1>1, <1>6 DEF Enqueue, AllCreated, MessagesOnce
  <2>2. /\ client'[c] = Idle /\ \A d \in Client : d # c => client'[d] = client[d]
        /\ queue' = queue \cup {[job |-> j, tries |-> 0]}
        /\ UNCHANGED <<status, scope>>
    BY <1>6 DEF Enqueue, ArchiveTypeOK
  <2> HIDE DEF j
  <2>3. \A k : k # j => (Quiet(k)' <=> Quiet(k))
    BY <1>0, <2>2 DEF Quiet
  <2>4. \A d \in Client : client'[d].pc = "enqueue" =>
           d # c /\ client'[d] = client[d] /\ client[d].job # j
    BY <2>1, <2>2 DEF Idle, MessagesOnce, j
  <2>5. AllCreated'
    <3>1. \A k \in Job : status'[k] = "NONE" => k # j
      BY <2>1, <2>2
    <3> QED
      BY <1>0, <1>1, <2>2, <2>3, <2>4, <3>1 DEF AllCreated
  <2>6. MessagesOnce'
    <3>1. \A k \in Job : exp'[k] = "past" => k # j
      BY <1>0, <2>1
    <3> QED
      BY <1>0, <1>1, <2>2, <2>3, <2>4, <3>1 DEF MessagesOnce
  <2>7. StoredFirst'
    BY <1>0, <2>2 DEF StoredFirst
  <2> QED
    BY <2>5, <2>6, <2>7
<1> QED
  BY <1>3, <1>4, <1>5, <1>6 DEF AskFull, AskFavorites, Scope

(* Time, the purge and the gallery's end keep jobs in order.                *)
LEMMA EndingsKeepJobs ==
    ASSUME JobsInv,
           \/ \E j \in Job : Expire(j) \/ PurgeObject(j) \/ PurgeRow(j) \/ PurgeFails(j)
           \/ PurgeList
           \/ \E g \in Gallery : DeleteGallery(g)
           \/ Clock
    PROVE  AllCreated' /\ MessagesOnce' /\ StoredFirst'
<1> USE DEF JobsInv
<1>0. UNCHANGED <<scope, queue, run, client>>
  BY DEF Expire, PurgeObject, PurgeRow, PurgeFails, PurgeList, DeleteGallery, Clock
<1>1. \A j : Quiet(j)' <=> Quiet(j)
  BY <1>0 DEF Quiet
<1>2. \A c \in Client : client[c].pc = "enqueue" => client[c].job \in Job
  BY ClientFacts
<1>3. /\ \A j \in Job : status'[j] = "NONE" <=> status[j] = "NONE"
      /\ \A j \in Job : status'[j] = "COMPLETED" => status[j] = "COMPLETED"
  <2>1. CASE status' = status
    BY <2>1
  <2>2. ASSUME NEW j \in Job, status' = Write(j, "GONE")
        PROVE  /\ \A k \in Job : status'[k] = "NONE" <=> status[k] = "NONE"
               /\ \A k \in Job : status'[k] = "COMPLETED" => status[k] = "COMPLETED"
    BY <2>2, WriteTyped DEF Status
  <2>3. ASSUME NEW g \in Gallery, DeleteGallery(g)
        PROVE  /\ \A k \in Job : status'[k] = "NONE" <=> status[k] = "NONE"
               /\ \A k \in Job : status'[k] = "COMPLETED" => status[k] = "COMPLETED"
    BY <2>3 DEF DeleteGallery, Exists
  <2> QED
    BY <2>1, <2>2, <2>3 DEF Expire, PurgeObject, PurgeRow, PurgeFails, PurgeList, Clock
<1>4. CASE UNCHANGED <<exp, listed, object>>
  <2>1. AllCreated' /\ MessagesOnce'
    BY <1>0, <1>1, <1>2, <1>3, <1>4 DEF AllCreated, MessagesOnce
  <2>2. StoredFirst'
    BY <1>0, <1>3, <1>4 DEF StoredFirst
  <2> QED
    BY <2>1, <2>2
<1>5. ASSUME NEW j \in Job, Expire(j)
      PROVE  AllCreated' /\ MessagesOnce' /\ StoredFirst'
  <2>1. /\ exp'[j] = "past" /\ exp[j] = "ahead" /\ Quiet(j)
        /\ \A k \in Job : k # j => exp'[k] = exp[k]
        /\ UNCHANGED <<listed, object>>
    BY <1>5 DEF Expire, ArchiveTypeOK
  <2>2. AllCreated'
    BY <1>0, <1>1, <1>2, <1>3, <2>1 DEF AllCreated
  <2>3. MessagesOnce'
    BY <1>0, <1>1, <1>2, <2>1 DEF MessagesOnce, ArchiveTypeOK
  <2>4. StoredFirst'
    BY <1>0, <1>3, <2>1 DEF StoredFirst
  <2> QED
    BY <2>2, <2>3, <2>4
<1>6. ASSUME listed' \subseteq {j \in Job : exp[j] = "past"},
             object' = object \/ \E j \in listed : object' = object \ {j},
             UNCHANGED exp
      PROVE  AllCreated' /\ MessagesOnce' /\ StoredFirst'
  <2>1. AllCreated' /\ MessagesOnce'
    BY <1>0, <1>1, <1>2, <1>3, <1>6 DEF AllCreated, MessagesOnce
  <2>2. ASSUME NEW j \in listed, object' = object \ {j}
        PROVE  StoredFirst'
    <3>1. Quiet(j) /\ exp[j] = "past"
      BY DEF MessagesOnce, ArchiveTypeOK
    <3>2. \A r \in Run : run[r].pc = "stored" => run[r].job # j
      BY <3>1, QuietMeans DEF Idle
    <3> QED
      BY <1>0, <1>3, <1>6, <2>2, <3>1, <3>2 DEF StoredFirst
  <2>3. object' = object => StoredFirst'
    BY <1>0, <1>3, <1>6 DEF StoredFirst
  <2> QED
    BY <1>6, <2>1, <2>2, <2>3
<1>7. ASSUME NEW j \in Job, PurgeObject(j) \/ PurgeRow(j) \/ PurgeFails(j)
      PROVE  AllCreated' /\ MessagesOnce' /\ StoredFirst'
  BY <1>6, <1>7 DEF PurgeObject, PurgeRow, PurgeFails, MessagesOnce, ArchiveTypeOK
<1>8. CASE PurgeList
  BY <1>6, <1>8 DEF PurgeList
<1>9. ASSUME NEW g \in Gallery, DeleteGallery(g)
      PROVE  AllCreated' /\ MessagesOnce' /\ StoredFirst'
  BY <1>4, <1>9 DEF DeleteGallery
<1>10. CASE Clock
  BY <1>4, <1>10 DEF Clock
<1> QED
  BY <1>5, <1>7, <1>8, <1>9, <1>10

(* Every reachable state of the archive jobs is in order.                   *)
THEOREM JobsInvariant == Spec => []JobsInv
<1>1. Init => JobsInv
  <2> SUFFICES ASSUME Init
               PROVE  JobsInv
    OBVIOUS
  <2> USE DEF Init
  <2>1. LeaseTypeOK
    BY LeaseBounds DEF LeaseInit, LeaseTypeOK
  <2>2. 0 \in 0..MaxFaults /\ 0 \in 0..(StaleAfter + 1)
    BY ArchiveAssumption, LeaseBounds DEF StaleAfter
  <2>3. ArchiveTypeOK
    BY <2>1, <2>2, LeaseBounds DEF ArchiveTypeOK, Status
  <2>4. AllCreated /\ MessagesOnce /\ StoredFirst
    BY DEF AllCreated, MessagesOnce, StoredFirst, Quiet, Idle
  <2> QED
    BY <2>3, <2>4 DEF JobsInv
<1>2. JobsInv /\ [Next]_vars => JobsInv'
  <2> SUFFICES ASSUME JobsInv, [Next]_vars
               PROVE  JobsInv'
    OBVIOUS
  <2>1. CASE UNCHANGED vars
    <3>1. /\ LeaseTypeOK'
          /\ UNCHANGED <<status, scope, age, exp, object, queue, run, client, listed, since, faults>>
      BY <2>1, LeaseSame DEF vars, archiveVars, JobsInv, ArchiveTypeOK
    <3>2. ArchiveTypeOK'
      BY <3>1 DEF JobsInv, ArchiveTypeOK
    <3>3. \A j : Quiet(j)' <=> Quiet(j)
      BY <3>1 DEF Quiet
    <3>4. AllCreated' /\ MessagesOnce' /\ StoredFirst'
      BY <3>1, <3>3 DEF JobsInv, AllCreated, MessagesOnce, StoredFirst
    <3> QED
      BY <3>2, <3>4 DEF JobsInv
  <2>2. ASSUME NEW c \in Client,
               AskFull(c) \/ AskFavorites(c) \/ CreateJob(c) \/ Enqueue(c) \/ DropRequest(c)
        PROVE  JobsInv'
    BY <2>2, ClientTyped, ClientKeepsJobs DEF JobsInv
  <2>3. ASSUME NEW r \in Run, BuildStep(r)
        PROVE  JobsInv'
    <3>1. ArchiveTypeOK'
      BY <2>3, BuildTyped DEF JobsInv, BuildStep
    <3> QED
      BY <2>3, <3>1, BuildKeepsJobs, BuildStoresFirst DEF JobsInv
  <2>4. ASSUME \/ \E j \in Job : Expire(j) \/ PurgeObject(j) \/ PurgeRow(j) \/ PurgeFails(j)
               \/ PurgeList
               \/ \E g \in Gallery : DeleteGallery(g)
               \/ Clock
        PROVE  JobsInv'
    BY <2>4, EndingsTyped, EndingsKeepJobs DEF JobsInv
  <2> QED
    BY <2>1, <2>2, <2>3, <2>4 DEF Next, BuildStep
<1> QED
  BY <1>1, <1>2, PTL DEF Spec

(* Stores keep their types.                                                 *)
THEOREM ArchivesTyped == Spec => []ArchiveTypeOK
<1>1. JobsInv => ArchiveTypeOK
  BY DEF JobsInv
<1> QED
  BY <1>1, JobsInvariant, PTL

(* A URL that a status view hands out leads to a stored ZIP, whatever       *)
(* overlapping builds, redeliveries and the purge are doing.                *)
THEOREM HandedOutIsStored == Spec => []DownloadServes
<1>1. JobsInv => DownloadServes
  <2>1. \A S : Downloads(S) \subseteq {j \in Job : status[j] = "COMPLETED" /\ exp[j] = "ahead"}
    BY DEF Downloads
  <2>2. JobsInv => {j \in Job : status[j] = "COMPLETED" /\ exp[j] = "ahead"} \subseteq object
    BY DEF JobsInv, StoredFirst
  <2> QED
    BY <2>1, <2>2 DEF DownloadServes, FullDownload, FavoritesDownload
<1> QED
  BY <1>1, JobsInvariant, PTL
-----------------------------------------------------------------------------
(* Leases are their holders'.                                               *)

(* The steps that touch the semaphore.                                      *)
LEMMA LeaseSteps ==
    ASSUME Next
    PROVE  \/ UNCHANGED leaseVars
           \/ \E r \in Run : Granted(r) \/ Refused(r) \/ Beat(r) \/ Finish(r)
           \/ Clock
BY DEF Next, AskFull, AskFavorites, Ask, CreateJob, Enqueue, DropRequest, Start,
       MarkProcessing, RefuseDisk, Store, Complete, Fail, Crash, Redeliver, Expire,
       PurgeObject, PurgeRow, PurgeFails, PurgeList, DeleteGallery

(* A lease ends by time, or by the release of the very run that holds it.   *)
THEOREM OnlyHoldersFree == Spec => OnlyHolderFrees
<1> DEFINE Rightly == \A j \in Job :
                         Live(j) /\ lease'[j] = Free =>
                            \/ Tick
                            \/ \E r \in Run : lease[j] = r /\ Running(r, "release") /\ run[r].job = j
<1>1. JobsInv /\ [Next]_vars => [Rightly]_vars
  <2> SUFFICES ASSUME JobsInv, Next, NEW j \in Job, Live(j), lease'[j] = Free
               PROVE  \/ Tick
                      \/ \E r \in Run : lease[j] = r /\ Running(r, "release") /\ run[r].job = j
    OBVIOUS
  <2> USE DEF JobsInv
  <2>1. LeaseTypeOK
    BY DEF ArchiveTypeOK
  <2>2. lease' # lease
    BY DEF Live
  <2>3. PICK r \in Run : Clock \/ Granted(r) \/ Refused(r) \/ Beat(r) \/ Finish(r)
    <3>1. CASE Clock
      <4>1. lease[j] \in Run
        BY <2>1 DEF Live, LeaseTypeOK
      <4> QED
        BY <3>1, <4>1
    <3> QED
      BY <2>2, <3>1, LeaseSteps DEF leaseVars
  <2>4. CASE Clock
    BY <2>4 DEF Clock
  <2>5. CASE Granted(r) \/ Refused(r) \/ Beat(r)
    <3>1. run[r] # Idle
      BY <2>5, PcFacts DEF Granted, Refused, Beat, RunPc
    <3>2. run[r].job \in Job /\ G(run[r].job) \in Gallery
      BY <3>1, RunFacts
    <3>3. Live(j)'
      BY <2>1, <2>2, <2>5, <3>2, WhoKeeps DEF Granted, Refused, Beat, leaseVars
    <3> QED
      BY <3>3 DEF Live
  <2>6. CASE Finish(r)
    <3>1. run[r] # Idle
      BY <2>6, PcFacts DEF Finish, RunPc
    <3>2. run[r].job \in Job /\ G(run[r].job) \in Gallery
      BY <3>1, RunFacts
    <3>3. Release(r, run[r].job, G(run[r].job)) /\ Running(r, "release")
      BY <2>2, <2>6 DEF Finish, leaseVars
    <3>4. run[r].job = j /\ lease[j] = r
      BY <2>1, <3>2, <3>3, WhoFrees
    <3> QED
      BY <3>3, <3>4
  <2> QED
    BY <2>3, <2>4, <2>5, <2>6
<1>2. Spec => [][Next]_vars
  BY DEF Spec
<1>3. Spec => [][Rightly]_vars
  BY <1>1, <1>2, JobsInvariant, PTL
<1> QED
  BY <1>3 DEF OnlyHolderFrees
-----------------------------------------------------------------------------
(* Builds of a gallery.                                                     *)

(* A gallery's counter covers its builds, and lives on until they have gone *)
(* on for as long as it lives.                                              *)
Covered(g) ==
    /\ active[g] <= GalleryCap
    /\ since[g] < CounterTTL =>
          /\ Cardinality(Builders(g)) <= active[g]
          /\ Builders(g) # {} => activeTtl[g] + since[g] >= CounterTTL

BuildsInv == \A g \in Gallery : Covered(g)

LEMMA BuildersFinite ==
    \A g : IsFiniteSet(Builders(g)) /\ Cardinality(Builders(g)) \in Nat
<1>1. \A g : Builders(g) \subseteq Run
  BY DEF Builders
<1>2. \A g : IsFiniteSet(Builders(g))
  BY <1>1, LeaseAssumption, FS_Subset
<1> QED
  BY <1>2, FS_CardinalityType

(* What the counters are.                                                   *)
LEMMA CounterFacts ==
    ASSUME ArchiveTypeOK, NEW g \in Gallery
    PROVE  /\ active[g] \in Nat /\ activeTtl[g] \in Nat /\ since[g] \in Nat
           /\ since[g] <= CounterTTL /\ CounterTTL \in Nat /\ GalleryCap \in Nat
BY LeaseBounds DEF ArchiveTypeOK, LeaseTypeOK

(* A step that leaves a gallery's builds and counter.                       *)
LEMMA CoveredSame ==
    ASSUME NEW g \in Gallery, Covered(g), Builders(g)' = Builders(g),
           active'[g] = active[g], activeTtl'[g] = activeTtl[g], since'[g] = since[g]
    PROVE  Covered(g)'
BY DEF Covered

(* A build goes on: the builds of a gallery are the same.                   *)
LEMMA GoingOnKeepsBuilders ==
    ASSUME JobsInv, NEW r \in Run, run[r] # Idle, UNCHANGED scope,
           run'[r].job = run[r].job, Holding(r)' <=> Holding(r),
           \A q \in Run : q # r => run'[q] = run[q]
    PROVE  \A g : Builders(g)' = Builders(g)
<1>1. \A q \in Run : (Holding(q)' <=> Holding(q)) /\ run'[q].job = run[q].job
  BY DEF Holding
<1>2. \A j : G(j)' = G(j)
  BY DEF G
<1>3. \A q \in Run : G(run[q].job)' = G(run[q].job)
  BY <1>1 DEF G
<1> QED
  BY <1>1, <1>3 DEF Builders

(* A build ends: it is one of the builds no more, and a gallery without one *)
(* has a pause.                                                             *)
LEMMA EndingBuilders ==
    ASSUME JobsInv, NEW r \in Run, End(r), UNCHANGED scope, NEW g \in Gallery
    PROVE  /\ Builders(g)' = Builders(g) \ {r}
           /\ since'[g] = IF Builders(g) \subseteq {r} THEN 0 ELSE since[g]
<1>1. run'[r] = Idle /\ \A q \in Run : q # r => run'[q] = run[q]
  BY EndTyped DEF JobsInv
<1>2. ~Holding(r)'
  BY <1>1 DEF Holding, Idle
<1>3. \A q \in Run : q # r => (Holding(q)' <=> Holding(q)) /\ G(run[q].job)' = G(run[q].job)
  BY <1>1 DEF Holding, G
<1>4. Builders(g)' = Builders(g) \ {r}
  BY <1>2, <1>3 DEF Builders
<1> QED
  BY <1>4 DEF End

(* A run that ends without a lease of its own to give back.                 *)
LEMMA EndKeepsCovered ==
    ASSUME JobsInv, NEW r \in Run, End(r), UNCHANGED scope, NEW g \in Gallery, Covered(g),
           active'[g] = active[g], activeTtl'[g] = activeTtl[g]
    PROVE  Covered(g)'
<1>1. /\ Builders(g)' = Builders(g) \ {r}
      /\ since'[g] = IF Builders(g) \subseteq {r} THEN 0 ELSE since[g]
  BY EndingBuilders
<1>2. /\ active[g] \in Nat /\ activeTtl[g] \in Nat /\ since[g] \in Nat
      /\ CounterTTL \in Nat /\ GalleryCap \in Nat
  BY CounterFacts DEF JobsInv
<1>3. CASE Builders(g) \subseteq {r}
  <2>1. Builders(g)' = {}
    BY <1>1, <1>3
  <2> QED
    BY <1>2, <2>1, FS_EmptySet DEF Covered
<1>4. CASE ~(Builders(g) \subseteq {r})
  <2>1. Cardinality(Builders(g)') <= Cardinality(Builders(g))
        /\ Cardinality(Builders(g)') \in Nat /\ Cardinality(Builders(g)) \in Nat
    BY <1>1, BuildersFinite, FewerIsNoMore
  <2>2. Builders(g) # {} /\ since'[g] = since[g]
    BY <1>1, <1>4
  <2> QED
    BY <1>2, <2>1, <2>2 DEF Covered
<1> QED
  BY <1>3, <1>4

(* A run that holds a lease and gives it back takes itself off the counter. *)
LEMMA FinishKeepsCovered ==
    ASSUME JobsInv, NEW r \in Run, Finish(r), NEW g \in Gallery, Covered(g)
    PROVE  Covered(g)'
<1> USE DEF JobsInv
<1> DEFINE k == run[r].job
           h == G(k)
<1>1. run[r] # Idle /\ Holding(r)
  BY PcFacts DEF Finish, RunPc, Running, Holding
<1>2. k \in Job /\ h \in Gallery /\ r \in Builders(h)
  BY <1>1, RunFacts DEF Builders
<1>3. End(r) /\ UNCHANGED scope /\ (Release(r, k, h) \/ UNCHANGED leaseVars)
  BY DEF Finish
<1> HIDE DEF h
<1>4. CASE g # h \/ UNCHANGED leaseVars
  <2>1. active'[g] = active[g] /\ activeTtl'[g] = activeTtl[g]
    BY <1>2, <1>3, <1>4 DEF Release, leaseVars, ArchiveTypeOK, LeaseTypeOK
  <2> QED
    BY <1>3, <2>1, EndKeepsCovered
<1>5. CASE g = h /\ ~UNCHANGED leaseVars
  <2>1. /\ active'[g] = Elapse(active[g])
        /\ activeTtl'[g] = IF active'[g] = 0 THEN 0 ELSE activeTtl[g]
    BY <1>2, <1>3, <1>5 DEF Release, leaseVars, ArchiveTypeOK, LeaseTypeOK
  <2>2. /\ Builders(g)' = Builders(g) \ {r}
        /\ since'[g] = IF Builders(g) \subseteq {r} THEN 0 ELSE since[g]
    BY <1>3, EndingBuilders
  <2>3. /\ active[g] \in Nat /\ activeTtl[g] \in Nat /\ since[g] \in Nat
        /\ CounterTTL \in Nat /\ GalleryCap \in Nat
    BY CounterFacts
  <2>4. active'[g] \in Nat /\ active'[g] <= active[g] /\ active'[g] >= active[g] - 1
    <3>1. Elapse(active[g]) \in Nat /\ Elapse(active[g]) <= active[g]
          /\ (active[g] > 0 => Elapse(active[g]) = active[g] - 1)
      BY <2>3, ElapseFacts
    <3> QED
      BY <2>1, <2>3, <3>1
  <2>5. CASE Builders(g) \subseteq {r}
    <3>1. Builders(g)' = {}
      BY <2>2, <2>5
    <3> QED
      BY <2>3, <2>4, <3>1, FS_EmptySet DEF Covered
  <2>6. CASE ~(Builders(g) \subseteq {r})
    <3>1. since'[g] = since[g] /\ Builders(g) # {}
      BY <2>2, <2>6
    <3>2. /\ IsFiniteSet(Builders(g))
          /\ Cardinality(Builders(g)) \in Nat
      BY BuildersFinite
    <3>3. /\ IsFiniteSet(Builders(g) \ {r})
          /\ Cardinality(Builders(g) \ {r}) = Cardinality(Builders(g)) - 1
      BY <1>2, <1>5, <3>2, FS_RemoveElement
    <3>4. Cardinality(Builders(g)') = Cardinality(Builders(g)) - 1
          /\ Cardinality(Builders(g)') \in Nat /\ IsFiniteSet(Builders(g)')
      BY <2>2, <3>3, FS_CardinalityType
    <3>5. active'[g] = 0 /\ since[g] < CounterTTL => Builders(g)' = {}
      <4>1. active'[g] = 0 /\ since[g] < CounterTTL => Cardinality(Builders(g)') = 0
        BY <2>3, <2>4, <3>2, <3>4 DEF Covered
      <4> QED
        BY <3>4, <4>1, FS_EmptySet
    <3>6. since'[g] < CounterTTL => Cardinality(Builders(g)') <= active'[g]
      BY <2>3, <2>4, <3>1, <3>2, <3>4 DEF Covered
    <3>7. since'[g] < CounterTTL /\ Builders(g)' # {} => activeTtl'[g] + since'[g] >= CounterTTL
      BY <2>1, <2>3, <3>1, <3>5 DEF Covered
    <3>8. active'[g] <= GalleryCap
      BY <2>3, <2>4 DEF Covered
    <3> QED
      BY <3>6, <3>7, <3>8 DEF Covered
  <2> QED
    BY <2>5, <2>6
<1> QED
  BY <1>4, <1>5

(* A build that is granted a lease is counted.                              *)
LEMMA GrantKeepsCovered ==
    ASSUME JobsInv, NEW r \in Run, Granted(r), NEW g \in Gallery, Covered(g)
    PROVE  Covered(g)'
<1> USE DEF JobsInv
<1> DEFINE k == run[r].job
           h == G(k)
<1>1. run[r] # Idle /\ ~Holding(r) /\ run[r] \in Runs
  BY PcFacts, RunFacts DEF Granted, RunPc, Running, Holding
<1>2. k \in Job /\ h \in Gallery
  BY <1>1, RunFacts
<1>3. Acquire(r, k, h) /\ UNCHANGED <<scope, since>>
  BY DEF Granted
<1>4. run'[r] = [run[r] EXCEPT !.pc = "mark"] /\ \A q \in Run : q # r => run'[q] = run[q]
  BY <1>1, GotoTyped DEF Granted, RunPc
<1>5. run'[r].job = k /\ run'[r].pc = "mark"
  BY <1>1, <1>4 DEF Runs
<1>6. /\ Holding(r)' /\ G(run[r].job)' = h
      /\ \A q \in Run : q # r => (Holding(q)' <=> Holding(q)) /\ G(run[q].job)' = G(run[q].job)
  BY <1>3, <1>4, <1>5 DEF Holding, G
<1> HIDE DEF h
<1>7. Builders(g)' = IF g = h THEN Builders(g) \cup {r} ELSE Builders(g)
  BY <1>1, <1>6 DEF Builders, h
<1>8. CASE g # h
  BY <1>2, <1>3, <1>7, <1>8, CoveredSame DEF Acquire, ArchiveTypeOK, LeaseTypeOK
<1>9. CASE g = h
  <2>1. /\ active[g] < GalleryCap /\ active'[g] = active[g] + 1
        /\ activeTtl'[g] = CounterTTL /\ since'[g] = since[g]
    BY <1>2, <1>3, <1>9 DEF Acquire, CanAcquire, ArchiveTypeOK, LeaseTypeOK
  <2>2. /\ active[g] \in Nat /\ since[g] \in Nat /\ CounterTTL \in Nat /\ GalleryCap \in Nat
    BY CounterFacts
  <2>3. Cardinality(Builders(g)) \in Nat /\ IsFiniteSet(Builders(g))
    BY BuildersFinite
  <2>4. /\ Cardinality(Builders(g) \cup {r}) = Cardinality(Builders(g))
           \/ Cardinality(Builders(g) \cup {r}) = Cardinality(Builders(g)) + 1
    BY <2>3, FS_AddElement
  <2>5. Builders(g)' = Builders(g) \cup {r}
    BY <1>7, <1>9
  <2>6. since[g] < CounterTTL => Cardinality(Builders(g)') <= active[g] + 1
    BY <2>2, <2>3, <2>4, <2>5 DEF Covered
  <2> QED
    BY <2>1, <2>2, <2>6 DEF Covered
<1> QED
  BY <1>8, <1>9

(* Time passes for a build and for its counter alike.                       *)
LEMMA ClockKeepsCovered ==
    ASSUME JobsInv, Clock, NEW g \in Gallery, Covered(g)
    PROVE  Covered(g)'
<1>1. /\ active[g] \in Nat /\ activeTtl[g] \in Nat /\ since[g] \in Nat
      /\ CounterTTL \in Nat /\ GalleryCap \in Nat
  BY CounterFacts DEF JobsInv
<1>2. Builders(g)' = Builders(g)
  BY DEF Clock, Builders, Holding, G
<1>3. /\ activeTtl'[g] = Elapse(activeTtl[g])
      /\ active'[g] = IF activeTtl'[g] = 0 THEN 0 ELSE active[g]
      /\ since'[g] = IF Builders(g) # {} /\ since[g] < CounterTTL THEN since[g] + 1 ELSE since[g]
  BY DEF Clock, Tick
<1>4. Elapse(activeTtl[g]) \in Nat /\ (activeTtl[g] > 0 => Elapse(activeTtl[g]) = activeTtl[g] - 1)
  BY <1>1, ElapseFacts
<1>5. CASE Builders(g) = {}
  BY <1>1, <1>2, <1>3, <1>4, <1>5, FS_EmptySet DEF Covered
<1>6. CASE Builders(g) # {}
  <2>1. Cardinality(Builders(g)) \in Nat
    BY BuildersFinite
  <2>2. active'[g] <= GalleryCap
    BY <1>1, <1>3 DEF Covered
  <2>3. ASSUME since'[g] < CounterTTL
        PROVE  active'[g] = active[g] /\ activeTtl'[g] + since'[g] >= CounterTTL
               /\ since[g] < CounterTTL
    BY <1>1, <1>3, <1>4, <1>6, <2>3 DEF Covered
  <2> QED
    BY <1>2, <2>1, <2>2, <2>3 DEF Covered
<1> QED
  BY <1>5, <1>6

(* A build's other steps leave the builds and the counters.                 *)
LEMMA BuildKeepsCovered ==
    ASSUME JobsInv, NEW r \in Run, BuildStep(r), NEW g \in Gallery, Covered(g)
    PROVE  Covered(g)'
<1> USE DEF JobsInv
<1>0. UNCHANGED scope /\ \A q \in Run : q # r => run'[q] = run[q]
  BY BuildLeaves
<1>1. ASSUME NEW m \in queue, Start(r, m)
      PROVE  Covered(g)'
  <2>1. run[r] = Idle /\ (run'[r] = Idle \/ run'[r].pc = "acquire")
        /\ UNCHANGED <<leaseVars, since>>
    BY <1>1 DEF Start, ArchiveTypeOK
  <2>2. ~Holding(r) /\ ~Holding(r)'
    BY <2>1 DEF Holding, Idle
  <2>3. \A q \in Run : q # r => (Holding(q)' <=> Holding(q)) /\ G(run[q].job)' = G(run[q].job)
    BY <1>0 DEF Holding, G
  <2>4. Builders(g)' = Builders(g)
    BY <2>2, <2>3 DEF Builders
  <2> QED
    BY <2>1, <2>4, CoveredSame DEF leaseVars
<1>2. CASE MarkProcessing(r) \/ RefuseDisk(r) \/ Store(r) \/ Complete(r) \/ Fail(r)
  <2>1. run[r] # Idle /\ Holding(r)
    BY <1>2, PcFacts DEF MarkProcessing, RefuseDisk, Store, Complete, Fail, Running, Holding
  <2>2. PICK pc \in {"build", "stored", "release"} : Goto(r, pc)
    BY <1>2 DEF MarkProcessing, RefuseDisk, Store, Complete, Fail
  <2>3. pc \in RunPc
    BY DEF RunPc
  <2>4. run'[r] = [run[r] EXCEPT !.pc = pc] /\ run[r] \in Runs
    BY <2>1, <2>2, <2>3, GotoTyped, RunFacts
  <2>5. run'[r].job = run[r].job /\ Holding(r)'
    BY <2>4 DEF Runs, Holding
  <2>6. Builders(g)' = Builders(g)
    BY <1>0, <2>1, <2>5, GoingOnKeepsBuilders
  <2>7. UNCHANGED <<leaseVars, since>>
    BY <1>2 DEF MarkProcessing, RefuseDisk, Store, Complete, Fail
  <2> QED
    BY <2>6, <2>7, CoveredSame DEF leaseVars
<1>3. CASE Beat(r) \/ Redeliver(r)
  <2>1. UNCHANGED <<active, activeTtl, run, since, scope>>
    BY <1>3 DEF Beat, Redeliver, Heartbeat, archiveVars, leaseVars
  <2>2. Builders(g)' = Builders(g)
    BY <2>1 DEF Builders, Holding, G
  <2> QED
    BY <2>1, <2>2, CoveredSame
<1>4. CASE Refused(r) \/ Crash(r)
  <2>1. End(r) /\ UNCHANGED <<active, activeTtl>>
    BY <1>4 DEF Refused, Crash, Refuse, leaseVars
  <2> QED
    BY <1>0, <2>1, EndKeepsCovered
<1> QED
  BY <1>1, <1>2, <1>3, <1>4, GrantKeepsCovered, FinishKeepsCovered DEF BuildStep

(* Requests, the purge and the gallery's end are no builds.                 *)
LEMMA OthersKeepCovered ==
    ASSUME JobsInv, NEW g \in Gallery, Covered(g), UNCHANGED <<leaseVars, run, since>>,
           \A j \in Job : status[j] # "NONE" => scope'[j] = scope[j]
    PROVE  Covered(g)'
<1> USE DEF JobsInv
<1>1. \A r \in Run : Holding(r) => G(run[r].job)' = G(run[r].job)
  <2> SUFFICES ASSUME NEW r \in Run, Holding(r)
               PROVE  G(run[r].job)' = G(run[r].job)
    OBVIOUS
  <2>1. run[r].job \in Job /\ status[run[r].job] # "NONE"
    BY PcFacts, RunFacts
  <2> QED
    BY <2>1 DEF G
<1>2. \A r \in Run : Holding(r)' <=> Holding(r)
  BY DEF Holding
<1>3. Builders(g)' = Builders(g)
  BY <1>1, <1>2 DEF Builders
<1> QED
  BY <1>3, CoveredSame DEF leaseVars

(* No more builds of a gallery overlap than its cap allows, of one job or   *)
(* of several, until the gallery has been building without a pause for as   *)
(* long as its counter lives.                                               *)
THEOREM BuildsStayApart == Spec => []BuildsApart
<1>1. Init => BuildsInv
  <2>1. ASSUME Init, NEW g \in Gallery
        PROVE  Covered(g)
    <3>1. Builders(g) = {}
      BY <2>1 DEF Init, Builders, Holding, Idle
    <3>2. active[g] = 0
      BY <2>1 DEF Init, LeaseInit
    <3> QED
      BY <3>1, <3>2, LeaseBounds, FS_EmptySet DEF Covered
  <2> QED
    BY <2>1 DEF BuildsInv
<1>2. JobsInv /\ BuildsInv /\ [Next]_vars => BuildsInv'
  <2> SUFFICES ASSUME JobsInv, BuildsInv, [Next]_vars, NEW g \in Gallery
               PROVE  Covered(g)'
    BY DEF BuildsInv
  <2>0. Covered(g)
    BY DEF BuildsInv
  <2>1. ASSUME NEW r \in Run, BuildStep(r)
        PROVE  Covered(g)'
    BY <2>0, <2>1, BuildKeepsCovered
  <2>2. CASE Clock
    BY <2>0, <2>2, ClockKeepsCovered
  <2>3. ASSUME NEW c \in Client, CreateJob(c)
        PROVE  Covered(g)'
    <3>1. PICK j \in Job : status[j] = "NONE" /\ scope' = [scope EXCEPT ![j] = client[c].scope]
      BY <2>3, FreshJob DEF CreateJob, JobsInv
    <3>2. \A k \in Job : status[k] # "NONE" => scope'[k] = scope[k]
      BY <3>1 DEF JobsInv, ArchiveTypeOK
    <3> QED
      BY <2>0, <2>3, <3>2, OthersKeepCovered DEF CreateJob
  <2>4. CASE UNCHANGED <<leaseVars, run, since, scope>>
    BY <2>0, <2>4, OthersKeepCovered
  <2>5. UNCHANGED vars => UNCHANGED <<leaseVars, run, since, scope>>
    BY DEF vars, archiveVars
  <2>6. ASSUME NEW c \in Client, AskFull(c) \/ AskFavorites(c) \/ Enqueue(c) \/ DropRequest(c)
        PROVE  UNCHANGED <<leaseVars, run, since, scope>>
    BY <2>6 DEF AskFull, AskFavorites, Ask, Enqueue, DropRequest
  <2>7. ASSUME \/ \E j \in Job : Expire(j) \/ PurgeObject(j) \/ PurgeRow(j) \/ PurgeFails(j)
               \/ PurgeList
               \/ \E h \in Gallery : DeleteGallery(h)
        PROVE  UNCHANGED <<leaseVars, run, since, scope>>
    BY <2>7 DEF Expire, PurgeObject, PurgeRow, PurgeFails, PurgeList, DeleteGallery
  <2> QED
    BY <2>1, <2>2, <2>3, <2>4, <2>5, <2>6, <2>7 DEF Next, BuildStep
<1>3. BuildsInv /\ JobsInv => BuildsApart
  <2> SUFFICES ASSUME JobsInv, NEW g \in Gallery, Covered(g), since[g] < CounterTTL
               PROVE  Cardinality(Builders(g)) <= GalleryCap
    BY DEF BuildsInv, BuildsApart
  <2>1. active[g] \in Nat /\ GalleryCap \in Nat /\ Cardinality(Builders(g)) \in Nat
    BY CounterFacts, BuildersFinite DEF JobsInv
  <2> QED
    BY <2>1 DEF Covered
<1> QED
  BY <1>1, <1>2, <1>3, JobsInvariant, PTL DEF Spec
=============================================================================
