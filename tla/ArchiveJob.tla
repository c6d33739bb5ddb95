----------------------------- MODULE ArchiveJob -----------------------------
(***************************************************************************)
(* Archive ZIPs of a gallery: a client asks for one (client_views.py), a    *)
(* Celery task builds it under a lease (gallery/tasks.py), the status view  *)
(* hands out its URL and a beat task purges it when its day is over         *)
(* (retention.py).  The row, the broker's message, the lease and the object *)
(* in R2 are four stores no transaction spans.                              *)
(*                                                                          *)
(* Job ids are numbered in order of creation (the views take the newest).   *)
(* The 24 hours of a finished archive are taken to outlast every message    *)
(* about it: Expire waits for them.                                         *)
(***************************************************************************)
EXTENDS ZipLease

CONSTANTS
    FullScope,      \* one per gallery: archives of everything
    PickScope,      \* one per access session: archives of its favorites
    Client,         \* concurrent archive requests
    GalleryOf,      \* the gallery of each scope
    MaxRetries,     \* retries of the build task
    MaxFaults       \* bound: lost workers and messages delivered twice

Scope == FullScope \cup PickScope

ASSUME ArchiveAssumption ==
    /\ Job \subseteq Nat
    /\ GalleryOf \in [Scope -> Gallery]
    /\ MaxRetries \in Nat
    /\ MaxFaults \in Nat

VARIABLES
    status,     \* GalleryArchiveJob.status, "NONE" before the row, "GONE" after
    scope,      \* the scope of each job created so far
    age,        \* ticks since creation: .update() never touches updated_at
    exp,        \* expires_at: not set, in the future, passed
    object,     \* jobs whose ZIP is in R2
    queue,      \* messages in the broker: a job and the retries it has used
    run,        \* build tasks in the workers
    client,     \* archive requests between their checks and their enqueue
    listed,     \* jobs the purge task has read and not handled yet
    since,      \* history: ticks a gallery has been building without a pause
    faults      \* lost workers and double deliveries so far

archiveVars == <<status, scope, age, exp, object, queue, run, client, listed, since, faults>>
vars == <<leaseVars, archiveVars>>

None == "none"
StaleAfter == 2 * LeaseTTL
Status == {"NONE", "PENDING", "PROCESSING", "COMPLETED", "FAILED", "GONE"}
Message == [job : Job, tries : 0..MaxRetries]
Idle == [pc |-> "idle"]
RunPc == {"acquire", "mark", "build", "stored", "release"}

ArchiveTypeOK ==
    /\ LeaseTypeOK
    /\ status \in [Job -> Status]
    /\ scope \in [Job -> Scope \cup {None}]
    /\ age \in [Job -> 0..(StaleAfter + 1)]
    /\ exp \in [Job -> {"unset", "ahead", "past"}]
    /\ object \in SUBSET Job
    /\ queue \in SUBSET Message
    /\ run \in [Run -> {Idle} \cup [pc : RunPc, job : Job, tries : 0..MaxRetries]]
    /\ client \in [Client -> {Idle} \cup [pc : {"create"}, scope : Scope]
                                    \cup [pc : {"enqueue"}, job : Job]]
    /\ listed \in SUBSET Job
    /\ since \in [Gallery -> 0..CounterTTL]
    /\ faults \in 0..MaxFaults

Init ==
    /\ LeaseInit
    /\ status = [j \in Job |-> "NONE"]
    /\ scope = [j \in Job |-> None]
    /\ age = [j \in Job |-> 0]
    /\ exp = [j \in Job |-> "unset"]
    /\ object = {}
    /\ queue = {}
    /\ run = [r \in Run |-> Idle]
    /\ client = [c \in Client |-> Idle]
    /\ listed = {}
    /\ since = [g \in Gallery |-> 0]
    /\ faults = 0

Exists(j) == status[j] \notin {"NONE", "GONE"}
Rows(s) == {j \in Job : Exists(j) /\ scope[j] = s}
Newest(S) == CHOOSE j \in S : \A k \in S : k <= j
Stale(j) == status[j] = "PROCESSING" /\ age[j] > StaleAfter
G(j) == GalleryOf[scope[j]]

(* QuerySet.update(): a row that is gone is not written.                    *)
Write(j, st) == IF Exists(j) THEN [status EXCEPT ![j] = st] ELSE status
-----------------------------------------------------------------------------
(* The client's requests.                                                   *)

(* Which row the views look at, after a stale one has been reset.           *)
ResumeStale(S) == [j \in Job |-> IF j \in S /\ Stale(j) THEN "PENDING" ELSE status[j]]

(* An active or unexpired archive is answered as it is; the view goes on to *)
(* create one only if there is none.  The reset row is not enqueued again.  *)
Ask(c, s) ==
    LET newest == IF Rows(s) = {} THEN {} ELSE {Newest(Rows(s))}
        after == ResumeStale(newest)
        served == \E j \in newest :
                    \/ after[j] \in {"PENDING", "PROCESSING"}
                    \/ after[j] = "COMPLETED" /\ exp[j] = "ahead"
    IN  /\ client[c] = Idle
        /\ status' = after
        /\ client' = IF served THEN client
                     ELSE [client EXCEPT ![c] = [pc |-> "create", scope |-> s]]
        /\ UNCHANGED <<leaseVars, scope, age, exp, object, queue, run, listed, since, faults>>

AskFull(c) == \E s \in FullScope : Ask(c, s)
AskFavorites(c) == \E s \in PickScope : Ask(c, s)

(* objects.create() of a new PENDING row.                                   *)
CreateJob(c) ==
    LET fresh == {j \in Job : status[j] = "NONE"}
        j == CHOOSE k \in fresh : \A i \in fresh : k <= i
    IN  /\ client[c].pc = "create"
        /\ fresh # {}
        /\ status' = [status EXCEPT ![j] = "PENDING"]
        /\ scope' = [scope EXCEPT ![j] = client[c].scope]
        /\ client' = [client EXCEPT ![c] = [pc |-> "enqueue", job |-> j]]
        /\ UNCHANGED <<leaseVars, age, exp, object, queue, run, listed, since, faults>>

Enqueue(c) ==
    /\ client[c].pc = "enqueue"
    /\ queue' = queue \cup {[job |-> client[c].job, tries |-> 0]}
    /\ client' = [client EXCEPT ![c] = Idle]
    /\ UNCHANGED <<leaseVars, status, scope, age, exp, object, run, listed, since, faults>>

(* The web worker dies or the broker is down: the request is answered 500.  *)
DropRequest(c) ==
    /\ client[c] # Idle
    /\ client' = [client EXCEPT ![c] = Idle]
    /\ UNCHANGED <<leaseVars, status, scope, age, exp, object, queue, run, listed, since, faults>>

(* Jobs whose download URL the status views hand out.                       *)
Downloads(S) == {j \in S : \A k \in S : k <= j}
                \cap {j \in Job : status[j] = "COMPLETED" /\ exp[j] = "ahead"}
FullDownload(s) == Downloads(Rows(s))
FavoritesDownload(s) == Downloads(Rows(s))
-----------------------------------------------------------------------------
(* build_gallery_archive.                                                   *)

Running(r, pc) == run[r].pc = pc
Goto(r, pc) == run' = [run EXCEPT ![r].pc = pc]
Holding(r) == run[r].pc \in {"mark", "build", "stored", "release"}
Builders(g) == {r \in Run : Holding(r) /\ G(run[r].job) = g}

End(r) ==
    /\ run' = [run EXCEPT ![r] = Idle]
    /\ since' = [g \in Gallery |-> IF Builders(g) \subseteq {r} THEN 0 ELSE since[g]]

(* self.retry(): a new message, unless the task has used its retries up.    *)
Retry(r) ==
    queue' = IF run[r].tries < MaxRetries
             THEN queue \cup {[job |-> run[r].job, tries |-> run[r].tries + 1]}
             ELSE queue

(* A worker takes a message (acks_late: it stays the broker's until the run *)
(* ends).  A missing, completed or young PROCESSING row ends the run.       *)
Start(r, m) ==
    LET j == m.job
        after == ResumeStale({j})
    IN  /\ run[r] = Idle
        /\ m \in queue
        /\ queue' = queue \ {m}
        /\ status' = after
        /\ run' = IF after[j] \in {"PENDING", "FAILED"}
                  THEN [run EXCEPT ![r] = [pc |-> "acquire", job |-> j, tries |-> m.tries]]
                  ELSE run
        /\ UNCHANGED <<leaseVars, scope, age, exp, object, client, listed, since, faults>>

Granted(r) ==
    /\ Running(r, "acquire")
    /\ Acquire(r, run[r].job, G(run[r].job))
    /\ Goto(r, "mark")
    /\ UNCHANGED <<status, scope, age, exp, object, queue, client, listed, since, faults>>

(* A cap, or Redis unreachable (fail closed): the task asks to be retried.  *)
Refused(r) ==
    /\ Running(r, "acquire")
    /\ Refuse(G(run[r].job)) \/ UNCHANGED leaseVars
    /\ Retry(r)
    /\ End(r)
    /\ UNCHANGED <<status, scope, age, exp, object, client, listed, faults>>

MarkProcessing(r) ==
    /\ Running(r, "mark")
    /\ status' = Write(run[r].job, "PROCESSING")
    /\ Goto(r, "build")
    /\ UNCHANGED <<leaseVars, scope, age, exp, object, queue, client, listed, since, faults>>

(* Too little scratch space, asked before the sink is opened: no retry.     *)
RefuseDisk(r) ==
    /\ Running(r, "build")
    /\ status' = Write(run[r].job, "FAILED")
    /\ Goto(r, "release")
    /\ UNCHANGED <<leaseVars, scope, age, exp, object, queue, client, listed, since, faults>>

(* Between two photos; a lost lease is not noticed.                         *)
Beat(r) ==
    /\ Running(r, "build")
    /\ Heartbeat(r, run[r].job)
    /\ UNCHANGED archiveVars

(* sink.close(): the multipart upload becomes an object under the job's key.*)
Store(r) ==
    /\ Running(r, "build")
    /\ object' = object \cup {run[r].job}
    /\ Goto(r, "stored")
    /\ UNCHANGED <<leaseVars, status, scope, age, exp, queue, client, listed, since, faults>>

(* Mutant: the row is completed before the sink is closed.                  *)
CompleteEarly(r) ==
    LET j == run[r].job
    IN  /\ Running(r, "build")
        /\ status' = Write(j, "COMPLETED")
        /\ exp' = IF Exists(j) THEN [exp EXCEPT ![j] = "ahead"] ELSE exp
        /\ Goto(r, "release")
        /\ UNCHANGED <<leaseVars, scope, age, object, queue, client, listed, since, faults>>

Complete(r) ==
    LET j == run[r].job
    IN  /\ Running(r, "stored")
        /\ status' = Write(j, "COMPLETED")
        /\ exp' = IF Exists(j) THEN [exp EXCEPT ![j] = "ahead"] ELSE exp
        /\ Goto(r, "release")
        /\ UNCHANGED <<leaseVars, scope, age, object, queue, client, listed, since, faults>>

(* Any exception: the upload is aborted, the row FAILED, the task retried.  *)
Fail(r) ==
    /\ run[r].pc \in {"mark", "build", "stored"}
    /\ status' = Write(run[r].job, "FAILED")
    /\ Retry(r)
    /\ Goto(r, "release")
    /\ UNCHANGED <<leaseVars, scope, age, exp, object, client, listed, since, faults>>

(* finally: the lease goes back, or stays to expire if Redis is down.       *)
Finish(r) ==
    /\ Running(r, "release")
    /\ Release(r, run[r].job, G(run[r].job)) \/ UNCHANGED leaseVars
    /\ End(r)
    /\ UNCHANGED <<status, scope, age, exp, object, queue, client, listed, faults>>

Held(r) == [job |-> run[r].job, tries |-> run[r].tries]

(* reject_on_worker_lost: the message of a lost worker is queued again.     *)
Crash(r) ==
    /\ run[r] # Idle
    /\ faults < MaxFaults
    /\ faults' = faults + 1
    /\ queue' = queue \cup {Held(r)}
    /\ End(r)
    /\ UNCHANGED <<leaseVars, status, scope, age, exp, object, client, listed>>

(* The broker's visibility timeout: delivered again while it is being run.  *)
Redeliver(r) ==
    /\ run[r] # Idle
    /\ faults < MaxFaults
    /\ faults' = faults + 1
    /\ queue' = queue \cup {Held(r)}
    /\ UNCHANGED <<leaseVars, status, scope, age, exp, object, run, client, listed, since>>
-----------------------------------------------------------------------------
(* Time, the purge and the gallery's own end.                               *)

Quiet(j) == /\ \A m \in queue : m.job # j
            /\ {r \in Run : run[r] # Idle /\ run[r].job = j} = {}

Expire(j) ==
    /\ exp[j] = "ahead"
    /\ Quiet(j)
    /\ exp' = [exp EXCEPT ![j] = "past"]
    /\ UNCHANGED <<leaseVars, status, scope, age, object, queue, run, client, listed, since, faults>>

PurgeList ==
    /\ listed = {}
    /\ listed' = {j \in Job : Exists(j) /\ exp[j] = "past"}
    /\ UNCHANGED <<leaseVars, status, scope, age, exp, object, queue, run, client, since, faults>>

(* First the object; the row only once R2 has confirmed.                    *)
PurgeObject(j) ==
    /\ j \in listed
    /\ j \in object
    /\ object' = object \ {j}
    /\ UNCHANGED <<leaseVars, status, scope, age, exp, queue, run, client, listed, since, faults>>

PurgeRow(j) ==
    /\ j \in listed
    /\ j \notin object
    /\ status' = Write(j, "GONE")
    /\ listed' = listed \ {j}
    /\ UNCHANGED <<leaseVars, scope, age, exp, object, queue, run, client, since, faults>>

(* R2 refuses, or the task dies: the row is kept for the next hour's run.   *)
PurgeFails(j) ==
    /\ j \in listed
    /\ listed' = listed \ {j}
    /\ UNCHANGED <<leaseVars, status, scope, age, exp, object, queue, run, client, since, faults>>

(* The photographer deletes the gallery: its jobs' rows cascade.            *)
DeleteGallery(g) ==
    LET S == {j \in Job : Exists(j) /\ G(j) = g}
    IN  /\ S # {}
        /\ status' = [j \in Job |-> IF j \in S THEN "GONE" ELSE status[j]]
        /\ UNCHANGED <<leaseVars, scope, age, exp, object, queue, run, client, listed, since, faults>>

Clock ==
    /\ Tick
    /\ age' = [j \in Job |-> IF Exists(j) /\ age[j] <= StaleAfter THEN age[j] + 1 ELSE age[j]]
    /\ since' = [g \in Gallery |-> IF Builders(g) # {} /\ since[g] < CounterTTL
                                   THEN since[g] + 1 ELSE since[g]]
    /\ UNCHANGED <<status, scope, exp, object, queue, run, client, listed, faults>>

Next ==
    \/ \E c \in Client : \/ AskFull(c) \/ AskFavorites(c)
                         \/ CreateJob(c) \/ Enqueue(c) \/ DropRequest(c)
    \/ \E r \in Run : \/ \E m \in queue : Start(r, m)
                      \/ Granted(r) \/ Refused(r) \/ MarkProcessing(r)
                      \/ RefuseDisk(r) \/ Beat(r) \/ Store(r)
                      \/ Complete(r) \/ Fail(r) \/ Finish(r)
                      \/ Crash(r) \/ Redeliver(r)
    \/ \E j \in Job : Expire(j) \/ PurgeObject(j) \/ PurgeRow(j) \/ PurgeFails(j)
    \/ PurgeList
    \/ \E g \in Gallery : DeleteGallery(g)
    \/ Clock

Spec == Init /\ [][Next]_vars
-----------------------------------------------------------------------------
(* A URL that a status view hands out leads to a stored ZIP, whatever       *)
(* overlapping builds and the purge are doing (client_views.py:639-649).    *)
DownloadServes ==
    /\ \A s \in FullScope : FullDownload(s) \subseteq object
    /\ \A s \in PickScope : FavoritesDownload(s) \subseteq object

(* A lease ends by time, or by the release of the very run that holds it;   *)
(* another run of the job, older or redelivered, never takes it away        *)
(* (zip_lease.py:4).                                                        *)
OnlyHolderFrees ==
    [][\A j \in Job :
          Live(j) /\ lease'[j] = Free =>
            \/ Tick
            \/ \E r \in Run : lease[j] = r /\ Running(r, "release") /\ run[r].job = j]_vars

(* No more builds of a gallery overlap than its cap allows, of the same job *)
(* or of several, unless it has been building without a pause for as long   *)
(* as the gallery's counter lives: a run that stalls and loses its lease is *)
(* still protected by the counter, and a redelivered or reset job waits for *)
(* it (tasks.py:735, zip_lease.py:61).                                      *)
BuildsApart ==
    \A g \in Gallery :
        since[g] < CounterTTL => Cardinality(Builders(g)) <= GalleryCap
=============================================================================
