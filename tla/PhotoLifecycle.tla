--------------------------- MODULE PhotoLifecycle ---------------------------
(***************************************************************************)
(* One workspace's photos from upload to deletion, and the storage ledger   *)
(* they are charged to.  A Photo row is written by six kinds of actors that *)
(* share nothing but PostgreSQL rows and R2 objects:                        *)
(*   - the photographer's HTTP requests (bulk tickets, fast-lane upload,    *)
(*     photo and scene deletion);                                           *)
(*   - R2 upload webhooks, delivered at least once and in any order;        *)
(*   - the fast-lane monitor task and the web-derivative task (Celery,      *)
(*     redelivered when a worker is lost);                                  *)
(*   - the abandoned-upload reaper, the gallery expiry sweep and the hard   *)
(*     delete (Celery beat, possibly two containers at once);               *)
(*   - the purge tasks that delete R2 objects after a commit.               *)
(* Every transaction.atomic() block that locks the row is one action; what  *)
(* a handler reads before it takes the lock is kept in its own state and    *)
(* may be stale when it is used.                                            *)
(***************************************************************************)
EXTENDS QuotaLedger

CONSTANTS
    HeavyPhoto,     \* ids of uploads made through the bulk ticket endpoint
    FastPhoto,      \* ids of uploads made through the fast-lane endpoint
    VaultPhoto,     \* fast-lane uploads whose bytes some outside agent stores
    OwnerDeletes,   \* photos the photographer may delete one by one
    Sizes,          \* declared file sizes, in bytes
    Limits,         \* storage limits a billing plan may set
    Handler,        \* concurrent webhook requests
    Reaper,         \* overlapping runs of reap_abandoned_uploads
    HardDeleter     \* overlapping runs of hard_delete_expired_galleries

Photo == HeavyPhoto \cup FastPhoto

ASSUME PhotoAssumption ==
    /\ IsFiniteSet(HeavyPhoto) /\ IsFiniteSet(FastPhoto)
    /\ HeavyPhoto \cap FastPhoto = {}
    /\ VaultPhoto \subseteq FastPhoto
    /\ OwnerDeletes \subseteq Photo

ASSUME SizeAssumption ==
    /\ Sizes \subseteq Nat \ {0}
    /\ Limits \subseteq Nat

VARIABLES
    status,     \* Photo.status, "NONE" before the row and "GONE" after it
    size,       \* Photo.file_size_bytes
    processed,  \* rows with is_processed set
    used,       \* Workspace.storage_used_bytes
    limit,      \* Workspace.storage_limit_bytes
    billed,     \* history: photos charged to the ledger and not refunded
    object,     \* size of the original in R2, or Missing
    declared,   \* largest body the presigned POST ticket accepts
    age,        \* of a heavy row: ticket usable, ticket lapsed, reapable
    notified,   \* keys R2 has emitted a PutObject event for
    hook,       \* webhook requests in flight
    mon,        \* fast-lane monitor task of each fast photo
    deriv,      \* photos with a web-derivative task outstanding
    purging,    \* photos whose object keys a purge task is to delete
    reap,       \* what each reaper run has listed and probed
    snap,       \* what each hard-delete run has read
    gallery     \* the gallery's clock: live, due, over its grace, deleted

ledger == <<used, limit, billed>>
rows   == <<status, size, processed, declared, age>>
store  == <<object, notified>>
tasks  == <<mon, deriv, purging>>
beats  == <<reap, snap>>
vars   == <<rows, ledger, store, hook, tasks, beats, gallery>>
-----------------------------------------------------------------------------
Missing == -1
Status  == {"NONE", "PENDING", "READY", "FAILED", "QUARANTINED", "EXPIRED", "GONE"}

(* _QUOTA_CHARGED_STATUSES: what a failure or an owner's delete refunds.     *)
Refundable == {"PENDING", "READY"}

Idle == [pc |-> "idle"]
Request == [pc : {"head"}, photo : HeavyPhoto, declared : Nat]
           \cup [pc : {"commit"}, photo : HeavyPhoto, declared : Nat,
                 head : Nat \cup {Missing}]
MonState  == {"none", "committed", "lost", "queued", "probing", "found", "absent", "done"}
ReapState == {"no", "listed", "exists", "missing"}
NoSnap    == [ids |-> {}, refund |-> 0]

TypeOK ==
    /\ status \in [Photo -> Status]
    /\ size \in [Photo -> Nat]
    /\ processed \in SUBSET Photo
    /\ used \in Nat
    /\ limit \in Nat
    /\ billed \in SUBSET Photo
    /\ object \in [Photo -> Nat \cup {Missing}]
    /\ declared \in [HeavyPhoto -> Nat]
    /\ age \in [HeavyPhoto -> {"ticket", "lapsed", "stale"}]
    /\ notified \in SUBSET HeavyPhoto
    /\ hook \in [Handler -> {Idle} \cup Request]
    /\ mon \in [FastPhoto -> MonState]
    /\ deriv \in SUBSET Photo
    /\ purging \in SUBSET Photo
    /\ reap \in [Reaper -> [HeavyPhoto -> ReapState]]
    /\ snap \in [HardDeleter -> [ids : SUBSET Photo, refund : Nat]]
    /\ gallery \in {"live", "due", "over", "deleted"}

Init ==
    /\ status = [p \in Photo |-> "NONE"]
    /\ size = [p \in Photo |-> 0]
    /\ processed = {}
    /\ used = 0
    /\ limit \in Limits
    /\ billed = {}
    /\ object = [p \in Photo |-> Missing]
    /\ declared = [p \in HeavyPhoto |-> 0]
    /\ age = [p \in HeavyPhoto |-> "ticket"]
    /\ notified = {}
    /\ hook = [h \in Handler |-> Idle]
    /\ mon = [p \in FastPhoto |-> "none"]
    /\ deriv = {}
    /\ purging = {}
    /\ reap = [r \in Reaper |-> [p \in HeavyPhoto |-> "no"]]
    /\ snap = [d \in HardDeleter |-> NoSnap]
    /\ gallery = "live"
-----------------------------------------------------------------------------
(* Ledger moves shared by the actions.                                      *)

(* Mutant: headroom is checked file by file, not for the batch.             *)
ChargeEach(S, sz) ==
    /\ \A p \in S : CanReserve(used, limit, sz[p])
    /\ used' = used + Total(S, sz)
    /\ billed' = billed \cup S
    /\ UNCHANGED limit

(* Reserve the bytes of the new rows S and record them as billed.           *)
Charge(S, sz) ==
    /\ CanReserve(used, limit, Total(S, sz))
    /\ used' = used + Total(S, sz)
    /\ billed' = billed \cup S
    /\ UNCHANGED limit

(* Give back n bytes that settle the bill of the rows S.                    *)
Refund(S, n) ==
    /\ used' = AfterRelease(used, n)
    /\ billed' = billed \ S
    /\ UNCHANGED limit

(* Rows that carry an R2 key: ticketed rows from birth, fast-lane rows once *)
(* the monitor has found their object.                                      *)
Keyed(S) == {p \in S : p \in HeavyPhoto \cup processed}

Exists(p) == status[p] \notin {"NONE", "GONE"}
Put(p, s) == status' = [status EXCEPT ![p] = s]
PutAll(S, s) == status' = [p \in Photo |-> IF p \in S THEN s ELSE status[p]]

(* Mutant: the status is not read again under the lock.                     *)
MarkFailedUnchecked(p) ==
    IF status[p] \notin {"NONE", "GONE"}
    THEN /\ Put(p, "FAILED")
         /\ Refund({p}, size[p])
         /\ purging' = purging \cup Keyed({p})
    ELSE UNCHANGED <<status, ledger, purging>>

(* mark_photo_failed_and_release_quota: lock the row, and only if it is     *)
(* still charged fail it, refund it and have its objects purged.            *)
MarkFailed(p) ==
    IF status[p] \in Refundable
    THEN /\ Put(p, "FAILED")
         /\ Refund({p}, size[p])
         /\ purging' = purging \cup Keyed({p})
    ELSE UNCHANGED <<status, ledger, purging>>
-----------------------------------------------------------------------------
(* Heavy lane: tickets, client uploads, webhooks.                           *)

(* _phase2_commit: all rows of the manifest and their total charge, or      *)
(* nothing.  Refusals (402, 403, 409) leave no trace.                       *)
HeavyCommit ==
    \E S \in (SUBSET HeavyPhoto) \ {{}} : \E sz \in [S -> Sizes] :
        /\ gallery # "deleted"
        /\ \A p \in S : status[p] = "NONE"
        /\ Charge(S, sz)
        /\ PutAll(S, "PENDING")
        /\ size' = [p \in Photo |-> IF p \in S THEN sz[p] ELSE size[p]]
        /\ declared' = [p \in HeavyPhoto |-> IF p \in S THEN sz[p] ELSE declared[p]]
        /\ UNCHANGED <<processed, age, store, hook, tasks, beats, gallery>>

(* The browser posts the file to R2 under its ticket, perhaps again after a *)
(* network error; the policy bounds the body by 1..declared.                *)
ClientPut(p) ==
    /\ status[p] # "NONE"
    /\ age[p] = "ticket"
    /\ \E n \in 1..declared[p] : object' = [object EXCEPT ![p] = n]
    /\ notified' = notified \cup {p}
    /\ UNCHANGED <<rows, ledger, hook, tasks, beats, gallery>>

(* Fifteen minutes void the ticket, a day makes a pending row reapable.     *)
TicketAges(p) ==
    /\ status[p] # "NONE"
    /\ \/ age[p] = "ticket" /\ age' = [age EXCEPT ![p] = "lapsed"]
       \/ age[p] = "lapsed" /\ status[p] = "PENDING" /\ age' = [age EXCEPT ![p] = "stale"]
    /\ UNCHANGED <<status, size, processed, declared, ledger, store, hook, tasks, beats,
                   gallery>>

(* R2WebhookView.post, steps 10 and 11: look the key up, without a lock.    *)
(* An unknown key is acknowledged and forgotten.                            *)
HookRead(h, p) ==
    /\ hook[h] = Idle
    /\ p \in notified
    /\ Exists(p)
    /\ hook' = [hook EXCEPT ![h] = [pc |-> "head", photo |-> p, declared |-> size[p]]]
    /\ UNCHANGED <<rows, ledger, store, tasks, beats, gallery>>

(* Step 11: the authoritative size, still without a lock.                   *)
HookHead(h) ==
    /\ hook[h].pc = "head"
    /\ hook' = [hook EXCEPT ![h] = [pc |-> "commit", photo |-> hook[h].photo,
                                    declared |-> hook[h].declared,
                                    head |-> object[hook[h].photo]]]
    /\ UNCHANGED <<rows, ledger, store, tasks, beats, gallery>>

(* 503 from a failed HEAD, lock contention, or a dead web worker.           *)
HookDrop(h) ==
    /\ hook[h] # Idle
    /\ hook' = [hook EXCEPT ![h] = Idle]
    /\ UNCHANGED <<rows, ledger, store, tasks, beats, gallery>>

Anomaly(r) == r.head = Missing \/ r.head = 0 \/ r.head > r.declared

(* Step 12, nothing to do: already READY, row gone, or no longer PENDING.   *)
HookNoEffect(h) ==
    /\ hook[h].pc = "commit"
    /\ LET p == hook[h].photo IN
         \/ status[p] \in {"READY", "GONE"}
         \/ status[p] # "PENDING" /\ ~Anomaly(hook[h])
    /\ hook' = [hook EXCEPT ![h] = Idle]
    /\ UNCHANGED <<rows, ledger, store, tasks, beats, gallery>>

(* Step 12, size anomaly: quarantine whatever the row has become, READY     *)
(* excepted; the charge is kept.                                            *)
HookQuarantine(h) ==
    /\ hook[h].pc = "commit"
    /\ Anomaly(hook[h])
    /\ status[hook[h].photo] \notin {"READY", "GONE"}
    /\ Put(hook[h].photo, "QUARANTINED")
    /\ hook' = [hook EXCEPT ![h] = Idle]
    /\ UNCHANGED <<size, processed, declared, age, ledger, store, tasks, beats, gallery>>

(* Mutant: the UPDATE lacks its status='PENDING' filter.                    *)
HookAcceptAnyStatus(h) ==
    /\ hook[h].pc = "commit"
    /\ ~Anomaly(hook[h])
    /\ status[hook[h].photo] \notin {"READY", "GONE"}
    /\ Put(hook[h].photo, "READY")
    /\ processed' = processed \cup {hook[h].photo}
    /\ deriv' = deriv \cup {hook[h].photo}
    /\ hook' = [hook EXCEPT ![h] = Idle]
    /\ UNCHANGED <<size, ledger, declared, age, store, mon, purging, beats, gallery>>

(* Step 12, accepted: PENDING becomes READY, an undersized file is charged  *)
(* for what was stored, and the image tasks are queued.                     *)
HookAccept(h) ==
    /\ hook[h].pc = "commit"
    /\ ~Anomaly(hook[h])
    /\ LET p == hook[h].photo
           r == hook[h] IN
       /\ status[p] = "PENDING"
       /\ Put(p, "READY")
       /\ processed' = processed \cup {p}
       /\ IF r.head < r.declared
          THEN /\ size' = [size EXCEPT ![p] = r.head]
               /\ Refund({}, r.declared - r.head)
          ELSE UNCHANGED <<size, ledger>>
       /\ deriv' = deriv \cup {p}
    /\ hook' = [hook EXCEPT ![h] = Idle]
    /\ UNCHANGED <<declared, age, store, mon, purging, beats, gallery>>
-----------------------------------------------------------------------------
(* Fast lane: the upload request and its monitor task.                      *)

(* perform_create: the quota gate and the row in one transaction, before    *)
(* the task is queued.                                                      *)
FastCreate(p) ==
    /\ gallery # "deleted"
    /\ status[p] = "NONE"
    /\ \E n \in Sizes :
        /\ Charge({p}, [q \in {p} |-> n])
        /\ size' = [size EXCEPT ![p] = n]
    /\ Put(p, "PENDING")
    /\ mon' = [mon EXCEPT ![p] = "committed"]
    /\ UNCHANGED <<processed, declared, age, store, hook, deriv, purging, beats, gallery>>

(* process_fast_lane_asset.delay runs after the commit: the web worker may  *)
(* die in between, and nothing else knows of the row.                       *)
FastDispatch(p) ==
    /\ mon[p] = "committed"
    /\ \E m \in {"queued", "lost"} : mon' = [mon EXCEPT ![p] = m]
    /\ UNCHANGED <<rows, ledger, store, hook, deriv, purging, beats, gallery>>

(* The bytes appear in R2 under the key the monitor expects.  No code of    *)
(* this repository puts them there.                                         *)
VaultPut(p) ==
    /\ p \in VaultPhoto
    /\ status[p] = "PENDING"
    /\ object' = [object EXCEPT ![p] = size[p]]
    /\ UNCHANGED <<rows, ledger, notified, hook, tasks, beats, gallery>>

(* process_fast_lane_asset, the unlocked read: settled rows end the task.   *)
MonRead(p) ==
    /\ mon[p] = "queued"
    /\ LET settled == \/ status[p] \in {"READY", "QUARANTINED", "GONE"}
                      \/ p \in processed
       IN mon' = [mon EXCEPT ![p] = IF settled THEN "done" ELSE "probing"]
    /\ UNCHANGED <<rows, ledger, store, hook, deriv, purging, beats, gallery>>

(* Mutant: an R2 error counts as an object found.                           *)
MonHeadOptimistic(p) ==
    /\ mon[p] = "probing"
    /\ \E m \in {"absent", "found"} : mon' = [mon EXCEPT ![p] = m]
    /\ UNCHANGED <<rows, ledger, store, hook, deriv, purging, beats, gallery>>

(* The HEAD request, outside any transaction.                               *)
MonHead(p) ==
    /\ mon[p] = "probing"
    /\ mon' = [mon EXCEPT ![p] = IF object[p] = Missing THEN "absent" ELSE "found"]
    /\ UNCHANGED <<rows, ledger, store, hook, deriv, purging, beats, gallery>>

(* R2 unreachable: the task is retried; with its retries spent, either the  *)
(* exhausted callback fails the row or the error surfaces and the task ends *)
(* (Celery re-raises the exception it was given).  A task whose worker is   *)
(* lost is redelivered, after its last commit too (acks_late).              *)
MonRetry(p) ==
    /\ mon[p] \in {"probing", "found", "absent", "done"}
    /\ mon' = [mon EXCEPT ![p] = "queued"]
    /\ UNCHANGED <<rows, ledger, store, hook, deriv, purging, beats, gallery>>

MonGiveUp(p) ==
    /\ mon[p] = "probing"
    /\ mon' = [mon EXCEPT ![p] = "done"]
    /\ MarkFailed(p) \/ UNCHANGED <<status, ledger, purging>>
    /\ UNCHANGED <<size, processed, declared, age, store, hook, deriv, beats, gallery>>

(* _handle_self_heal: READY only from PENDING, image tasks queued anyway.   *)
MonHeal(p) ==
    /\ mon[p] = "found"
    /\ IF status[p] = "PENDING"
       THEN Put(p, "READY") /\ processed' = processed \cup {p}
       ELSE UNCHANGED <<status, processed>>
    /\ deriv' = deriv \cup {p}
    /\ mon' = [mon EXCEPT ![p] = "done"]
    /\ UNCHANGED <<size, declared, age, ledger, store, hook, purging, beats, gallery>>

(* _handle_abandoned_upload: delete and refund, only if still PENDING; the  *)
(* row lock is taken with nowait, so a delete in flight ends the task too.  *)
MonAbandon(p) ==
    /\ mon[p] = "absent"
    /\ mon' = [mon EXCEPT ![p] = "done"]
    /\ \/ /\ status[p] = "PENDING"
          /\ Put(p, "GONE")
          /\ Refund({p}, size[p])
       \/ /\ status[p] # "PENDING" \/ p \in OwnerDeletes
          /\ UNCHANGED <<status, ledger>>
    /\ UNCHANGED <<size, processed, declared, age, store, hook, deriv, purging, beats, gallery>>
-----------------------------------------------------------------------------
(* Web-derivative task: it matters here because an undecodable original     *)
(* fails the photo.  A worker lost before its ack runs the task again.      *)
DerivPoison(p) ==
    /\ p \in deriv
    /\ MarkFailed(p)
    /\ deriv' \in {deriv, deriv \ {p}}
    /\ UNCHANGED <<size, processed, declared, age, store, hook, mon, beats, gallery>>

DerivEnds(p) ==
    /\ p \in deriv
    /\ deriv' = deriv \ {p}
    /\ UNCHANGED <<rows, ledger, store, hook, mon, purging, beats, gallery>>
-----------------------------------------------------------------------------
(* Mutant: refunds whatever status the row has come to.                     *)
OwnerDestroyRefunds(p) ==
    /\ p \in OwnerDeletes
    /\ Exists(p)
    /\ Put(p, "GONE")
    /\ Refund({p}, size[p])
    /\ purging' = purging \cup Keyed({p})
    /\ UNCHANGED <<size, processed, declared, age, store, hook, mon, deriv, beats, gallery>>

(* The photographer deletes one photo (perform_destroy)...                  *)
OwnerDestroy(p) ==
    /\ p \in OwnerDeletes
    /\ Exists(p)
    /\ Put(p, "GONE")
    /\ IF status[p] \in Refundable THEN Refund({p}, size[p]) ELSE UNCHANGED ledger
    /\ purging' = purging \cup Keyed({p})
    /\ UNCHANGED <<size, processed, declared, age, store, hook, mon, deriv, beats, gallery>>

(* ... or the scene or event: the rows cascade, and neither the ledger nor  *)
(* R2 hears of it.                                                          *)
CascadeDelete ==
    /\ gallery # "deleted"
    /\ PutAll({p \in Photo : Exists(p)}, "GONE")
    /\ gallery' = "deleted"
    /\ UNCHANGED <<size, processed, declared, age, ledger, store, hook, tasks, beats>>

(* A billing event rewrites the storage limit.                              *)
SetLimit ==
    /\ \E l \in Limits \ {limit} : limit' = l
    /\ UNCHANGED <<rows, used, billed, store, hook, tasks, beats, gallery>>
-----------------------------------------------------------------------------
(* reap_abandoned_uploads: list, then for each row HEAD outside the lock    *)
(* and settle inside it.                                                    *)
ReapScan(r) ==
    /\ reap[r] = [p \in HeavyPhoto |-> "no"]
    /\ LET S == {p \in HeavyPhoto : status[p] = "PENDING" /\ age[p] = "stale"} IN
       /\ S # {}
       /\ reap' = [reap EXCEPT ![r] = [p \in HeavyPhoto |-> IF p \in S THEN "listed" ELSE "no"]]
    /\ UNCHANGED <<rows, ledger, store, hook, tasks, snap, gallery>>

ReapHead(r, p) ==
    /\ reap[r][p] = "listed"
    /\ \A q \in HeavyPhoto : reap[r][q] \in {"no", "listed"}
    /\ reap' = [reap EXCEPT ![r][p] = IF object[p] = Missing THEN "missing" ELSE "exists"]
    /\ UNCHANGED <<rows, ledger, store, hook, tasks, snap, gallery>>

(* R2 cannot be trusted: the run stops without touching anything else.      *)
ReapAbort(r) ==
    /\ reap[r] # [p \in HeavyPhoto |-> "no"]
    /\ reap' = [reap EXCEPT ![r] = [p \in HeavyPhoto |-> "no"]]
    /\ UNCHANGED <<rows, ledger, store, hook, tasks, snap, gallery>>

(* Mutant: the phantom is logged and left PENDING.                          *)
ReapPhantomLogs(r, p) ==
    /\ reap[r][p] = "exists"
    /\ reap' = [reap EXCEPT ![r][p] = "no"]
    /\ UNCHANGED <<rows, ledger, store, hook, tasks, snap, gallery>>

(* The object is there but its webhook never came: quarantine.              *)
ReapPhantom(r, p) ==
    /\ reap[r][p] = "exists"
    /\ reap' = [reap EXCEPT ![r][p] = "no"]
    /\ IF status[p] = "PENDING" THEN Put(p, "QUARANTINED") ELSE UNCHANGED status
    /\ UNCHANGED <<size, processed, declared, age, ledger, store, hook, tasks, snap, gallery>>

(* Mutant: the row is not looked up again under the lock.                   *)
ReapAbandonedUnlocked(r, p) ==
    /\ reap[r][p] = "missing"
    /\ reap' = [reap EXCEPT ![r][p] = "no"]
    /\ Exists(p)
    /\ Put(p, "FAILED")
    /\ Refund({p}, size[p])
    /\ UNCHANGED <<size, processed, declared, age, store, hook, tasks, snap, gallery>>

(* Nothing was uploaded: refund and keep the row as FAILED.                 *)
ReapAbandoned(r, p) ==
    /\ reap[r][p] = "missing"
    /\ reap' = [reap EXCEPT ![r][p] = "no"]
    /\ status[p] = "PENDING"
    /\ Put(p, "FAILED")
    /\ Refund({p}, size[p])
    /\ UNCHANGED <<size, processed, declared, age, store, hook, tasks, snap, gallery>>

(* The locked re-read finds the row settled, gone, or locked by another.    *)
ReapSkip(r, p) ==
    /\ reap[r][p] = "missing"
    /\ reap' = [reap EXCEPT ![r][p] = "no"]
    /\ UNCHANGED <<rows, ledger, store, hook, tasks, snap, gallery>>
-----------------------------------------------------------------------------
(* Retention: the published gallery passes its expiry, then its grace.      *)
GalleryAges ==
    /\ \/ gallery = "live" /\ gallery' = "due"
       \/ gallery = "due" /\ gallery' = "over"
    /\ UNCHANGED <<rows, ledger, store, hook, tasks, beats>>

(* expire_due_galleries: one UPDATE over every READY photo.                 *)
ExpireDue ==
    /\ gallery \in {"due", "over"}
    /\ \E p \in Photo : status[p] = "READY"
    /\ PutAll({p \in Photo : status[p] = "READY"}, "EXPIRED")
    /\ UNCHANGED <<size, processed, declared, age, ledger, store, hook, tasks, beats, gallery>>

(* hard_delete_expired_galleries reads the expired rows and adds up their   *)
(* refund outside the transaction ...                                       *)
HardDeleteRead(d) ==
    /\ gallery = "over"
    /\ snap[d] = NoSnap
    /\ LET S == {p \in Photo : status[p] = "EXPIRED"} IN
       /\ S # {}
       /\ snap' = [snap EXCEPT ![d] = [ids |-> S, refund |-> Total(S, size)]]
    /\ UNCHANGED <<rows, ledger, store, hook, tasks, reap, gallery>>

(* ... and inside it deletes whichever of them are left, refunds the sum it *)
(* computed, and queues a purge for every row it read.                      *)
HardDeleteCommit(d) ==
    /\ snap[d].ids # {}
    /\ PutAll(snap[d].ids, "GONE")
    /\ Refund(snap[d].ids, snap[d].refund)
    /\ purging' = purging \cup Keyed(snap[d].ids)
    /\ snap' = [snap EXCEPT ![d] = NoSnap]
    /\ UNCHANGED <<size, processed, declared, age, store, hook, mon, deriv, reap, gallery>>

(* The transaction rolls back, or the worker dies before it.                *)
HardDeleteFails(d) ==
    /\ snap[d].ids # {}
    /\ snap' = [snap EXCEPT ![d] = NoSnap]
    /\ UNCHANGED <<rows, ledger, store, hook, tasks, reap, gallery>>

(* purge_photo_assets: delete the keys it was given.                        *)
Purge(p) ==
    /\ p \in purging
    /\ object' = [object EXCEPT ![p] = Missing]
    /\ purging' = purging \ {p}
    /\ UNCHANGED <<rows, ledger, notified, hook, mon, deriv, beats, gallery>>

(* The process dies between commit and enqueue, or the retries run out.     *)
PurgeLost(p) ==
    /\ p \in purging
    /\ purging' = purging \ {p}
    /\ UNCHANGED <<rows, ledger, store, hook, mon, deriv, beats, gallery>>
-----------------------------------------------------------------------------
HookStep(h) ==
    \/ \E p \in HeavyPhoto : HookRead(h, p)
    \/ HookHead(h) \/ HookDrop(h)
    \/ HookNoEffect(h) \/ HookQuarantine(h) \/ HookAccept(h)

HeavyStep == HeavyCommit \/ \E p \in HeavyPhoto : ClientPut(p) \/ TicketAges(p)

FastStep(p) ==
    \/ FastCreate(p) \/ FastDispatch(p) \/ VaultPut(p)
    \/ MonRead(p) \/ MonHead(p) \/ MonRetry(p) \/ MonGiveUp(p)
    \/ MonHeal(p) \/ MonAbandon(p)

PhotoTask(p) ==
    \/ DerivPoison(p) \/ DerivEnds(p) \/ OwnerDestroy(p)
    \/ Purge(p) \/ PurgeLost(p)

ReapStep(r) ==
    \/ ReapScan(r) \/ ReapAbort(r)
    \/ \E p \in HeavyPhoto : \/ ReapHead(r, p) \/ ReapPhantom(r, p)
                             \/ ReapAbandoned(r, p) \/ ReapSkip(r, p)

HardDeleteStep(d) == HardDeleteRead(d) \/ HardDeleteCommit(d) \/ HardDeleteFails(d)

Next ==
    \/ HeavyStep
    \/ \E h \in Handler : HookStep(h)
    \/ \E p \in FastPhoto : FastStep(p)
    \/ \E p \in Photo : PhotoTask(p)
    \/ \E r \in Reaper : ReapStep(r)
    \/ \E d \in HardDeleter : HardDeleteStep(d)
    \/ CascadeDelete \/ SetLimit \/ GalleryAges \/ ExpireDue

Spec == Init /\ [][Next]_vars

(* A listed row that was probed is settled, or found settled by another.    *)
ReapSettle(r, p) ==
    \/ ReapPhantom(r, p) \/ ReapAbandoned(r, p)
    \/ status[p] # "PENDING" /\ ReapSkip(r, p)

(* Beat keeps running the reaper and time passes.  A HEAD that can succeed  *)
(* again and again does in the end (an R2 outage is not permanent), and the *)
(* same goes for the nowait row lock.  Nothing is assumed of clients,       *)
(* webhooks or the photographer.                                            *)
ReaperFairness ==
    /\ \A p \in HeavyPhoto : WF_vars(TicketAges(p))
    /\ \A r \in Reaper :
         /\ WF_vars(ReapScan(r))
         /\ \A p \in HeavyPhoto : SF_vars(ReapHead(r, p)) /\ SF_vars(ReapSettle(r, p))

(* Celery runs what is queued, and R2 answers a probe in the end.           *)
FastFairness ==
    \A p \in FastPhoto :
        /\ WF_vars(FastDispatch(p)) /\ WF_vars(MonRead(p))
        /\ SF_vars(MonHead(p)) /\ SF_vars(MonHeal(p)) /\ SF_vars(MonAbandon(p))

LiveSpec == Spec /\ ReaperFairness /\ FastFairness
-----------------------------------------------------------------------------
(* Rows whose bytes the workspace is charged for.                           *)
Live == {p \in Photo : status[p] \in {"PENDING", "READY", "EXPIRED"}}

(* Every refund happens once, and only for bytes that were charged: the     *)
(* counter is exactly the sum of the bills not yet settled, every live row  *)
(* has its bill open, and a FAILED row has had it settled.  This is what    *)
(* the row locks and status re-checks of webhook, monitor, reaper, poison   *)
(* pill, owner delete and hard delete are for (photo_failure.py:1,          *)
(* views.py:646, ingestion/tasks.py:89).                                    *)
LedgerExact ==
    /\ used = Total(billed, size)
    /\ Live \subseteq billed
    /\ \A p \in billed : status[p] \notin {"NONE", "FAILED"}

(* A webhook that will still change the row compared R2 with the size the   *)
(* row has, and only heavy rows that exist are looked up.                   *)
HooksCurrent ==
    \A h \in Handler : hook[h] # Idle =>
        /\ status[hook[h].photo] # "NONE"
        /\ status[hook[h].photo] = "PENDING" => hook[h].declared = size[hook[h].photo]

(* What a hard delete has read is still to be settled, will not change size *)
(* or come back to life, and adds up to the refund it computed.             *)
SnapsCurrent ==
    \A d \in HardDeleter :
        /\ snap[d].ids \subseteq billed
        /\ \A p \in snap[d].ids : status[p] \in {"EXPIRED", "QUARANTINED", "GONE"}
        /\ snap[d].refund = Total(snap[d].ids, size)

(* LedgerExact made inductive: it depends on what the actors that read      *)
(* before they lock still believe.                                          *)
LedgerInv == TypeOK /\ LedgerExact /\ HooksCurrent /\ SnapsCurrent

(* The ledger never under-counts: what live rows occupy is covered by       *)
(* storage_used_bytes, so the quota gate of the next upload sees all of it. *)
LiveBytesCovered == Total(Live, size) <= used

(* Whatever step makes the live rows grow leaves them within the limit of   *)
(* the plan in force: no interleaving of tickets, refunds and deletions     *)
(* hands out the same headroom twice (core/quota.py:1).                     *)
NoOversell ==
    [][Total(Live, size)' > Total(Live, size) => Total(Live, size)' <= limit]_vars

(* A photo offered for download (READY, and EXPIRED until the hard delete)  *)
(* has its original in R2 and no purge is under way for it, although        *)
(* webhook and monitor look at R2 before they take the row lock.            *)
ReadyHasOriginal ==
    \A p \in Photo : status[p] \in {"READY", "EXPIRED"} =>
        object[p] # Missing /\ p \notin purging

(* A late webhook, a redelivered task or a second reaper never brings a     *)
(* settled upload back: READY is entered from PENDING only, a deleted row   *)
(* stays deleted, and a FAILED, QUARANTINED or EXPIRED row is never         *)
(* charged or delivered again.                                              *)
NoResurrection ==
    [][\A p \in Photo :
         /\ status[p] = "GONE" => status'[p] = "GONE"
         /\ status[p] \in {"FAILED", "QUARANTINED", "EXPIRED"} =>
                status'[p] \notin {"NONE", "PENDING", "READY"}
         /\ status[p] = "FAILED" => p \notin billed']_vars

(* A ticket nobody redeems, or redeems without a webhook arriving, does not *)
(* hold quota for ever: the reaper settles every heavy row.                 *)
AbandonedSettled ==
    \A p \in HeavyPhoto : (status[p] = "PENDING") ~> (status[p] # "PENDING")

(* The ledger of the running system is the account of StorageAccount, with  *)
(* the bytes of the unsettled bills as what each upload holds.              *)
Held == [p \in Photo |-> IF p \in billed THEN size[p] ELSE 0]
Account == INSTANCE StorageAccount WITH Upload <- Photo, held <- Held

(* Every step of every actor is a grant within the limit, a give-back or a  *)
(* plan change of the account, or leaves it alone: no interleaving of the   *)
(* webhook, the tasks, the sweeps and the photographer makes the counter    *)
(* differ from the bytes it stands for (core/quota.py:33-72).               *)
ImplementsAccount == Account!Spec
-----------------------------------------------------------------------------
(* What the documentation says and the code does not do.                    *)

(* security-architecture.md:28 "Deletes and failed uploads reconcile        *)
(* storage usage": with every photo deleted or failed, nothing is in use.   *)
DeletesReconcile ==
    (\A p \in Photo : status[p] \in {"NONE", "FAILED", "GONE"}) => used = 0

(* upload-pipelines.md:61 "The request reserves quota, records a PENDING    *)
(* asset, and schedules the vault upload. Celery workers reconcile or       *)
(* refund later": no accepted fast-lane upload stays PENDING for good.      *)
FastLaneReconciles ==
    \A p \in FastPhoto : (status[p] = "PENDING") ~> (status[p] # "PENDING")
=============================================================================
